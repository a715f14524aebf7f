------------------------ MODULE TemplateCacheProofs ------------------------
(***************************************************************************)
(* Proofs about the agent's template cache, for any number of templates,   *)
(* stores, syncs and failures: along the way from the keys of the server   *)
(* through the answer, the stream and the file to the entry of the         *)
(* manifest, the texts of a template get older and never overtake.         *)
(***************************************************************************)
EXTENDS TemplateCache, FiniteSetTheorems, SequenceTheorems, TLAPS

Kind(u) == u.entry.custom

\* The update u is not newer than the update w of the same file.
NotAfter(u, w) == u.t = w.t /\ Kind(u) = Kind(w) => u.text <= w.text

\* The server's keys: metadata is no newer than its content.
StoreInv ==
    /\ \A c \in BOOLEAN, t \in Ids : content[c][t] <= stores
    /\ \A t \in Ids : meta[t].v <= stores
    /\ \A t \in Ids : content[meta[t].custom][t] = 0 \/ meta[t].v <= content[meta[t].custom][t]
    /\ writer.op = "store" => content[writer.meta.custom][writer.t] = writer.meta.v
    /\ got.meta.v <= stores
    /\ spc = "content" =>
         \/ content[got.meta.custom][got.t] = 0
         \/ got.meta.v <= content[got.meta.custom][got.t]

\* A text on its way, or in a file, was once the content.
Reaches(text, c, t) == text <= stores /\ (content[c][t] = 0 \/ text <= content[c][t])

Sound(u) ==
    /\ u.entry.v <= u.entry.checksum
    /\ u.entry.checksum = u.text
    /\ file[Kind(u)][u.t] <= u.text
    /\ Reaches(u.text, Kind(u), u.t)

IsUpdate(i) == ~IsManifest(wire[i])

WayInv ==
    /\ \A i \in 1..Len(wire) : IsUpdate(i) => Sound(wire[i])
    /\ \A j \in 1..Len(batch) : Sound(batch[j])
    /\ \A i, k \in 1..Len(wire) : i < k /\ IsUpdate(i) /\ IsUpdate(k) => NotAfter(wire[i], wire[k])
    /\ \A i \in 1..Len(wire), j \in 1..Len(batch) : IsUpdate(i) => NotAfter(wire[i], batch[j])
    /\ \A j, k \in 1..Len(batch) : j < k => NotAfter(batch[j], batch[k])
    /\ \A c \in BOOLEAN, t \in Ids : Reaches(file[c][t], c, t)

HandInv ==
    apc = "entry" =>
        /\ cur.t \in behind
        /\ cur.entry.v <= cur.entry.checksum
        /\ cur.entry.checksum = cur.text
        /\ cur.text = file[Kind(cur)][cur.t]

CacheInv == TypeOK /\ StoreInv /\ WayInv /\ HandInv /\ CacheValid

-----------------------------------------------------------------------------
(* Types.                                                                   *)

LEMMA Constants ==
    /\ MaxStores \in Nat /\ MaxSyncs \in Nat /\ MaxFaults \in Nat
    /\ Idle.t \in Ids
    /\ 0 \in Versions
<1>1. (CHOOSE t \in Ids : TRUE) \in Ids
  BY CacheAssumption
<1> QED BY <1>1, CacheAssumption DEF Idle, Versions

LEMMA Blanks ==
    /\ NoMeta \in Metas /\ NoMeta.v = 0
    /\ NoEntry \in Entries
    /\ NoEntries \in [Ids -> Entries]
    /\ NoTally \in Tallies
    /\ NoKey \in [t : Ids, meta : Metas] /\ NoKey.meta = NoMeta
    /\ NoUpdate \in Updates
    /\ Idle \in [op : {"none", "store", "delete"}, t : Ids, meta : Metas]
    /\ Idle.op = "none" /\ Idle.meta = NoMeta
BY Constants DEF NoMeta, Metas, NoEntry, NoEntries, Entries, NoTally, Tallies, NoKey, NoUpdate,
                 Updates, Idle

LEMMA Manifests ==
    /\ \A m \in Tallies : IsManifest(m)
    /\ \A u \in Updates : ~IsManifest(u)
<1>1. \A m \in Tallies : IsManifest(m)
  BY DEF IsManifest, Tallies
<1>2. ASSUME NEW u \in Updates
      PROVE  ~IsManifest(u)
  <2>0. PICK t \in Ids, text \in Versions, e \in Entries : u = [t |-> t, text |-> text, entry |-> e]
    BY DEF Updates
  <2>1. DOMAIN u = {"t", "text", "entry"}
    BY <2>0
  <2> QED BY <2>1 DEF IsManifest
<1> QED BY <1>1, <1>2

LEMMA PutType ==
    ASSUME NEW f \in [BOOLEAN -> [Ids -> Versions]], NEW c \in BOOLEAN, NEW t \in Ids, NEW v \in Versions
    PROVE  /\ Put(f, c, t, v) \in [BOOLEAN -> [Ids -> Versions]]
           /\ \A d \in BOOLEAN, r \in Ids :
                Put(f, c, t, v)[d][r] = IF d = c /\ r = t THEN v ELSE f[d][r]
BY DEF Put

LEMMA FirstTaken ==
    ASSUME NEW S, NEW w \in Seq(S), w # <<>>
    PROVE  LET rest == SubSeq(w, 1, FirstOf(w) - 1) \o SubSeq(w, FirstOf(w) + 1, Len(w))
           IN /\ FirstOf(w) \in 1..Len(w)
              /\ w[FirstOf(w)] \in S
              /\ rest \in Seq(S)
              /\ Len(rest) = Len(w) - 1
              /\ \A i \in 1..Len(rest) : i + 1 \in 1..Len(w) /\ rest[i] = w[i + 1]
<1>1. Len(w) \in Nat /\ Len(w) # 0 /\ \A i \in 1..Len(w) : w[i] \in S
  OBVIOUS
<1>2. FirstOf(w) - 1 = 0 /\ FirstOf(w) + 1 = 2
  BY DEF FirstOf
<1>3. SubSeq(w, 1, 0) = <<>> /\ SubSeq(w, 2, Len(w)) = Tail(w)
  BY TailIsSubSeq, SubSeqEmpty
<1>4. /\ Tail(w) \in Seq(S) /\ Len(Tail(w)) = Len(w) - 1
      /\ \A i \in 1..Len(Tail(w)) : Tail(w)[i] = w[i + 1]
  BY HeadTailProperties
<1>5. <<>> \o Tail(w) = Tail(w)
  BY <1>4, ConcatEmptySeq
<1>6. SubSeq(w, 1, FirstOf(w) - 1) \o SubSeq(w, FirstOf(w) + 1, Len(w)) = Tail(w)
  BY <1>2, <1>3, <1>5
<1> QED BY <1>1, <1>4, <1>6 DEF FirstOf

LEMMA StatisticsType ==
    ASSUME NEW entries \in [Ids -> Entries]
    PROVE  Statistics(entries) \in Tallies
<1>1. \A c \in BOOLEAN : Count(entries, c) \in Nat
  <2> TAKE c \in BOOLEAN
  <2> DEFINE T == {t \in Ids : entries[t] # NoEntry /\ entries[t].custom = c}
  <2>1. T \subseteq Ids /\ IsFiniteSet(T)
    BY CacheAssumption, FS_Subset
  <2>2. Cardinality(T) \in Nat
    BY <2>1, FS_CardinalityType
  <2> QED BY <2>2 DEF Count
<1> DEFINE m == Count(entries, TRUE)
           n == Count(entries, FALSE)
<1>2. m \in Nat /\ n \in Nat
  BY <1>1
<1>3. Statistics(entries) = [total |-> m + n, standard |-> n, custom |-> m]
  BY DEF Statistics
<1> HIDE DEF m, n
<1>4. [total |-> m + n, standard |-> n, custom |-> m] \in Tallies
  BY <1>2 DEF Tallies
<1> QED BY <1>3, <1>4

LEMMA TypeStep ==
    ASSUME TypeOK, [Next]_vars
    PROVE  TypeOK'
<1>0. calm' \in BOOLEAN
  BY DEF TypeOK, Next, vars, store, handler, cache, StoreTemplate, DeleteTemplate, StoreMeta, DeleteMeta,
         WriterFails, SyncFromServer, ListKeys, ReadMeta, ReadContent, SendManifest, SendTemplate,
         HandleManifestUpdate, WriteFile, SaveEntry, StreamLost, Fault, NoFault
<1>1. ASSUME NEW t \in Ids, NEW c \in BOOLEAN, StoreTemplate(t, c)
      PROVE  TypeOK'
  <2>1. stores' \in Versions /\ [v |-> stores + 1, custom |-> c] \in Metas
    BY <1>0, <1>1, Constants, Blanks DEF StoreTemplate, TypeOK, Versions, Metas
  <2>2. content' \in [BOOLEAN -> [Ids -> Versions]]
    BY <1>0, <1>1, Constants, Blanks, <2>1, PutType DEF StoreTemplate, TypeOK, Metas
  <2>3. writer' \in [op : {"none", "store", "delete"}, t : Ids, meta : Metas]
    BY <1>0, <1>1, Constants, Blanks, <2>1 DEF StoreTemplate
  <2> QED BY <1>0, <1>1, Constants, Blanks, <2>1, <2>2, <2>3 DEF StoreTemplate, TypeOK, handler, cache
<1>2. ASSUME NEW t \in Ids, DeleteTemplate(t)
      PROVE  TypeOK'
  <2>1. stores' \in Versions
    BY <1>0, <1>2, Constants, Blanks DEF DeleteTemplate, TypeOK, Versions
  <2>2. content' \in [BOOLEAN -> [Ids -> Versions]]
    BY <1>0, <1>2, Constants, Blanks, PutType DEF DeleteTemplate, TypeOK
  <2>3. writer' \in [op : {"none", "store", "delete"}, t : Ids, meta : Metas]
    BY <1>0, <1>2, Constants, Blanks DEF DeleteTemplate
  <2> QED BY <1>0, <1>2, Constants, Blanks, <2>1, <2>2, <2>3 DEF DeleteTemplate, TypeOK, handler, cache
<1>3. CASE StoreMeta
  BY <1>0, <1>3, Constants, Blanks DEF StoreMeta, TypeOK, handler, cache
<1>4. CASE DeleteMeta
  BY <1>0, <1>4, Constants, Blanks DEF DeleteMeta, TypeOK, handler, cache
<1>5. CASE WriterFails
  BY <1>0, <1>5, Constants, Blanks DEF WriterFails, Fault, TypeOK, handler, cache
<1>6. CASE SyncFromServer
  BY <1>0, <1>6, Constants, Blanks DEF SyncFromServer, TypeOK, store, handler, cache
<1>7. CASE ListKeys
  <2>1. [total |-> Cardinality(MetaKeys), standard |-> 0, custom |-> 0] \in Tallies
    <3>1. Cardinality(MetaKeys) \in Nat
      BY CacheAssumption, FS_Subset, FS_CardinalityType DEF MetaKeys
    <3> QED BY <3>1 DEF Tallies
  <2>2. todo' \subseteq Ids /\ sum' \in Tallies
    BY <1>0, <1>7, Constants, Blanks, <2>1 DEF ListKeys, MetaKeys, TypeOK
  <2>3. wire' \in Seq(Updates \cup Tallies)
    <3>1. NoTally \in Updates \cup Tallies
      BY Blanks
    <3>2. Append(wire, NoTally) \in Seq(Updates \cup Tallies)
      BY <3>1, AppendProperties DEF TypeOK
    <3> QED BY <1>7, <3>2 DEF ListKeys, TypeOK
  <2>4. requests' \in 0..syncs' /\ faults' \in 0..MaxFaults
    BY <1>0, <1>7, Constants, Blanks DEF ListKeys, Fault, TypeOK
  <2> QED BY <1>0, <1>7, Constants, Blanks, <2>2, <2>3, <2>4 DEF ListKeys, TypeOK, store, cache
<1>8. CASE ReadMeta
  <2>1. got' \in [t : Ids, meta : Metas] /\ (spc' = "content" => got'.meta # NoMeta)
    <3>1. \A t \in Ids : meta[t] \in Metas
      BY DEF TypeOK
    <3> QED BY <1>8, <3>1 DEF ReadMeta, TypeOK
  <2>2. sum' \in Tallies
    BY <1>0, <1>8, Constants, Blanks DEF ReadMeta, Counted, TypeOK, Tallies
  <2>3. todo' \subseteq Ids /\ faults' \in 0..MaxFaults
    BY <1>0, <1>8, Constants, Blanks DEF ReadMeta, Fault, NoFault, TypeOK
  <2> QED BY <1>0, <1>8, Constants, Blanks, <2>1, <2>2, <2>3 DEF ReadMeta, TypeOK, store, cache
<1>9. CASE ReadContent
  <2> DEFINE text == content[got.meta.custom][got.t]
             u == TemplateUpdate(got.t, got.meta, text)
  <2>1. text \in Versions
    BY DEF TypeOK, Metas
  <2>2. u \in Updates /\ u.text = text
    BY <2>1 DEF TemplateUpdate, Checksum, Updates, Entries, TypeOK, Metas
  <2>3. batch' \in Seq(Updates) /\ \A i \in 1..Len(batch') : batch'[i].text # 0
    <3>1. CASE batch' = batch
      BY <3>1 DEF TypeOK
    <3>2. CASE batch' = Append(batch, u) /\ text # 0
      <4> HIDE DEF u, text
      <4> QED BY <2>2, <3>2, AppendProperties DEF TypeOK
    <3> QED BY <1>9, <3>1, <3>2 DEF ReadContent, Answered
  <2>4. faults' \in 0..MaxFaults
    BY <1>0, <1>9, Constants, Blanks DEF ReadContent, Fault, NoFault, TypeOK
  <2> QED BY <1>0, <1>9, Constants, Blanks, <2>3, <2>4 DEF ReadContent, TypeOK, store, cache
<1>10. CASE SendManifest
  BY <1>0, <1>10, Constants, Blanks DEF SendManifest, TypeOK, store, cache
<1>11. CASE SendTemplate
  <2>1. batch' \in Seq(Updates) /\ \A i \in 1..Len(batch') : batch'[i].text # 0
    <3>1. CASE batch = <<>>
      BY <1>11, <3>1 DEF SendTemplate, TypeOK
    <3>2. CASE batch # <<>>
      <4>1. batch \in Seq(Updates) /\ batch' = Tail(batch)
        BY <1>11, <3>2 DEF SendTemplate, TypeOK
      <4>2. /\ Tail(batch) \in Seq(Updates) /\ Len(Tail(batch)) = Len(batch) - 1
            /\ \A i \in 1..Len(Tail(batch)) : Tail(batch)[i] = batch[i + 1]
        BY <3>2, <4>1, HeadTailProperties
      <4>3. Len(batch) \in Nat /\ \A i \in 1..Len(Tail(batch)) : i + 1 \in 1..Len(batch)
        BY <4>1, <4>2
      <4> QED BY <4>1, <4>2, <4>3 DEF TypeOK
    <3> QED BY <3>1, <3>2
  <2>2. wire' \in Seq(Updates \cup Tallies)
    <3>1. CASE batch = <<>>
      BY <1>11, <3>1 DEF SendTemplate, TypeOK
    <3>2. CASE batch # <<>>
      <4>1. Head(batch) \in Updates \cup Tallies
        BY <3>2, HeadTailProperties DEF TypeOK
      <4>2. Append(wire, Head(batch)) \in Seq(Updates \cup Tallies)
        BY <4>1, AppendProperties DEF TypeOK
      <4> QED BY <1>11, <3>2, <4>2 DEF SendTemplate
    <3> QED BY <3>1, <3>2
  <2> QED BY <1>0, <1>11, Constants, Blanks, <2>1, <2>2 DEF SendTemplate, TypeOK, store, cache
<1>12. CASE HandleManifestUpdate
  <2> DEFINE msg == wire[FirstOf(wire)]
  <2>1. msg \in Updates \cup Tallies /\ wire' \in Seq(Updates \cup Tallies)
    BY <1>0, <1>12, Constants, Blanks, FirstTaken DEF HandleManifestUpdate, Take, TypeOK
  <2>2. msg \in Tallies
    BY <1>0, <1>12, Constants, Blanks, <2>1, Manifests DEF HandleManifestUpdate
  <2>3. entry' \in [Ids -> Entries] /\ tally' \in Tallies
    BY <1>0, <1>12, Constants, Blanks, <2>2 DEF HandleManifestUpdate, TypeOK
  <2>4. faults' \in 0..MaxFaults
    BY <1>0, <1>12, Constants, Blanks DEF HandleManifestUpdate, Fault, NoFault, TypeOK
  <2> QED BY <1>0, <1>12, Constants, Blanks, <2>1, <2>3, <2>4 DEF HandleManifestUpdate, TypeOK, store, handler
<1>13. CASE WriteFile
  <2> DEFINE msg == wire[FirstOf(wire)]
  <2>1. msg \in Updates \cup Tallies /\ wire' \in Seq(Updates \cup Tallies)
    BY <1>0, <1>13, Constants, Blanks, FirstTaken DEF WriteFile, Take, TypeOK
  <2>2. msg \in Updates
    BY <1>0, <1>13, Constants, Blanks, <2>1, Manifests DEF WriteFile
  <2>3. Directory(msg) \in BOOLEAN /\ msg.t \in Ids /\ msg.text \in Versions
    BY <2>2 DEF Updates, Entries, Directory
  <2>4. file' \in [BOOLEAN -> [Ids -> Versions]]
    <3>1. Put(file, Directory(msg), msg.t, msg.text) \in [BOOLEAN -> [Ids -> Versions]]
      BY <2>3, PutType DEF TypeOK
    <3> QED BY <1>13, <3>1 DEF WriteFile, TypeOK
  <2>5. cur' \in Updates /\ apc' \in {"idle", "entry"} /\ behind' \subseteq Ids
    BY <1>0, <1>13, Constants, Blanks, <2>2, <2>3 DEF WriteFile, TypeOK
  <2>6. faults' \in 0..MaxFaults
    BY <1>0, <1>13, Constants, Blanks DEF WriteFile, Fault, NoFault, TypeOK
  <2> QED BY <1>0, <1>13, Constants, Blanks, <2>1, <2>4, <2>5, <2>6 DEF WriteFile, TypeOK, store, handler
<1>14. CASE SaveEntry
  <2>1. entry' \in [Ids -> Entries]
    BY <1>0, <1>14, Constants, Blanks DEF SaveEntry, TypeOK, Updates
  <2>2. tally' \in Tallies
    BY <1>0, <1>14, Constants, Blanks, <2>1, StatisticsType DEF SaveEntry, TypeOK
  <2>3. faults' \in 0..MaxFaults
    BY <1>0, <1>14, Constants, Blanks DEF SaveEntry, Fault, NoFault, TypeOK
  <2> QED BY <1>0, <1>14, Constants, Blanks, <2>1, <2>2, <2>3 DEF SaveEntry, TypeOK, store, handler
<1>15. CASE StreamLost
  BY <1>0, <1>15, Constants, Blanks DEF StreamLost, Fault, TypeOK, store, cache
<1>16. CASE UNCHANGED vars
  BY <1>0, <1>16, Constants, Blanks DEF vars, store, handler, cache, TypeOK
<1> QED BY <1>1, <1>2, <1>3, <1>4, <1>5, <1>6, <1>7, <1>8, <1>9, <1>10, <1>11, <1>12, <1>13,
           <1>14, <1>15, <1>16 DEF Next

LEMMA TypeInit == Init => TypeOK
<1> SUFFICES ASSUME Init PROVE TypeOK
  OBVIOUS
<1>1. content \in [BOOLEAN -> [Ids -> Versions]] /\ file \in [BOOLEAN -> [Ids -> Versions]]
  BY Constants DEF Init
<1>2. meta \in [Ids -> Metas] /\ entry \in [Ids -> Entries]
  BY Blanks DEF Init
<1>3. batch \in Seq(Updates) /\ wire \in Seq(Updates \cup Tallies) /\ \A i \in 1..Len(batch) : batch[i].text # 0
  BY DEF Init
<1>4. spc \in {"idle", "meta", "content", "sending"} /\ spc # "content" /\ calm \in BOOLEAN
  BY DEF Init
<1>5. sum \in Tallies /\ tally \in Tallies /\ got \in [t : Ids, meta : Metas] /\ cur \in Updates
  BY Blanks DEF Init
<1> QED BY <1>1, <1>2, <1>3, <1>4, <1>5, Constants, Blanks DEF Init, TypeOK

\* Every variable stays in its domain: TypeOK is inductive.
THEOREM TypeCorrect == Spec => []TypeOK
BY TypeInit, TypeStep, PTL DEF Spec

-----------------------------------------------------------------------------
(* The server's keys.                                                       *)

LEMMA ContentStep ==
    ASSUME TypeOK
    PROVE  /\ \A t \in Ids, c \in BOOLEAN : StoreTemplate(t, c) =>
                /\ stores' = stores + 1
                /\ \A d \in BOOLEAN, r \in Ids :
                     content'[d][r] = IF d = c /\ r = t THEN stores + 1 ELSE content[d][r]
           /\ \A t \in Ids : DeleteTemplate(t) =>
                /\ stores' = stores + 1
                /\ \A d \in BOOLEAN, r \in Ids :
                     content'[d][r] = IF d = TRUE /\ r = t THEN 0 ELSE content[d][r]
<1>1. content \in [BOOLEAN -> [Ids -> Versions]]
  BY DEF TypeOK
<1>2. ASSUME NEW t \in Ids, NEW c \in BOOLEAN, StoreTemplate(t, c)
      PROVE  /\ stores' = stores + 1
             /\ \A d \in BOOLEAN, r \in Ids :
                  content'[d][r] = IF d = c /\ r = t THEN stores + 1 ELSE content[d][r]
  <2>1. stores' = stores + 1 /\ content' = Put(content, c, t, stores + 1)
    BY <1>2 DEF StoreTemplate
  <2>2. stores + 1 \in Versions
    BY <1>2, Constants DEF StoreTemplate, TypeOK, Versions
  <2>3. \A d \in BOOLEAN, r \in Ids :
          Put(content, c, t, stores + 1)[d][r] = IF d = c /\ r = t THEN stores + 1 ELSE content[d][r]
    BY <1>1, <2>2 DEF Put
  <2> QED BY <2>1, <2>3
<1>3. ASSUME NEW t \in Ids, DeleteTemplate(t)
      PROVE  /\ stores' = stores + 1
             /\ \A d \in BOOLEAN, r \in Ids :
                  content'[d][r] = IF d = TRUE /\ r = t THEN 0 ELSE content[d][r]
  <2>1. stores' = stores + 1 /\ content' = Put(content, TRUE, t, 0)
    BY <1>3 DEF DeleteTemplate
  <2>2. \A d \in BOOLEAN, r \in Ids :
          Put(content, TRUE, t, 0)[d][r] = IF d = TRUE /\ r = t THEN 0 ELSE content[d][r]
    BY <1>1, Constants DEF Put
  <2> QED BY <2>1, <2>2
<1> QED BY <1>2, <1>3

LEMMA StoreStep ==
    ASSUME TypeOK, StoreInv, [Next]_vars
    PROVE  StoreInv'
<1>0. /\ stores \in Nat /\ got.meta \in Metas /\ got.t \in Ids
      /\ writer.meta \in Metas /\ writer.t \in Ids
      /\ \A t \in Ids : meta[t] \in Metas
      /\ \A c \in BOOLEAN, t \in Ids : content[c][t] \in Nat
  BY Constants DEF TypeOK, Versions
<1>1. ASSUME NEW t \in Ids, NEW c \in BOOLEAN, StoreTemplate(t, c)
      PROVE  StoreInv'
  <2>1. stores' = stores + 1
    BY <1>1, ContentStep
  <2>2. \A d \in BOOLEAN, r \in Ids :
          content'[d][r] = IF d = c /\ r = t THEN stores + 1 ELSE content[d][r]
    BY <1>1, ContentStep
  <2>3. writer'.op = "store" /\ writer'.t = t /\ writer'.meta = [v |-> stores + 1, custom |-> c]
    BY <1>1 DEF StoreTemplate
  <2>4. UNCHANGED <<meta, spc, got>>
    BY <1>1 DEF StoreTemplate, handler
  <2> QED BY <1>0, <2>1, <2>2, <2>3, <2>4 DEF StoreInv, Metas, Versions
<1>2. ASSUME NEW t \in Ids, DeleteTemplate(t)
      PROVE  StoreInv'
  <2>1. \A d \in BOOLEAN, r \in Ids :
          content'[d][r] = IF d = TRUE /\ r = t THEN 0 ELSE content[d][r]
    BY <1>2, ContentStep
  <2>2. stores' = stores + 1 /\ writer'.op = "delete"
    BY <1>2 DEF DeleteTemplate
  <2>3. UNCHANGED <<meta, spc, got>>
    BY <1>2 DEF DeleteTemplate, handler
  <2> QED BY <1>0, <2>1, <2>2, <2>3 DEF StoreInv, Metas, Versions
<1>3. CASE StoreMeta
  <2>1. \A r \in Ids : meta'[r] = IF r = writer.t THEN writer.meta ELSE meta[r]
    BY <1>3 DEF StoreMeta, TypeOK
  <2>2. /\ writer.op = "store" /\ writer'.op = "none"
        /\ UNCHANGED <<content, stores, spc, got>>
    BY <1>3, Blanks DEF StoreMeta, handler
  <2> QED BY <1>0, <2>1, <2>2 DEF StoreInv, Metas, Versions
<1>4. CASE DeleteMeta
  <2>1. \A r \in Ids : meta'[r] = IF r = writer.t THEN NoMeta ELSE meta[r]
    BY <1>4 DEF DeleteMeta, TypeOK
  <2>2. writer'.op = "none" /\ UNCHANGED <<content, stores, spc, got>>
    BY <1>4, Blanks DEF DeleteMeta, handler
  <2> QED BY <1>0, <2>1, <2>2, Blanks DEF StoreInv, Metas, Versions
<1>5. CASE WriterFails
  <2>1. writer'.op = "none" /\ UNCHANGED <<content, meta, stores, spc, got>>
    BY <1>5, Blanks DEF WriterFails, handler
  <2> QED BY <2>1 DEF StoreInv
<1>6. ASSUME UNCHANGED store, UNCHANGED got, spc' = "content" => spc = "content"
      PROVE  StoreInv'
  BY <1>6 DEF StoreInv, store
<1>7. CASE ReadMeta
  <2>1. UNCHANGED store
    BY <1>7 DEF ReadMeta
  <2>2. CASE UNCHANGED <<spc, got>>
    BY <1>6, <2>1, <2>2
  <2>3. ASSUME NEW t \in Ids, got' = [t |-> t, meta |-> meta[t]]
        PROVE  StoreInv'
    BY <1>0, <2>1, <2>3 DEF StoreInv, store, Metas, Versions
  <2> QED BY <1>7, <2>2, <2>3 DEF ReadMeta, TypeOK
<1>8. CASE ReadContent
  <2>1. UNCHANGED store /\ got' = NoKey /\ spc' = "meta"
    BY <1>8 DEF ReadContent
  <2> QED BY <1>0, <2>1, Blanks DEF StoreInv, store
<1>9. CASE StreamLost
  <2>1. UNCHANGED store /\ got' = NoKey /\ spc' = "idle"
    BY <1>9 DEF StreamLost
  <2> QED BY <1>0, <2>1, Blanks DEF StoreInv, store
<1>10. CASE SyncFromServer \/ ListKeys \/ SendManifest \/ SendTemplate
            \/ HandleManifestUpdate \/ WriteFile \/ SaveEntry \/ UNCHANGED vars
  BY <1>6, <1>10 DEF SyncFromServer, ListKeys, SendManifest, SendTemplate, HandleManifestUpdate,
                     WriteFile, SaveEntry, vars, handler
<1> QED BY <1>1, <1>2, <1>3, <1>4, <1>5, <1>7, <1>8, <1>9, <1>10 DEF Next

-----------------------------------------------------------------------------
(* The way of a text.                                                       *)

\* A step of the server's writer leaves what was on its way sound.
LEMMA ReachesStep ==
    ASSUME TypeOK, [Next]_vars, NEW text \in Versions, NEW c \in BOOLEAN, NEW t \in Ids,
           Reaches(text, c, t)
    PROVE  Reaches(text, c, t)'
<1>0. stores \in Nat /\ text \in Nat
  BY Constants DEF TypeOK, Versions
<1>1. ASSUME NEW r \in Ids, NEW d \in BOOLEAN, StoreTemplate(r, d)
      PROVE  Reaches(text, c, t)'
  <2>1. stores' = stores + 1 /\ content'[c][t] = IF c = d /\ t = r THEN stores + 1 ELSE content[c][t]
    BY <1>1, ContentStep
  <2> QED BY <1>0, <2>1 DEF Reaches
<1>2. ASSUME NEW r \in Ids, DeleteTemplate(r)
      PROVE  Reaches(text, c, t)'
  <2>1. stores' = stores + 1 /\ content'[c][t] = IF c = TRUE /\ t = r THEN 0 ELSE content[c][t]
    BY <1>2, ContentStep
  <2> QED BY <1>0, <2>1 DEF Reaches
<1>3. ASSUME UNCHANGED <<content, stores>>
      PROVE  Reaches(text, c, t)'
  BY <1>3 DEF Reaches
<1> QED BY <1>1, <1>2, <1>3 DEF Next, StoreMeta, DeleteMeta, WriterFails, SyncFromServer, ListKeys,
           ReadMeta, ReadContent, SendManifest, SendTemplate, HandleManifestUpdate, WriteFile,
           SaveEntry, StreamLost, vars, store

LEMMA UpdateTypes ==
    ASSUME TypeOK
    PROVE  /\ \A u \in Updates : Kind(u) \in BOOLEAN /\ u.t \in Ids /\ u.text \in Versions
           /\ \A i \in 1..Len(wire) : IF IsUpdate(i) THEN wire[i] \in Updates ELSE wire[i] \in Tallies
           /\ \A j \in 1..Len(batch) : batch[j] \in Updates
           /\ Len(wire) \in Nat /\ Len(batch) \in Nat
<1>1. \A u \in Updates : Kind(u) \in BOOLEAN /\ u.t \in Ids /\ u.text \in Versions
  BY DEF Kind, Updates, Entries
<1>2. wire \in Seq(Updates \cup Tallies) /\ batch \in Seq(Updates)
  BY DEF TypeOK
<1>3. \A i \in 1..Len(wire) : wire[i] \in Updates \cup Tallies
  BY <1>2
<1>4. \A j \in 1..Len(batch) : batch[j] \in Updates
  BY <1>2
<1> QED BY <1>1, <1>2, <1>3, <1>4, Manifests DEF IsUpdate

LEMMA SoundStep ==
    ASSUME TypeOK, [Next]_vars, NEW u \in Updates, Sound(u), file'[Kind(u)][u.t] <= u.text
    PROVE  Sound(u)'
<1>1. Kind(u) \in BOOLEAN /\ u.t \in Ids /\ u.text \in Versions
  BY UpdateTypes
<1>2. Reaches(u.text, Kind(u), u.t)'
  BY <1>1, ReachesStep DEF Sound
<1> QED BY <1>2 DEF Sound, Kind

\* A step that sends nothing: the wire loses its first message or nothing,
\* and a file is never newer than what is still on its way.
LEMMA NothingSent ==
    ASSUME TypeOK, WayInv, [Next]_vars, NEW k \in {0, 1}, Len(wire') \in Nat,
           \A i \in 1..Len(wire') : i + k \in 1..Len(wire) /\ wire'[i] = wire[i + k],
           UNCHANGED batch,
           \A i \in 1..Len(wire') : IsUpdate(i + k) => file'[Kind(wire[i + k])][wire[i + k].t] <= wire[i + k].text,
           \A j \in 1..Len(batch) : file'[Kind(batch[j])][batch[j].t] <= batch[j].text,
           \A c \in BOOLEAN, t \in Ids : Reaches(file[c][t], c, t)'
    PROVE  WayInv'
<1>1. \A i \in 1..Len(wire') : IsUpdate(i)' <=> IsUpdate(i + k)
  BY DEF IsUpdate, IsManifest
<1>2. \A i \in 1..Len(wire') : IsUpdate(i)' => Sound(wire[i])'
  <2> TAKE i \in 1..Len(wire')
  <2> HAVE IsUpdate(i)'
  <2>1. wire[i + k] \in Updates /\ Sound(wire[i + k]) /\ wire'[i] = wire[i + k]
    BY <1>1, UpdateTypes DEF WayInv
  <2>2. PICK u \in Updates : u = wire[i + k]
    BY <2>1
  <2>3. Sound(u)'
    BY <1>1, <2>1, <2>2, SoundStep
  <2> QED BY <2>1, <2>2, <2>3 DEF Sound, Kind
<1>3. \A j \in 1..Len(batch') : Sound(batch[j])'
  <2> TAKE j \in 1..Len(batch')
  <2>1. batch[j] \in Updates /\ Sound(batch[j]) /\ batch'[j] = batch[j]
    BY UpdateTypes DEF WayInv
  <2>2. PICK u \in Updates : u = batch[j]
    BY <2>1
  <2>3. Sound(u)'
    BY <2>1, <2>2, SoundStep
  <2> QED BY <2>1, <2>2, <2>3 DEF Sound, Kind
<1>4. \A i, l \in 1..Len(wire') : i < l /\ IsUpdate(i)' /\ IsUpdate(l)' => NotAfter(wire'[i], wire'[l])
  <2> TAKE i, l \in 1..Len(wire')
  <2> HAVE i < l /\ IsUpdate(i)' /\ IsUpdate(l)'
  <2>1. i + k < l + k /\ IsUpdate(i + k) /\ IsUpdate(l + k)
    BY <1>1
  <2>2. NotAfter(wire[i + k], wire[l + k])
    BY <2>1 DEF WayInv
  <2> QED BY <2>2
<1>5. \A i \in 1..Len(wire'), j \in 1..Len(batch') : IsUpdate(i)' => NotAfter(wire'[i], batch'[j])
  <2> TAKE i \in 1..Len(wire'), j \in 1..Len(batch')
  <2> HAVE IsUpdate(i)'
  <2>1. NotAfter(wire[i + k], batch[j])
    BY <1>1 DEF WayInv
  <2> QED BY <2>1
<1>6. \A j, l \in 1..Len(batch') : j < l => NotAfter(batch'[j], batch'[l])
  BY DEF WayInv
<1> QED BY <1>2, <1>3, <1>4, <1>5, <1>6 DEF WayInv, NotAfter, Kind

LEMMA ManifestSent ==
    ASSUME TypeOK, WayInv, NEW m \in Tallies, wire' = Append(wire, m),
           UNCHANGED <<batch, file, content, stores>>
    PROVE  WayInv'
<1>1. \A i \in 1..Len(wire') : IsUpdate(i)' => i \in 1..Len(wire) /\ IsUpdate(i) /\ wire'[i] = wire[i]
  <2>1. /\ Len(wire') = Len(wire) + 1 /\ Len(wire) \in Nat
        /\ \A i \in 1..Len(wire) : wire'[i] = wire[i]
        /\ wire'[Len(wire) + 1] = m
    BY AppendProperties DEF TypeOK
  <2>2. IsManifest(wire'[Len(wire) + 1])
    BY <2>1, Manifests
  <2>3. \A i \in 1..Len(wire') : i \in 1..Len(wire) \/ i = Len(wire) + 1
    BY <2>1
  <2> QED BY <2>1, <2>2, <2>3 DEF IsUpdate, IsManifest
<1>2. \A u : Sound(u) => Sound(u)'
  BY DEF Sound, Reaches, Kind
<1>3. \A i \in 1..Len(wire') : IsUpdate(i)' => Sound(wire'[i])
  BY <1>1 DEF WayInv
<1>4. \A i \in 1..Len(wire') : (IsUpdate(i) => Sound(wire[i]))'
  BY <1>3 DEF Sound, Reaches, Kind
<1>5. \A i, k \in 1..Len(wire') : i < k /\ IsUpdate(i)' /\ IsUpdate(k)' => NotAfter(wire'[i], wire'[k])
  BY <1>1 DEF WayInv
<1>6. \A i \in 1..Len(wire'), j \in 1..Len(batch') : IsUpdate(i)' => NotAfter(wire'[i], batch'[j])
  BY <1>1 DEF WayInv
<1>7. \A j \in 1..Len(batch') : Sound(batch[j])'
  BY DEF WayInv, Sound, Reaches, Kind
<1>8. \A c \in BOOLEAN, t \in Ids : Reaches(file[c][t], c, t)'
  BY DEF WayInv, Reaches
<1>9. \A j, k \in 1..Len(batch') : j < k => NotAfter(batch'[j], batch'[k])
  BY DEF WayInv
<1> QED BY <1>4, <1>5, <1>6, <1>7, <1>8, <1>9 DEF WayInv, NotAfter, Kind

LEMMA ContentRead ==
    ASSUME TypeOK, StoreInv, WayInv, ReadContent, batch' # batch
    PROVE  WayInv'
<1> DEFINE text == content[got.meta.custom][got.t]
           u == TemplateUpdate(got.t, got.meta, text)
<1>1. batch' = Append(batch, u) /\ text # 0 /\ spc = "content"
  BY DEF ReadContent, Answered
<1>2. text \in Nat /\ got.t \in Ids /\ got.meta.custom \in BOOLEAN
  <2>1. got.t \in Ids /\ got.meta \in Metas /\ content \in [BOOLEAN -> [Ids -> Versions]]
    BY DEF TypeOK
  <2>2. got.meta.custom \in BOOLEAN
    BY <2>1 DEF Metas
  <2> QED BY <2>1, <2>2 DEF Versions
<1>3. u \in Updates
  BY DEF TypeOK, TemplateUpdate, Checksum, Updates, Entries, Metas
<1>4. /\ u.t = got.t /\ Kind(u) = got.meta.custom /\ u.text = text
      /\ u.entry.checksum = text /\ u.entry.v = got.meta.v
  BY DEF TemplateUpdate, Checksum, Kind
<1>5. Sound(u)
  <2>1. got.meta.v <= text /\ text <= stores
    BY <1>1, <1>2 DEF StoreInv
  <2>2. file[got.meta.custom][got.t] <= text
    BY <1>1, <1>2 DEF WayInv, Reaches
  <2> HIDE DEF text, u
  <2>3. text <= text
    BY <1>2
  <2>4. Reaches(text, got.meta.custom, got.t)
    BY <2>1, <2>3 DEF Reaches, text
  <2> QED BY <1>4, <2>1, <2>2, <2>4 DEF Sound
<1>6. \A w \in Updates : Sound(w) => NotAfter(w, u)
  <2> TAKE w \in Updates
  <2> HAVE Sound(w)
  <2> HIDE DEF u
  <2> QED BY <1>1, <1>4 DEF Sound, Reaches, NotAfter
<1>7. UNCHANGED <<wire, file, content, stores>>
  BY DEF ReadContent, store, cache
<1>8. /\ Len(batch') = Len(batch) + 1 /\ Len(batch) \in Nat
      /\ \A j \in 1..Len(batch) : batch'[j] = batch[j]
      /\ batch'[Len(batch) + 1] = u
  <2> HIDE DEF u
  <2> QED BY <1>1, <1>3, AppendProperties DEF TypeOK
<1>9. \A j \in 1..Len(batch') : j \in 1..Len(batch) \/ j = Len(batch) + 1
  BY <1>8
<1> HIDE DEF u, text
<1>10. \A j \in 1..Len(batch') : batch'[j] \in Updates /\ Sound(batch'[j])
  BY <1>3, <1>5, <1>8, <1>9, UpdateTypes DEF WayInv
<1>11. \A j \in 1..Len(batch') : Sound(batch[j])'
  BY <1>7, <1>10 DEF Sound, Reaches, Kind
<1>12. \A i \in 1..Len(wire') : (IsUpdate(i) => Sound(wire[i]))'
  BY <1>7 DEF WayInv, Sound, Reaches, Kind, IsUpdate, IsManifest
<1>13. \A i \in 1..Len(wire'), j \in 1..Len(batch') : IsUpdate(i)' => NotAfter(wire'[i], batch'[j])
  <2> TAKE i \in 1..Len(wire'), j \in 1..Len(batch')
  <2> HAVE IsUpdate(i)'
  <2>1. i \in 1..Len(wire) /\ IsUpdate(i) /\ wire'[i] = wire[i]
    BY <1>7 DEF IsUpdate, IsManifest
  <2>2. wire[i] \in Updates /\ Sound(wire[i])
    BY <2>1, UpdateTypes DEF WayInv
  <2>3. CASE j \in 1..Len(batch)
    BY <1>8, <2>1, <2>3 DEF WayInv
  <2>4. CASE j = Len(batch) + 1
    BY <1>6, <1>8, <2>1, <2>2, <2>4
  <2> QED BY <1>9, <2>3, <2>4
<1>14. \A j, k \in 1..Len(batch') : j < k => NotAfter(batch'[j], batch'[k])
  <2> TAKE j, k \in 1..Len(batch')
  <2> HAVE j < k
  <2>1. j \in 1..Len(batch)
    BY <1>8
  <2>2. CASE k \in 1..Len(batch)
    BY <1>8, <2>1, <2>2 DEF WayInv
  <2>3. CASE k = Len(batch) + 1
    <3>1. batch[j] \in Updates /\ Sound(batch[j])
      BY <2>1, UpdateTypes DEF WayInv
    <3> QED BY <1>6, <1>8, <2>1, <2>3, <3>1
  <2> QED BY <1>9, <2>2, <2>3
<1>15. \A i, k \in 1..Len(wire') : i < k /\ IsUpdate(i)' /\ IsUpdate(k)' => NotAfter(wire'[i], wire'[k])
  BY <1>7 DEF WayInv, IsUpdate, IsManifest
<1>16. \A c \in BOOLEAN, t \in Ids : Reaches(file[c][t], c, t)'
  BY <1>7 DEF WayInv, Reaches
<1> QED BY <1>11, <1>12, <1>13, <1>14, <1>15, <1>16 DEF WayInv, NotAfter, Kind

LEMMA TemplateSent ==
    ASSUME TypeOK, WayInv, SendTemplate, batch # <<>>
    PROVE  WayInv'
<1> DEFINE u == Head(batch)
<1>1. wire' = Append(wire, u) /\ batch' = Tail(batch) /\ UNCHANGED <<file, content, stores>>
  BY DEF SendTemplate, store, cache
<1>2. /\ Len(batch') = Len(batch) - 1 /\ Len(batch) \in Nat /\ Len(batch) # 0 /\ u = batch[1]
      /\ \A j \in 1..Len(batch') : j + 1 \in 1..Len(batch) /\ batch'[j] = batch[j + 1]
  <2>1. batch \in Seq(Updates)
    BY DEF TypeOK
  <2>2. Len(batch) \in Nat /\ Len(batch) # 0 /\ u = batch[1]
    BY <2>1
  <2>3. Len(batch') = Len(batch) - 1 /\ \A j \in 1..Len(batch') : batch'[j] = batch[j + 1]
    BY <1>1, <2>1, HeadTailProperties
  <2> QED BY <2>2, <2>3
<1>3. u \in Updates /\ Sound(u)
  BY <1>2, UpdateTypes DEF WayInv
<1> HIDE DEF u
<1>4. /\ Len(wire') = Len(wire) + 1 /\ Len(wire) \in Nat
      /\ \A i \in 1..Len(wire) : wire'[i] = wire[i]
      /\ wire'[Len(wire) + 1] = u
  <2>1. u \in Updates \cup Tallies
    BY <1>3
  <2> QED BY <1>1, <2>1, AppendProperties DEF TypeOK
<1>5. \A i \in 1..Len(wire') : (i \in 1..Len(wire) /\ wire'[i] = wire[i]) \/ (i = Len(wire) + 1 /\ wire'[i] = u)
  BY <1>4
<1>6. \A i \in 1..Len(wire) : IsUpdate(i)' <=> IsUpdate(i)
  BY <1>4 DEF IsUpdate, IsManifest
<1>7. \A i \in 1..Len(wire') : IsUpdate(i)' => Sound(wire'[i])
  BY <1>3, <1>5, <1>6 DEF WayInv
<1>8. \A i \in 1..Len(wire') : (IsUpdate(i) => Sound(wire[i]))'
  BY <1>1, <1>7 DEF Sound, Reaches, Kind
<1>9. \A j \in 1..Len(batch') : Sound(batch'[j])
  BY <1>2 DEF WayInv
<1>10. \A j \in 1..Len(batch') : Sound(batch[j])'
  BY <1>1, <1>9 DEF Sound, Reaches, Kind
<1>11. \A i, k \in 1..Len(wire') : i < k /\ IsUpdate(i)' /\ IsUpdate(k)' => NotAfter(wire'[i], wire'[k])
  <2> TAKE i, k \in 1..Len(wire')
  <2> HAVE i < k /\ IsUpdate(i)' /\ IsUpdate(k)'
  <2>1. i \in 1..Len(wire) /\ wire'[i] = wire[i] /\ IsUpdate(i)
    BY <1>4, <1>6
  <2>2. CASE k \in 1..Len(wire)
    BY <1>4, <1>6, <2>1, <2>2 DEF WayInv
  <2>3. CASE k = Len(wire) + 1
    BY <1>2, <1>4, <2>1, <2>3 DEF WayInv
  <2> QED BY <1>5, <2>2, <2>3
<1>12. \A i \in 1..Len(wire'), j \in 1..Len(batch') : IsUpdate(i)' => NotAfter(wire'[i], batch'[j])
  <2> TAKE i \in 1..Len(wire'), j \in 1..Len(batch')
  <2> HAVE IsUpdate(i)'
  <2>1. CASE i \in 1..Len(wire)
    BY <1>2, <1>4, <1>6, <2>1 DEF WayInv
  <2>2. CASE i = Len(wire) + 1
    <3>1. 1 \in 1..Len(batch) /\ 1 < j + 1
      BY <1>2
    <3> QED BY <1>2, <1>4, <2>2, <3>1 DEF WayInv
  <2> QED BY <1>5, <2>1, <2>2
<1>13. \A j, k \in 1..Len(batch') : j < k => NotAfter(batch'[j], batch'[k])
  <2> TAKE j, k \in 1..Len(batch')
  <2> HAVE j < k
  <2>1. j + 1 < k + 1
    BY <1>2
  <2> QED BY <1>2, <2>1 DEF WayInv
<1>14. \A c \in BOOLEAN, t \in Ids : Reaches(file[c][t], c, t)'
  BY <1>1 DEF WayInv, Reaches
<1> QED BY <1>8, <1>10, <1>11, <1>12, <1>13, <1>14 DEF WayInv, NotAfter, Kind

LEMMA FirstGone ==
    ASSUME TypeOK, HandleManifestUpdate \/ WriteFile
    PROVE  /\ 1 \in 1..Len(wire) /\ Len(wire') \in Nat
           /\ \A i \in 1..Len(wire') : i + 1 \in 1..Len(wire) /\ wire'[i] = wire[i + 1]
<1>1. wire \in Seq(Updates \cup Tallies) /\ wire # <<>>
  BY DEF HandleManifestUpdate, WriteFile, TypeOK
<1>2. wire' = SubSeq(wire, 1, FirstOf(wire) - 1) \o SubSeq(wire, FirstOf(wire) + 1, Len(wire))
  BY DEF HandleManifestUpdate, WriteFile, Take
<1>3. /\ Len(wire') = Len(wire) - 1 /\ FirstOf(wire) \in 1..Len(wire)
      /\ \A i \in 1..Len(wire') : i + 1 \in 1..Len(wire) /\ wire'[i] = wire[i + 1]
  BY <1>1, <1>2, FirstTaken
<1> QED BY <1>1, <1>3

\* The file of u is written.
Written(u) ==
    /\ u \in Updates
    /\ \A c \in BOOLEAN, t \in Ids :
         file'[c][t] = IF c = Kind(u) /\ t = u.t THEN u.text ELSE file[c][t]
    /\ cur' = u /\ apc' = "entry" /\ behind' = behind \cup {u.t}

LEMMA WriteFileFacts ==
    ASSUME TypeOK, WriteFile
    PROVE  /\ IsUpdate(1) /\ (Written(wire[1]) \/ UNCHANGED <<file, cur, apc, behind>>)
           /\ UNCHANGED <<batch, content, stores, entry>>
<1>1. FirstOf(wire) = 1
  BY DEF FirstOf
<1>2. IsUpdate(1) /\ UNCHANGED <<batch, content, stores, entry>>
  BY <1>1 DEF WriteFile, IsUpdate, store, handler
<1>3. wire[1] \in Updates
  BY <1>2, FirstGone, UpdateTypes
<1>4. CASE /\ file' = Put(file, Kind(wire[1]), wire[1].t, wire[1].text)
           /\ cur' = wire[1] /\ apc' = "entry" /\ behind' = behind \cup {wire[1].t}
  <2>1. file \in [BOOLEAN -> [Ids -> Versions]]
    BY DEF TypeOK
  <2>2. PICK u \in Updates : u = wire[1]
    BY <1>3
  <2>3. Kind(u) \in BOOLEAN /\ u.t \in Ids /\ u.text \in Versions
    BY UpdateTypes
  <2>4. \A c \in BOOLEAN, t \in Ids :
          Put(file, Kind(u), u.t, u.text)[c][t] = IF c = Kind(u) /\ t = u.t THEN u.text ELSE file[c][t]
    BY <2>1, <2>3 DEF Put
  <2> QED BY <1>2, <1>4, <2>2, <2>4 DEF Written
<1>5. CASE UNCHANGED <<file, cur, apc, behind>>
  BY <1>2, <1>5
<1> QED BY <1>1, <1>4, <1>5 DEF WriteFile, Directory, Kind

LEMMA FileReaches ==
    ASSUME TypeOK, WayInv, [Next]_vars, UNCHANGED file
    PROVE  \A c \in BOOLEAN, t \in Ids : Reaches(file[c][t], c, t)'
<1> TAKE c \in BOOLEAN, t \in Ids
<1>1. PICK x \in Versions : x = file[c][t]
  BY DEF TypeOK
<1>2. Reaches(x, c, t)'
  BY <1>1, ReachesStep DEF WayInv
<1> QED BY <1>1, <1>2 DEF Reaches

LEMMA WayStep ==
    ASSUME TypeOK, TypeOK', StoreInv, WayInv, [Next]_vars
    PROVE  WayInv'
<1>1. ASSUME UNCHANGED <<wire, batch, file>>
      PROVE  WayInv'
  <2>1. \A i \in 1..Len(wire') : i + 0 \in 1..Len(wire) /\ wire'[i] = wire[i + 0]
    BY <1>1, UpdateTypes
  <2>2. \A i \in 1..Len(wire') : IsUpdate(i + 0) => file'[Kind(wire[i + 0])][wire[i + 0].t] <= wire[i + 0].text
    BY <1>1, <2>1 DEF WayInv, Sound
  <2>3. \A j \in 1..Len(batch) : file'[Kind(batch[j])][batch[j].t] <= batch[j].text
    BY <1>1 DEF WayInv, Sound
  <2>4. \A c \in BOOLEAN, t \in Ids : Reaches(file[c][t], c, t)'
    BY <1>1, FileReaches
  <2>5. Len(wire') \in Nat
    BY <1>1, UpdateTypes
  <2>6. 0 \in {0, 1}
    OBVIOUS
  <2> QED BY <1>1, <2>1, <2>2, <2>3, <2>4, <2>5, <2>6, NothingSent
<1>2. ASSUME NEW t \in Ids, NEW c \in BOOLEAN, StoreTemplate(t, c) \/ DeleteTemplate(t)
      PROVE  WayInv'
  BY <1>1, <1>2 DEF StoreTemplate, DeleteTemplate, handler, cache
<1>3. CASE StoreMeta \/ DeleteMeta \/ WriterFails
  BY <1>1, <1>3 DEF StoreMeta, DeleteMeta, WriterFails, handler, cache
<1>4. CASE SyncFromServer \/ ReadMeta \/ SaveEntry \/ UNCHANGED vars
  BY <1>1, <1>4 DEF SyncFromServer, ReadMeta, SaveEntry, vars, handler, cache
<1>5. CASE ListKeys
  <2>1. CASE wire' = wire
    BY <1>1, <1>5, <2>1 DEF ListKeys, cache
  <2>2. CASE wire' = Append(wire, NoTally)
    BY <1>5, <2>2, Blanks, ManifestSent DEF ListKeys, store, cache
  <2> QED BY <1>5, <2>1, <2>2 DEF ListKeys
<1>6. CASE ReadContent
  <2>1. CASE batch' = batch
    BY <1>1, <1>6, <2>1 DEF ReadContent, cache
  <2> QED BY <1>6, <2>1, ContentRead
<1>7. CASE SendManifest
  <2>1. sum \in Tallies
    BY DEF TypeOK
  <2> QED BY <1>7, <2>1, ManifestSent DEF SendManifest, store, cache
<1>8. CASE SendTemplate
  <2>1. CASE batch = <<>>
    BY <1>1, <1>8, <2>1 DEF SendTemplate, cache
  <2> QED BY <1>8, <2>1, TemplateSent
<1>9. ASSUME HandleManifestUpdate \/ WriteFile,
             \A i \in 1..Len(wire') : IsUpdate(i + 1) => file'[Kind(wire[i + 1])][wire[i + 1].t] <= wire[i + 1].text,
             \A j \in 1..Len(batch) : file'[Kind(batch[j])][batch[j].t] <= batch[j].text,
             \A c \in BOOLEAN, t \in Ids : Reaches(file[c][t], c, t)'
      PROVE  WayInv'
  <2>1. UNCHANGED batch
    BY <1>9 DEF HandleManifestUpdate, WriteFile, handler
  <2>2. 1 \in {0, 1}
    OBVIOUS
  <2> QED BY <1>9, <2>1, <2>2, FirstGone, NothingSent
<1>10. ASSUME HandleManifestUpdate \/ WriteFile, UNCHANGED file
       PROVE  WayInv'
  <2>1. \A i \in 1..Len(wire') : IsUpdate(i + 1) => file'[Kind(wire[i + 1])][wire[i + 1].t] <= wire[i + 1].text
    BY <1>10, FirstGone DEF WayInv, Sound
  <2>2. \A j \in 1..Len(batch) : file'[Kind(batch[j])][batch[j].t] <= batch[j].text
    BY <1>10 DEF WayInv, Sound
  <2> QED BY <1>9, <1>10, <2>1, <2>2, FileReaches
<1>11. CASE HandleManifestUpdate
  BY <1>10, <1>11 DEF HandleManifestUpdate
<1>12. CASE WriteFile
  <2>1. CASE UNCHANGED file
    BY <1>10, <1>12, <2>1
  <2>2. CASE Written(wire[1])
    <3>1. PICK u \in Updates : u = wire[1]
      BY <2>2 DEF Written
    <3>2. /\ IsUpdate(1) /\ 1 \in 1..Len(wire) /\ Sound(u) /\ Written(u)
          /\ Kind(u) \in BOOLEAN /\ u.t \in Ids /\ u.text \in Versions
      BY <1>12, <2>2, <3>1, WriteFileFacts, FirstGone, UpdateTypes DEF WayInv
    <3>3. \A w \in Updates : Sound(w) /\ NotAfter(u, w) => file'[Kind(w)][w.t] <= w.text
      <4> TAKE w \in Updates
      <4> HAVE Sound(w) /\ NotAfter(u, w)
      <4>1. Kind(w) \in BOOLEAN /\ w.t \in Ids
        BY UpdateTypes
      <4> QED BY <3>2, <4>1 DEF Written, Sound, NotAfter
    <3>4. \A i \in 1..Len(wire') : IsUpdate(i + 1) => file'[Kind(wire[i + 1])][wire[i + 1].t] <= wire[i + 1].text
      <4> TAKE i \in 1..Len(wire')
      <4> HAVE IsUpdate(i + 1)
      <4>1. i + 1 \in 1..Len(wire) /\ 1 < i + 1
        BY <1>12, FirstGone
      <4>2. Sound(wire[i + 1]) /\ wire[i + 1] \in Updates /\ NotAfter(u, wire[i + 1])
        BY <3>1, <3>2, <4>1, UpdateTypes DEF WayInv
      <4> QED BY <3>3, <4>2
    <3>5. \A j \in 1..Len(batch) : file'[Kind(batch[j])][batch[j].t] <= batch[j].text
      <4> TAKE j \in 1..Len(batch)
      <4>1. Sound(batch[j]) /\ batch[j] \in Updates /\ NotAfter(u, batch[j])
        BY <3>1, <3>2, UpdateTypes DEF WayInv
      <4> QED BY <3>3, <4>1
    <3>6. \A c \in BOOLEAN, t \in Ids : Reaches(file[c][t], c, t)'
      <4> TAKE c \in BOOLEAN, t \in Ids
      <4>1. UNCHANGED <<content, stores>>
        BY <1>12, WriteFileFacts
      <4>2. CASE c = Kind(u) /\ t = u.t
        <5>1. file'[c][t] = u.text /\ Reaches(u.text, c, t)
          BY <3>2, <4>2 DEF Written, Sound
        <5> QED BY <4>1, <5>1 DEF Reaches
      <4>3. CASE ~(c = Kind(u) /\ t = u.t)
        <5>1. file'[c][t] = file[c][t]
          BY <3>2, <4>3 DEF Written
        <5> QED BY <4>1, <5>1 DEF WayInv, Reaches
      <4> QED BY <4>2, <4>3
    <3> QED BY <1>9, <1>12, <3>4, <3>5, <3>6
  <2> QED BY <1>12, <2>1, <2>2, WriteFileFacts
<1>13. CASE StreamLost
  <2>1. /\ wire' = <<>> /\ batch' = <<>> /\ UNCHANGED file
        /\ 1..Len(wire') = {} /\ 1..Len(batch') = {}
    BY <1>13 DEF StreamLost, cache
  <2>2. \A c \in BOOLEAN, t \in Ids : Reaches(file[c][t], c, t)'
    BY <2>1, FileReaches
  <2> QED BY <2>1, <2>2 DEF WayInv
<1> QED BY <1>2, <1>3, <1>4, <1>5, <1>6, <1>7, <1>8, <1>11, <1>12, <1>13 DEF Next

-----------------------------------------------------------------------------
(* The files and the manifest.                                              *)

LEMMA FileStep ==
    ASSUME TypeOK, WayInv, [Next]_vars
    PROVE  \/ UNCHANGED file
           \/ WriteFile /\ \E u \in Updates : Written(u) /\ Sound(u)
<1>1. ASSUME WriteFile
      PROVE  UNCHANGED file \/ \E u \in Updates : Written(u) /\ Sound(u)
  <2>1. IsUpdate(1) /\ 1 \in 1..Len(wire) /\ wire[1] \in Updates /\ Sound(wire[1])
    BY <1>1, WriteFileFacts, FirstGone, UpdateTypes DEF WayInv
  <2> QED BY <1>1, <2>1, WriteFileFacts
<1> QED BY <1>1 DEF Next, vars, handler, cache, StoreTemplate, DeleteTemplate, StoreMeta, DeleteMeta,
           WriterFails, SyncFromServer, ListKeys, ReadMeta, ReadContent, SendManifest, SendTemplate,
           HandleManifestUpdate, SaveEntry, StreamLost

LEMMA FilesGrow ==
    ASSUME TypeOK, WayInv, [Next]_vars
    PROVE  \A c \in BOOLEAN, t \in Ids : file[c][t] <= file'[c][t]
<1> TAKE c \in BOOLEAN, t \in Ids
<1>1. file[c][t] \in Nat
  BY DEF TypeOK, Versions
<1>2. ASSUME NEW u \in Updates, Written(u), Sound(u)
      PROVE  file[c][t] <= file'[c][t]
  BY <1>1, <1>2 DEF Written, Sound
<1> QED BY <1>1, <1>2, FileStep

LEMMA HandStep ==
    ASSUME TypeOK, WayInv, HandInv, [Next]_vars
    PROVE  HandInv'
<1>1. ASSUME UNCHANGED <<apc, cur, file, behind>>
      PROVE  HandInv'
  BY <1>1 DEF HandInv, Kind
<1>2. ASSUME apc' = "idle"
      PROVE  HandInv'
  BY <1>2 DEF HandInv
<1>3. CASE WriteFile
  <2>1. ASSUME NEW u \in Updates, Written(u), Sound(u)
        PROVE  HandInv'
    <3>1. Kind(u) \in BOOLEAN /\ u.t \in Ids
      BY UpdateTypes
    <3>2. cur' = u /\ u.t \in behind' /\ file'[Kind(u)][u.t] = u.text
      BY <2>1, <3>1 DEF Written
    <3> QED BY <2>1, <3>2 DEF HandInv, Sound, Kind
  <2>2. 1 \in 1..Len(wire) /\ IsUpdate(1) /\ wire[1] \in Updates /\ Sound(wire[1])
    BY <1>3, WriteFileFacts, FirstGone, UpdateTypes DEF WayInv
  <2> QED BY <1>1, <1>3, <2>1, <2>2, WriteFileFacts
<1>4. CASE SaveEntry \/ StreamLost
  BY <1>1, <1>2, <1>4 DEF SaveEntry, StreamLost, cache
<1> QED BY <1>1, <1>3, <1>4 DEF Next, vars, handler, cache, StoreTemplate, DeleteTemplate, StoreMeta,
           DeleteMeta, WriterFails, SyncFromServer, ListKeys, ReadMeta, ReadContent, SendManifest,
           SendTemplate, HandleManifestUpdate

LEMMA CacheStep ==
    ASSUME TypeOK, TypeOK', WayInv, HandInv, CacheValid, [Next]_vars
    PROVE  CacheValid'
<1>1. ASSUME \A t \in Ids : entry'[t] = entry[t] \/ entry'[t] = NoEntry, UNCHANGED <<file, behind>>
      PROVE  CacheValid'
  BY <1>1 DEF CacheValid
<1>2. CASE WriteFile
  <2>1. ASSUME NEW u \in Updates, Written(u), Sound(u), UNCHANGED entry
        PROVE  CacheValid'
    <3> SUFFICES ASSUME NEW t \in Ids, entry[t] # NoEntry
                 PROVE  /\ entry[t].v <= entry[t].checksum
                        /\ entry[t].checksum <= file'[entry[t].custom][t]
                        /\ t \notin behind' => entry[t].checksum = file'[entry[t].custom][t]
      BY <2>1 DEF CacheValid
    <3>1. PICK e \in Entries : e = entry[t]
      BY DEF TypeOK
    <3>2. e.custom \in BOOLEAN /\ e.checksum \in Nat
      BY DEF Entries, Versions
    <3>3. file[e.custom][t] \in Nat /\ file'[e.custom][t] \in Nat
      <4>1. file \in [BOOLEAN -> [Ids -> Versions]] /\ file' \in [BOOLEAN -> [Ids -> Versions]]
        BY DEF TypeOK
      <4>2. file[e.custom][t] \in Versions /\ file'[e.custom][t] \in Versions
        BY <3>2, <4>1
      <4> QED BY <4>2 DEF Versions
    <3>4. file[e.custom][t] <= file'[e.custom][t]
      BY <3>2, FilesGrow
    <3>5. e.v <= e.checksum /\ e.checksum <= file[e.custom][t]
      BY <3>1 DEF CacheValid
    <3>6. ASSUME t \notin behind'
          PROVE  e.checksum = file'[e.custom][t]
      <4>1. t # u.t /\ t \notin behind
        BY <2>1, <3>6 DEF Written
      <4>2. file'[e.custom][t] = file[e.custom][t]
        BY <2>1, <3>2, <4>1 DEF Written
      <4> QED BY <3>1, <4>1, <4>2 DEF CacheValid
    <3>7. e.checksum <= file'[e.custom][t]
      BY <3>2, <3>3, <3>4, <3>5
    <3> QED BY <3>1, <3>5, <3>6, <3>7
  <2>2. UNCHANGED entry /\ (UNCHANGED <<file, behind>> \/ (Written(wire[1]) /\ wire[1] \in Updates))
    BY <1>2, WriteFileFacts DEF Written
  <2>3. 1 \in 1..Len(wire) /\ IsUpdate(1) /\ Sound(wire[1])
    BY <1>2, WriteFileFacts, FirstGone DEF WayInv
  <2> QED BY <1>1, <2>1, <2>2, <2>3
<1>3. CASE SaveEntry
  <2>1. /\ cur.t \in Ids /\ cur.entry.custom \in BOOLEAN /\ cur.text \in Nat
        /\ UNCHANGED file
    BY <1>3 DEF SaveEntry, TypeOK, Updates, Entries, Versions
  <2>2. CASE UNCHANGED <<entry, behind>>
    BY <1>1, <2>1, <2>2
  <2>3. ASSUME NEW entries \in {entry, NoEntries}, entry' = [entries EXCEPT ![cur.t] = cur.entry],
               behind' = behind \ {cur.t}
        PROVE  CacheValid'
    <3>1. entry'[cur.t] = cur.entry
      BY <2>1, <2>3, Blanks DEF TypeOK
    <3>2. \A t \in Ids \ {cur.t} : entry'[t] = entry[t] \/ entry'[t] = NoEntry
      BY <2>1, <2>3 DEF NoEntries, TypeOK
    <3>3. /\ cur.entry.v <= cur.entry.checksum
          /\ cur.entry.checksum = file[cur.entry.custom][cur.t]
      BY <1>3 DEF HandInv, SaveEntry, Kind
    <3>4. cur.entry.checksum <= file[cur.entry.custom][cur.t]
      <4>1. cur.entry.checksum \in Nat
        BY DEF TypeOK, Updates, Entries, Versions
      <4> QED BY <3>3, <4>1
    <3>5. \A t \in Ids \ {cur.t} : t \notin behind' => t \notin behind
      BY <2>3
    <3>6. ASSUME NEW t \in Ids, entry'[t] # NoEntry
          PROVE  /\ entry'[t].v <= entry'[t].checksum
                 /\ entry'[t].checksum <= file[entry'[t].custom][t]
                 /\ t \notin behind' => entry'[t].checksum = file[entry'[t].custom][t]
      <4>1. CASE t = cur.t
        BY <3>1, <3>3, <3>4, <4>1
      <4>2. CASE t # cur.t
        BY <3>2, <3>5, <3>6, <4>2 DEF CacheValid
      <4> QED BY <4>1, <4>2
    <3> QED BY <2>1, <3>6 DEF CacheValid
  <2>4. \/ UNCHANGED <<entry, behind>>
        \/ \E entries \in {entry, NoEntries} :
             entry' = [entries EXCEPT ![cur.t] = cur.entry] /\ behind' = behind \ {cur.t}
    BY <1>3 DEF SaveEntry
  <2> QED BY <2>2, <2>3, <2>4
<1>4. CASE HandleManifestUpdate
  BY <1>1, <1>4 DEF HandleManifestUpdate, NoEntries
<1>5. CASE StreamLost
  BY <1>1, <1>5 DEF StreamLost, cache
<1> QED BY <1>1, <1>2, <1>3, <1>4, <1>5 DEF Next, vars, handler, cache, StoreTemplate, DeleteTemplate,
           StoreMeta, DeleteMeta, WriterFails, SyncFromServer, ListKeys, ReadMeta, ReadContent,
           SendManifest, SendTemplate

LEMMA CacheInit == Init => CacheInv
<1> SUFFICES ASSUME Init PROVE CacheInv
  OBVIOUS
<1>1. TypeOK
  BY TypeInit
<1>2. /\ \A c \in BOOLEAN, t \in Ids : content[c][t] = 0 /\ file[c][t] = 0
      /\ \A t \in Ids : meta[t].v = 0 /\ meta[t].custom \in BOOLEAN
      /\ \A t \in Ids : entry[t] = NoEntry
  BY DEF Init, NoMeta, NoEntries
<1>3. writer.op = "none" /\ spc = "idle" /\ apc = "idle" /\ stores = 0 /\ got.meta.v = 0
  BY DEF Init, NoMeta, Idle, NoKey
<1>4. StoreInv
  BY <1>2, <1>3 DEF StoreInv
<1>5. 1..Len(wire) = {} /\ 1..Len(batch) = {}
  BY DEF Init
<1>6. WayInv
  BY <1>2, <1>5, <1>3 DEF WayInv, Reaches
<1>7. HandInv /\ CacheValid
  BY <1>2, <1>3 DEF HandInv, CacheValid
<1> QED BY <1>1, <1>4, <1>6, <1>7 DEF CacheInv

LEMMA CacheInductive == CacheInv /\ [Next]_vars => CacheInv'
<1> SUFFICES ASSUME CacheInv, [Next]_vars PROVE CacheInv'
  OBVIOUS
<1>1. TypeOK /\ StoreInv /\ WayInv /\ HandInv /\ CacheValid
  BY DEF CacheInv
<1>2. TypeOK'
  BY <1>1, TypeStep
<1>3. StoreInv' /\ WayInv'
  BY <1>1, <1>2, StoreStep, WayStep
<1>4. HandInv' /\ CacheValid'
  BY <1>1, <1>2, HandStep, CacheStep
<1> QED BY <1>2, <1>3, <1>4 DEF CacheInv

\* An entry of the agent's manifest has its file, with its checksum unless an
\* update of it was interrupted, and never a version newer than the text.
THEOREM CacheCorrect == Spec => []CacheValid
<1>1. CacheInv => CacheValid
  BY DEF CacheInv
<1> QED BY <1>1, CacheInit, CacheInductive, PTL DEF Spec

\* No request, lost stream, crash or deletion puts an older text back in a
\* file: the answers are read and sent by one loop, taken by one other.
THEOREM FilesNeverBack == Spec => NeverBack
<1>1. CacheInv /\ [Next]_vars => [\A c \in BOOLEAN, t \in Ids : file[c][t] <= file'[c][t]]_vars
  BY FilesGrow DEF CacheInv
<1> QED BY <1>1, CacheInit, CacheInductive, PTL DEF Spec, NeverBack
-----------------------------------------------------------------------------
(* A sync that nothing disturbs.                                            *)

\* The server has a text of t to send, and the update that carries it.
Due(t) == meta[t] # NoMeta /\ content[meta[t].custom][t] # 0
Current(t) == TemplateUpdate(t, meta[t], content[meta[t].custom][t])

\* Where that update is: still to be read, read and not sent, on the stream
\* behind whatever older there is of t, with the agent, or in its files.
Unread(t) == spc \in {"meta", "content"} /\ (t \in todo \/ (spc = "content" /\ got.t = t))
InBatch(t) == \E j \in 1..Len(batch) : batch[j] = Current(t)
OnWire(t) ==
    \E i \in 1..Len(wire) :
        /\ wire[i] = Current(t)
        /\ \A k \in 1..Len(wire) : k > i /\ IsUpdate(k) /\ wire[k].t = t => wire[k] = Current(t)
OffWire(t) == \A k \in 1..Len(wire) : IsUpdate(k) => wire[k].t # t
InHand(t) == OffWire(t) /\ apc = "entry" /\ cur = Current(t)
Repaired(t) ==
    /\ OffWire(t) /\ (apc = "entry" => cur.t # t)
    /\ file[Kind(Current(t))][t] = Current(t).text
    /\ entry[t] = Current(t).entry /\ t \notin behind

\* The statistics of the agent's manifest are taken from the last message: one
\* that is a manifest is followed by an update.
Counting(t) ==
    \/ Unread(t) \/ Len(batch) > 0
    \/ Len(wire) > 0 /\ IsUpdate(Len(wire))
    \/ Len(wire) = 0 /\ (apc = "entry" \/ tally = Statistics(entry))

\* A sync that nothing disturbs: the server reads what it sends from the keys as
\* they are, and sends it after all that was on the stream.
CalmInv ==
    calm =>
        /\ writer = Idle
        /\ spc = "content" => got.meta = meta[got.t]
        /\ \A j \in 1..Len(batch) : batch[j] = Current(batch[j].t)
        /\ \A t \in Ids : Due(t) =>
             /\ spc \in {"meta", "content"} => Unread(t) \/ InBatch(t)
             /\ Unread(t) \/ InBatch(t) \/ OnWire(t) \/ InHand(t) \/ Repaired(t)
             /\ Counting(t)

RepairInv == (spc = "idle" => Len(batch) = 0) /\ CalmInv

LEMMA CurrentFacts ==
    ASSUME TypeOK, NEW t \in Ids
    PROVE  /\ Current(t) \in Updates /\ Current(t).t = t
           /\ Kind(Current(t)) = meta[t].custom /\ Kind(Current(t)) \in BOOLEAN
           /\ Current(t).text = content[meta[t].custom][t]
           /\ Current(t).entry = [v |-> meta[t].v, checksum |-> content[meta[t].custom][t], custom |-> meta[t].custom]
<1>1. meta[t].v \in Versions /\ meta[t].custom \in BOOLEAN
  BY DEF TypeOK, Metas
<1>2. content[meta[t].custom][t] \in Versions
  BY <1>1 DEF TypeOK
<1> QED BY <1>1, <1>2 DEF Current, TemplateUpdate, Checksum, Updates, Entries, Kind

LEMMA RepairIsMeant == TypeOK /\ RepairInv => SyncRepairs
<1> SUFFICES ASSUME TypeOK, RepairInv, calm, spc = "idle", wire = <<>>, apc = "idle", NEW t \in Ids,
                    meta[t] # NoMeta, content[meta[t].custom][t] # 0
             PROVE  /\ file[meta[t].custom][t] = content[meta[t].custom][t]
                    /\ entry[t] = [v |-> meta[t].v, checksum |-> content[meta[t].custom][t], custom |-> meta[t].custom]
                    /\ t \notin behind
                    /\ meta[t].custom \/ file[TRUE][t] = 0 => Discovered(t) = content[meta[t].custom][t]
                    /\ tally = Statistics(entry)
  BY DEF SyncRepairs
<1>1. Due(t)
  BY DEF Due
<1>2. Len(wire) = 0 /\ Len(batch) = 0
  BY DEF RepairInv
<1>3. ~Unread(t) /\ ~InBatch(t) /\ ~OnWire(t) /\ ~InHand(t)
  BY <1>2 DEF Unread, InBatch, OnWire, InHand
<1>4. Repaired(t) /\ Counting(t)
  BY <1>1, <1>3 DEF RepairInv, CalmInv
<1>5. tally = Statistics(entry)
  BY <1>2, <1>3, <1>4 DEF Counting
<1>6. /\ file[meta[t].custom][t] = content[meta[t].custom][t] /\ t \notin behind
      /\ entry[t] = [v |-> meta[t].v, checksum |-> content[meta[t].custom][t], custom |-> meta[t].custom]
  BY <1>4, CurrentFacts DEF Repaired
<1>7. meta[t].custom \in BOOLEAN
  BY CurrentFacts
<1>8. meta[t].custom \/ file[TRUE][t] = 0 => Discovered(t) = content[meta[t].custom][t]
  <2>1. CASE meta[t].custom = TRUE
    BY <1>6, <2>1 DEF Discovered
  <2>2. CASE meta[t].custom = FALSE
    BY <1>6, <2>2 DEF Discovered
  <2> QED BY <1>7, <2>1, <2>2
<1> QED BY <1>5, <1>6, <1>8

\* What is due and what is sent for it only depend on the keys.
LEMMA SameKeys ==
    ASSUME UNCHANGED <<content, meta>>
    PROVE  \A t \in Ids : (Due(t)' <=> Due(t)) /\ Current(t)' = Current(t)
BY DEF Due, Current

\* What is true of the way of an update as long as the stream and the agent do
\* nothing.
LEMMA SameWay ==
    ASSUME UNCHANGED <<content, meta, wire, file, entry, apc, cur, behind>>, NEW t \in Ids
    PROVE  /\ OnWire(t) => OnWire(t)'
           /\ InHand(t) => InHand(t)'
           /\ Repaired(t) => Repaired(t)'
<1>1. Current(t)' = Current(t)
  BY SameKeys
<1> QED BY <1>1 DEF OnWire, OffWire, InHand, Repaired, IsUpdate, IsManifest, Kind

\* A step of the server that reads.
LEMMA ReadStep ==
    ASSUME TypeOK, CalmInv, calm,
           UNCHANGED <<content, meta, writer, wire, cache, apc, cur, behind>>,
           spc' = "content" => got'.meta = meta[got'.t],
           \A j \in 1..Len(batch') : batch'[j] = Current(batch'[j].t) /\ batch'[j].t \in Ids,
           spc' \in {"meta", "content"} => spc \in {"meta", "content"},
           \A t \in Ids : Due(t) /\ (Unread(t) \/ InBatch(t)) => (Unread(t) \/ InBatch(t))',
           \A t \in Ids : Due(t) /\ (Unread(t) \/ Len(batch) > 0) => (Unread(t) \/ Len(batch) > 0)'
    PROVE  CalmInv'
<1>1. writer' = Idle
  BY DEF CalmInv
<1>2. (spc = "content" => got.meta = meta[got.t])'
  OBVIOUS
<1>3. (\A j \in 1..Len(batch) : batch[j] = Current(batch[j].t))'
  BY DEF Current
<1>4. ASSUME NEW t \in Ids, Due(t)'
      PROVE  (/\ spc \in {"meta", "content"} => Unread(t) \/ InBatch(t)
              /\ Unread(t) \/ InBatch(t) \/ OnWire(t) \/ InHand(t) \/ Repaired(t)
              /\ Counting(t))'
  <2>1. Due(t)
    BY <1>4, SameKeys
  <2>2. (spc \in {"meta", "content"} => Unread(t) \/ InBatch(t))'
    BY <2>1 DEF CalmInv
  <2>3. UNCHANGED <<file, entry, tally>>
    BY DEF cache
  <2>4. (Unread(t) \/ InBatch(t) \/ OnWire(t) \/ InHand(t) \/ Repaired(t))'
    BY <2>1, <2>3, SameWay DEF CalmInv
  <2>5. Counting(t)'
    <3>1. Counting(t)
      BY <2>1 DEF CalmInv
    <3>2. CASE Unread(t) \/ Len(batch) > 0
      BY <2>1, <3>2 DEF Counting
    <3>3. CASE ~(Unread(t) \/ Len(batch) > 0)
      BY <2>3, <3>1, <3>3 DEF Counting, IsUpdate, IsManifest, Statistics, Count
    <3> QED BY <3>2, <3>3
  <2> QED BY <2>2, <2>4, <2>5
<1> QED BY <1>1, <1>2, <1>3, <1>4 DEF CalmInv

\* The queues after a message is added or taken.
LEMMA Lengths == TypeOK => Len(wire) \in Nat /\ Len(batch) \in Nat /\ wire \in Seq(Updates \cup Tallies) /\ batch \in Seq(Updates)
BY DEF TypeOK

LEMMA AppendedTo ==
    ASSUME NEW S, NEW w \in Seq(S), NEW m \in S
    PROVE  /\ Len(Append(w, m)) = Len(w) + 1 /\ Len(w) \in Nat
           /\ Append(w, m)[Len(w) + 1] = m
           /\ \A i \in 1..Len(w) : Append(w, m)[i] = w[i]
OBVIOUS

\* The last message of the stream is an update.
LEMMA LastIsUpdate ==
    ASSUME NEW t \in Ids, NEW l \in Nat, l = Len(wire'), l > 0, ~IsManifest(wire'[l])
    PROVE  Counting(t)'
BY DEF Counting, IsUpdate, IsManifest

LEMMA CalmSendTemplate ==
    ASSUME TypeOK, CalmInv, calm, SendTemplate, batch # <<>>
    PROVE  CalmInv'
<1>0. PICK u : u = Head(batch)
  OBVIOUS
<1>0a. PICK n \in Nat : n = Len(wire) + 1 /\ n > 0
  BY Lengths
<1>1. /\ UNCHANGED <<content, meta, writer, file, entry, tally, apc, cur, behind, spc, got>>
      /\ wire' = Append(wire, u) /\ batch' = Tail(batch) /\ spc = "sending"
  BY <1>0 DEF SendTemplate, store, cache
<1>2. /\ Len(batch') = Len(batch) - 1 /\ Len(batch) \in Nat /\ Len(batch) # 0 /\ u = batch[1]
      /\ \A j \in 1..Len(batch') : j + 1 \in 1..Len(batch) /\ batch'[j] = batch[j + 1]
      /\ u \in Updates
  <2>1. batch \in Seq(Updates)
    BY Lengths
  <2>2. Len(batch) \in Nat /\ Len(batch) # 0 /\ u = batch[1] /\ u \in Updates
    BY <1>0, <2>1
  <2>3. Len(batch') = Len(batch) - 1 /\ \A j \in 1..Len(batch') : batch'[j] = batch[j + 1]
    BY <1>1, <2>1, HeadTailProperties
  <2> QED BY <2>2, <2>3
<1>3. u = Current(u.t) /\ u.t \in Ids
  BY <1>2, UpdateTypes DEF CalmInv
<1>4. /\ Len(wire') = n /\ Len(wire) \in Nat /\ wire'[n] = u
      /\ \A i \in 1..Len(wire) : wire'[i] = wire[i]
  <2>1. wire \in Seq(Updates \cup Tallies) /\ u \in Updates \cup Tallies
    BY <1>2, Lengths
  <2> QED BY <1>1, <1>0a, <2>1, AppendedTo
<1>5. \A i \in 1..Len(wire') : (i \in 1..Len(wire) /\ wire'[i] = wire[i]) \/ (i = n /\ wire'[i] = u)
  BY <1>4, <1>0a
<1>6. \A i \in 1..Len(wire) : IsUpdate(i)' <=> IsUpdate(i)
  BY <1>4 DEF IsUpdate, IsManifest
<1>7. n \in 1..Len(wire') /\ ~IsManifest(wire'[n])
  BY <1>2, <1>4, <1>0a, Manifests
<1>8. \A j \in 1..Len(batch') : batch'[j] = Current(batch'[j].t)
  BY <1>2 DEF CalmInv
<1>9. (\A j \in 1..Len(batch) : batch[j] = Current(batch[j].t))'
  BY <1>1, <1>8 DEF Current
<1>10. ASSUME NEW t \in Ids, Due(t)'
       PROVE  (/\ spc \in {"meta", "content"} => Unread(t) \/ InBatch(t)
               /\ Unread(t) \/ InBatch(t) \/ OnWire(t) \/ InHand(t) \/ Repaired(t)
               /\ Counting(t))'
  <2>1. Due(t) /\ Current(t)' = Current(t)
    BY <1>1, <1>10, SameKeys
  <2>2. Counting(t)'
    BY <1>4, <1>7, <1>0a, LastIsUpdate
  <2>3. ASSUME u.t = t PROVE OnWire(t)'
    <3>1. u = Current(t)
      BY <1>3, <2>3
    <3>2. wire'[n] = Current(t)' /\ \A k \in 1..Len(wire') : ~(k > n)
      BY <1>4, <1>0a, <2>1, <3>1
    <3> QED BY <1>7, <3>2 DEF OnWire
  <2>4. ASSUME u.t # t, OffWire(t) PROVE OffWire(t)'
    BY <1>5, <1>6, <2>4 DEF OffWire
  <2>5. ASSUME InBatch(t) PROVE InBatch(t)' \/ OnWire(t)'
    <3>1. PICK j \in 1..Len(batch) : batch[j] = Current(t)
      BY <2>5 DEF InBatch
    <3>2. CASE j = 1
      <4>1. u.t = t
        BY <1>2, <3>1, <3>2, CurrentFacts
      <4> QED BY <2>3, <4>1
    <3>3. CASE j # 1
      <4>1. PICK k : k = j - 1 /\ k \in 1..Len(batch') /\ k + 1 = j
        BY <1>2, <3>3
      <4>2. batch'[k] = Current(t)'
        BY <1>2, <2>1, <3>1, <4>1
      <4> QED BY <4>1, <4>2 DEF InBatch
    <3> QED BY <1>1, <3>2, <3>3
  <2>6. ASSUME OnWire(t), u.t # t PROVE OnWire(t)'
    <3>1. PICK i \in 1..Len(wire) : /\ wire[i] = Current(t)
                                    /\ \A k \in 1..Len(wire) : k > i /\ IsUpdate(k) /\ wire[k].t = t => wire[k] = Current(t)
      BY <2>6 DEF OnWire
    <3>2. i \in 1..Len(wire') /\ wire'[i] = Current(t)'
      BY <1>4, <1>0a, <2>1, <3>1
    <3>3. \A k \in 1..Len(wire') : k > i /\ IsUpdate(k)' /\ wire'[k].t = t => wire'[k] = Current(t)'
      <4> SUFFICES ASSUME NEW k \in 1..Len(wire'), k > i, IsUpdate(k)', wire'[k].t = t
                   PROVE  wire'[k] = Current(t)
        BY <2>1
      <4>1. wire'[k] # u
        BY <2>6
      <4>2. k \in 1..Len(wire) /\ wire'[k] = wire[k]
        BY <1>5, <4>1
      <4>3. IsUpdate(k) /\ wire[k].t = t
        BY <1>6, <4>2
      <4> QED BY <3>1, <4>2, <4>3
    <3> QED BY <3>2, <3>3 DEF OnWire
  <2>7. ASSUME InHand(t), u.t # t PROVE InHand(t)'
    <3>1. OffWire(t)' /\ apc' = "entry" /\ cur' = Current(t)'
      BY <1>1, <2>1, <2>4, <2>7 DEF InHand
    <3> QED BY <3>1 DEF InHand
  <2>8. ASSUME Repaired(t), u.t # t PROVE Repaired(t)'
    <3>1. PICK x : x = Current(t)
      OBVIOUS
    <3>2. OffWire(t)'
      BY <2>4, <2>8 DEF Repaired
    <3>3. x = Current(t)'
      BY <2>1, <3>1
    <3> QED BY <1>1, <2>8, <3>1, <3>2, <3>3 DEF Repaired, Kind
  <2>9. ~Unread(t)
    BY <1>1 DEF Unread
  <2>10. (InBatch(t) \/ OnWire(t) \/ InHand(t) \/ Repaired(t))'
    BY <2>1, <2>3, <2>5, <2>6, <2>7, <2>8, <2>9 DEF CalmInv
  <2>11. spc' = "sending"
    BY <1>1
  <2> QED BY <2>2, <2>10, <2>11
<1>11. writer' = Idle /\ spc' # "content"
  BY <1>1 DEF CalmInv
<1> QED BY <1>9, <1>10, <1>11 DEF CalmInv

LEMMA CalmSendManifest ==
    ASSUME TypeOK, CalmInv, calm, SendManifest
    PROVE  CalmInv'
<1>1. /\ UNCHANGED <<content, meta, writer, batch, got, file, entry, tally, apc, cur, behind>>
      /\ spc = "meta" /\ todo = {} /\ spc' = "sending"
  BY DEF SendManifest, store, cache
<1>2. ASSUME NEW t \in Ids, Due(t)' PROVE InBatch(t)' /\ Counting(t)'
  <2>1. Due(t) /\ ~Unread(t)
    BY <1>1, <1>2, SameKeys DEF Unread
  <2>2. InBatch(t)
    BY <1>1, <2>1 DEF CalmInv
  <2>3. InBatch(t)'
    BY <1>1, <2>2, SameKeys DEF InBatch
  <2>4. Len(batch') > 0
    BY <1>1, <2>2, Lengths DEF InBatch
  <2> QED BY <2>3, <2>4 DEF Counting
<1>3. (\A j \in 1..Len(batch) : batch[j] = Current(batch[j].t))'
  BY <1>1 DEF CalmInv, Current
<1> QED BY <1>1, <1>2, <1>3 DEF CalmInv

\* What remains of the stream after its first message.
LEMMA RestOfWire ==
    ASSUME TypeOK, HandleManifestUpdate \/ WriteFile
    PROVE  /\ Len(wire) \in Nat /\ Len(wire) > 0 /\ Len(wire') = Len(wire) - 1
           /\ \A i \in 1..Len(wire') : wire'[i] = wire[i + 1] /\ (IsUpdate(i)' <=> IsUpdate(i + 1))
           /\ \A i \in 2..Len(wire) : i - 1 \in 1..Len(wire') /\ wire'[i - 1] = wire[i] /\ (IsUpdate(i - 1)' <=> IsUpdate(i))
<1>1. wire \in Seq(Updates \cup Tallies) /\ wire # <<>>
  BY DEF HandleManifestUpdate, WriteFile, TypeOK
<1>2. wire' = SubSeq(wire, 1, FirstOf(wire) - 1) \o SubSeq(wire, FirstOf(wire) + 1, Len(wire))
  BY DEF HandleManifestUpdate, WriteFile, Take
<1>3. /\ Len(wire') = Len(wire) - 1 /\ Len(wire) \in Nat /\ Len(wire) > 0
      /\ \A i \in 1..Len(wire') : wire'[i] = wire[i + 1]
  <2>1. Len(wire) \in Nat /\ Len(wire) # 0
    BY <1>1
  <2>2. /\ Len(wire') = Len(wire) - 1
        /\ \A i \in 1..Len(wire') : wire'[i] = wire[i + 1]
    BY <1>1, <1>2, FirstTaken
  <2> QED BY <2>1, <2>2
<1>4. \A i \in 2..Len(wire) : i - 1 \in 1..Len(wire') /\ (i - 1) + 1 = i
  BY <1>3
<1> QED BY <1>3, <1>4 DEF IsUpdate, IsManifest

\* What is behind the first message stays on the stream.
LEMMA StaysOnWire ==
    ASSUME TypeOK, HandleManifestUpdate \/ WriteFile, NEW t \in Ids, Current(t)' = Current(t),
           NEW i \in 2..Len(wire), wire[i] = Current(t),
           \A k \in 1..Len(wire) : k > i /\ IsUpdate(k) /\ wire[k].t = t => wire[k] = Current(t)
    PROVE  OnWire(t)'
<1>1. i - 1 \in 1..Len(wire') /\ wire'[i - 1] = Current(t)'
  BY RestOfWire
<1>2. \A k \in 1..Len(wire') : k > i - 1 => k + 1 \in 1..Len(wire) /\ k + 1 > i
  BY RestOfWire
<1>3. \A k \in 1..Len(wire') : k > i - 1 /\ IsUpdate(k)' /\ wire'[k].t = t => wire'[k] = Current(t)'
  BY <1>2, RestOfWire
<1> QED BY <1>1, <1>3 DEF OnWire

LEMMA StaysOffWire ==
    ASSUME TypeOK, HandleManifestUpdate \/ WriteFile, NEW t \in Ids, OffWire(t)
    PROVE  OffWire(t)'
<1>1. \A k \in 1..Len(wire') : k + 1 \in 1..Len(wire)
  BY RestOfWire
<1> QED BY <1>1, RestOfWire DEF OffWire

LEMMA CalmManifest ==
    ASSUME TypeOK, CalmInv, calm, HandleManifestUpdate, UNCHANGED entry
    PROVE  CalmInv'
<1>1. /\ UNCHANGED <<content, meta, writer, spc, todo, got, batch, file, apc, cur, behind, entry>>
      /\ apc = "idle" /\ ~IsUpdate(1)
  BY DEF HandleManifestUpdate, store, handler, FirstOf, IsUpdate
<1>2. ASSUME NEW t \in Ids, Due(t)'
      PROVE  (/\ spc \in {"meta", "content"} => Unread(t) \/ InBatch(t)
              /\ Unread(t) \/ InBatch(t) \/ OnWire(t) \/ InHand(t) \/ Repaired(t)
              /\ Counting(t))'
  <2>1. Due(t) /\ Current(t)' = Current(t) /\ Current(t) \in Updates
    BY <1>1, <1>2, SameKeys, CurrentFacts
  <2>2. (Unread(t)' <=> Unread(t)) /\ (InBatch(t)' <=> InBatch(t))
    BY <1>1, <2>1 DEF Unread, InBatch
  <2>3. ASSUME OnWire(t) PROVE OnWire(t)'
    <3>1. PICK i \in 1..Len(wire) : /\ wire[i] = Current(t)
                                    /\ \A k \in 1..Len(wire) : k > i /\ IsUpdate(k) /\ wire[k].t = t => wire[k] = Current(t)
      BY <2>3 DEF OnWire
    <3>2. i # 1
      BY <1>1, <2>1, <3>1, Manifests DEF IsUpdate
    <3>3. i \in 2..Len(wire)
      BY <3>2, Lengths
    <3> QED BY <2>1, <3>1, <3>3, StaysOnWire
  <2>4. ASSUME Repaired(t) PROVE Repaired(t)'
    BY <1>1, <2>1, <2>4, StaysOffWire DEF Repaired, Kind
  <2>5. ~InHand(t)
    BY <1>1 DEF InHand
  <2>6. Counting(t)'
    <3>1. Unread(t) \/ Len(batch) > 0 \/ IsUpdate(Len(wire))
      BY <2>1, RestOfWire DEF CalmInv, Counting
    <3>2. CASE IsUpdate(Len(wire))
      <4>1. Len(wire) \in 2..Len(wire) /\ Len(wire') = Len(wire) - 1
        BY <1>1, <3>2, RestOfWire
      <4>2. PICK l \in Nat : l = Len(wire') /\ l > 0 /\ l = Len(wire) - 1
        BY <4>1, RestOfWire
      <4>3. wire'[l] = wire[Len(wire)]
        BY <4>1, <4>2, RestOfWire
      <4> QED BY <3>2, <4>2, <4>3, LastIsUpdate DEF IsUpdate
    <3> QED BY <1>1, <2>2, <3>1, <3>2 DEF Counting
  <2> QED BY <1>1, <2>1, <2>2, <2>3, <2>4, <2>5, <2>6 DEF CalmInv
<1>3. (\A j \in 1..Len(batch) : batch[j] = Current(batch[j].t))'
  BY <1>1 DEF CalmInv, Current
<1> QED BY <1>1, <1>2, <1>3 DEF CalmInv

LEMMA CalmWrite ==
    ASSUME TypeOK, CalmInv, calm, WriteFile, Written(wire[1])
    PROVE  CalmInv'
<1>0. PICK u \in Updates : u = wire[1] /\ u.t \in Ids /\ Kind(u) \in BOOLEAN
  BY UpdateTypes DEF Written
<1>1. /\ UNCHANGED <<content, meta, writer, spc, todo, got, batch, entry, tally>>
      /\ apc = "idle" /\ apc' = "entry" /\ cur' = u /\ behind' = behind \cup {u.t}
      /\ \A c \in BOOLEAN, t \in Ids : file'[c][t] = IF c = Kind(u) /\ t = u.t THEN u.text ELSE file[c][t]
  BY <1>0 DEF WriteFile, store, handler, Written
<1>2. ASSUME NEW t \in Ids, Due(t)'
      PROVE  (/\ spc \in {"meta", "content"} => Unread(t) \/ InBatch(t)
              /\ Unread(t) \/ InBatch(t) \/ OnWire(t) \/ InHand(t) \/ Repaired(t)
              /\ Counting(t))'
  <2>1. /\ Due(t) /\ Current(t)' = Current(t) /\ Current(t) \in Updates /\ Current(t).t = t
        /\ Kind(Current(t)) \in BOOLEAN
    BY <1>1, <1>2, SameKeys, CurrentFacts
  <2>2. (Unread(t)' <=> Unread(t)) /\ (InBatch(t)' <=> InBatch(t))
    BY <1>1, <2>1 DEF Unread, InBatch
  <2>3. ASSUME OnWire(t) PROVE OnWire(t)' \/ InHand(t)'
    <3>1. PICK i \in 1..Len(wire) : /\ wire[i] = Current(t)
                                    /\ \A k \in 1..Len(wire) : k > i /\ IsUpdate(k) /\ wire[k].t = t => wire[k] = Current(t)
      BY <2>3 DEF OnWire
    <3>2. CASE i # 1
      <4>1. i \in 2..Len(wire)
        BY <3>2, Lengths
      <4> QED BY <2>1, <3>1, <4>1, StaysOnWire
    <3>3. CASE i = 1 /\ \E k \in 2..Len(wire) : IsUpdate(k) /\ wire[k].t = t
      <4>1. PICK k \in 2..Len(wire) : IsUpdate(k) /\ wire[k].t = t
        BY <3>3
      <4>2. k \in 1..Len(wire) /\ k > i /\ \A l \in 1..Len(wire) : l > k => l > i
        BY <3>3, <4>1, Lengths
      <4>3. wire[k] = Current(t)
        BY <3>1, <4>1, <4>2
      <4> QED BY <2>1, <3>1, <4>1, <4>2, <4>3, StaysOnWire
    <3>4. CASE i = 1 /\ ~\E k \in 2..Len(wire) : IsUpdate(k) /\ wire[k].t = t
      <4>1. \A k \in 1..Len(wire') : k + 1 \in 2..Len(wire)
        BY RestOfWire
      <4>2. OffWire(t)'
        BY <3>4, <4>1, RestOfWire DEF OffWire
      <4> QED BY <1>0, <1>1, <2>1, <3>1, <3>4, <4>2 DEF InHand
    <3> QED BY <3>2, <3>3, <3>4
  <2>4. ASSUME Repaired(t) PROVE Repaired(t)'
    <3>1. u.t # t /\ OffWire(t)'
      BY <1>0, <2>4, WriteFileFacts, RestOfWire, StaysOffWire DEF Repaired, OffWire
    <3> QED BY <1>1, <2>1, <2>4, <3>1 DEF Repaired, Kind
  <2>5. ~InHand(t)
    BY <1>1 DEF InHand
  <2>6. Counting(t)'
    <3>1. Unread(t) \/ Len(batch) > 0 \/ IsUpdate(Len(wire))
      BY <2>1, RestOfWire DEF CalmInv, Counting
    <3>2. CASE IsUpdate(Len(wire)) /\ Len(wire) # 1
      <4>1. Len(wire) \in 2..Len(wire) /\ Len(wire') = Len(wire) - 1
        BY <3>2, RestOfWire
      <4>2. PICK l \in Nat : l = Len(wire') /\ l > 0 /\ l = Len(wire) - 1
        BY <4>1, RestOfWire
      <4>3. wire'[l] = wire[Len(wire)]
        BY <4>1, <4>2, RestOfWire
      <4> QED BY <3>2, <4>2, <4>3, LastIsUpdate DEF IsUpdate
    <3>3. CASE Len(wire) = 1
      BY <1>1, <3>3, RestOfWire DEF Counting
    <3> QED BY <1>1, <2>2, <3>1, <3>2, <3>3 DEF Counting
  <2> QED BY <1>1, <2>1, <2>2, <2>3, <2>4, <2>5, <2>6 DEF CalmInv
<1>3. (\A j \in 1..Len(batch) : batch[j] = Current(batch[j].t))'
  BY <1>1 DEF CalmInv, Current
<1> QED BY <1>1, <1>2, <1>3 DEF CalmInv

LEMMA CalmSave ==
    ASSUME TypeOK, HandInv, CalmInv, calm, SaveEntry, calm'
    PROVE  CalmInv'
<1>1. /\ UNCHANGED <<content, meta, writer, spc, todo, got, batch, wire, file>>
      /\ apc = "entry" /\ apc' = "idle"
      /\ entry' = [entry EXCEPT ![cur.t] = cur.entry] /\ tally' = Statistics(entry') /\ behind' = behind \ {cur.t}
  BY DEF SaveEntry, store, handler, Fault
<1>2. cur \in Updates /\ entry \in [Ids -> Entries] /\ cur.t \in Ids
  BY UpdateTypes DEF TypeOK
<1>3. /\ entry'[cur.t] = cur.entry /\ \A t \in Ids : t # cur.t => entry'[t] = entry[t]
      /\ file[Kind(cur)][cur.t] = cur.text
  BY <1>1, <1>2 DEF HandInv
<1>4. ASSUME NEW t \in Ids, Due(t)'
      PROVE  (/\ spc \in {"meta", "content"} => Unread(t) \/ InBatch(t)
              /\ Unread(t) \/ InBatch(t) \/ OnWire(t) \/ InHand(t) \/ Repaired(t)
              /\ Counting(t))'
  <2>1. Due(t) /\ Current(t)' = Current(t) /\ Current(t).t = t
    BY <1>1, <1>4, SameKeys, CurrentFacts
  <2>2. (Unread(t)' <=> Unread(t)) /\ (InBatch(t)' <=> InBatch(t))
    BY <1>1, <2>1 DEF Unread, InBatch
  <2>3. (OnWire(t) => OnWire(t)') /\ (OffWire(t) => OffWire(t)')
    BY <1>1, <2>1 DEF OnWire, OffWire, IsUpdate, IsManifest
  <2>4. ASSUME InHand(t) PROVE Repaired(t)'
    <3>1. OffWire(t)' /\ cur = Current(t)
      BY <2>3, <2>4 DEF InHand
    <3> QED BY <1>1, <1>3, <2>1, <3>1 DEF Repaired, Kind
  <2>5. ASSUME Repaired(t) PROVE Repaired(t)'
    <3>1. OffWire(t)' /\ cur.t # t
      BY <1>1, <2>3, <2>5 DEF Repaired
    <3> QED BY <1>1, <1>3, <2>1, <2>5, <3>1 DEF Repaired, Kind
  <2>6. Counting(t)'
    <3>1. tally' = Statistics(entry)'
      BY <1>1 DEF Statistics, Count
    <3> QED BY <1>1, <2>1, <2>2, <3>1 DEF CalmInv, Counting, IsUpdate, IsManifest
  <2> QED BY <1>1, <2>1, <2>2, <2>3, <2>4, <2>5, <2>6 DEF CalmInv
<1>5. (\A j \in 1..Len(batch) : batch[j] = Current(batch[j].t))'
  BY <1>1 DEF CalmInv, Current
<1> QED BY <1>1, <1>4, <1>5 DEF CalmInv

LEMMA CalmReads ==
    ASSUME TypeOK, CalmInv, calm, ReadMeta \/ ReadContent, calm'
    PROVE  CalmInv'
<1>0. /\ Len(batch) \in Nat /\ \A j \in 1..Len(batch) : batch[j].t \in Ids /\ batch[j] = Current(batch[j].t)
      /\ got.t \in Ids
  BY UpdateTypes DEF CalmInv, TypeOK
<1>1. CASE ReadMeta
  <2>1. /\ UNCHANGED <<content, meta, writer, batch, wire, cache, apc, cur, behind>> /\ spc = "meta"
    BY <1>1 DEF ReadMeta, store
  <2>2. PICK t \in todo : /\ todo' = todo \ {t}
                          /\ \/ meta[t] # NoMeta /\ got' = [t |-> t, meta |-> meta[t]] /\ spc' = "content"
                             \/ meta[t] = NoMeta /\ spc' = "meta"
    BY <1>1 DEF ReadMeta, Fault
  <2>3. \A s \in Ids : Due(s) /\ Unread(s) => Unread(s)'
    BY <2>1, <2>2 DEF Unread, Due
  <2>4. \A s \in Ids : InBatch(s) => InBatch(s)'
    BY <2>1, SameKeys DEF InBatch
  <2>5. spc' = "content" => got'.meta = meta[got'.t]
    BY <2>2
  <2>6. spc' \in {"meta", "content"} => spc \in {"meta", "content"}
    BY <2>1
  <2>7. \A j \in 1..Len(batch') : batch'[j] = Current(batch'[j].t) /\ batch'[j].t \in Ids
    BY <1>0, <2>1
  <2>8. /\ \A s \in Ids : Due(s) /\ (Unread(s) \/ InBatch(s)) => (Unread(s) \/ InBatch(s))'
        /\ \A s \in Ids : Due(s) /\ (Unread(s) \/ Len(batch) > 0) => (Unread(s) \/ Len(batch) > 0)'
    BY <2>1, <2>3, <2>4
  <2> QED BY <2>1, <2>5, <2>6, <2>7, <2>8, ReadStep
<1>2. CASE ReadContent
  <2>0. PICK g \in Ids : g = got.t
    BY <1>0
  <2>1. /\ UNCHANGED <<content, meta, writer, todo, wire, cache, apc, cur, behind>>
        /\ spc = "content" /\ spc' = "meta" /\ got.meta = meta[g]
    BY <1>2, <2>0 DEF ReadContent, store, CalmInv
  <2>2. \/ Due(g) /\ batch' = Append(batch, Current(g))
        \/ ~Due(g) /\ batch' = batch
    <3>1. \/ /\ content[meta[g].custom][g] # 0
             /\ batch' = Append(batch, TemplateUpdate(g, meta[g], content[meta[g].custom][g]))
          \/ content[meta[g].custom][g] = 0 /\ batch' = batch
      BY <1>2, <2>0, <2>1 DEF ReadContent, Answered, Fault
    <3>2. meta[g] # NoMeta
      BY <2>1 DEF TypeOK
    <3> QED BY <3>1, <3>2 DEF Due, Current
  <2>3. Current(g) \in Updates /\ Current(g).t = g
    BY CurrentFacts
  <2>4. PICK n \in Nat : n = Len(batch) + 1 /\ n > 0
    BY <1>0
  <2>5. CASE Due(g)
    <3>1. /\ Len(batch') = n /\ batch'[n] = Current(g)
          /\ \A j \in 1..Len(batch) : batch'[j] = batch[j]
      BY <2>2, <2>3, <2>4, <2>5, Lengths, AppendedTo
    <3>2. /\ n \in 1..Len(batch')
          /\ \A j \in 1..Len(batch') : j \in 1..Len(batch) \/ j = n
          /\ \A j \in 1..Len(batch) : j \in 1..Len(batch')
      BY <1>0, <2>4, <3>1
    <3>3. \A s \in Ids : InBatch(s) => InBatch(s)'
      BY <2>1, <3>1, <3>2, SameKeys DEF InBatch
    <3>4. InBatch(g)'
      <4>1. Current(g)' = Current(g)
        BY <2>1, SameKeys
      <4> QED BY <3>1, <3>2, <4>1 DEF InBatch
    <3>5. \A j \in 1..Len(batch') : batch'[j] = Current(batch'[j].t) /\ batch'[j].t \in Ids
      BY <1>0, <2>3, <3>1, <3>2
    <3>6. Len(batch') > 0
      BY <2>4, <3>1
    <3>7. \A s \in Ids : Unread(s) => Unread(s)' \/ s = g
      BY <2>0, <2>1 DEF Unread
    <3>8. \A s \in Ids : Due(s) /\ (Unread(s) \/ InBatch(s)) => (Unread(s) \/ InBatch(s))'
      BY <3>3, <3>4, <3>7
    <3>9. \A s \in Ids : Due(s) /\ (Unread(s) \/ Len(batch) > 0) => (Unread(s) \/ Len(batch) > 0)'
      BY <3>6
    <3> QED BY <2>1, <3>5, <3>8, <3>9, ReadStep
  <2>6. CASE ~Due(g)
    <3>1. batch' = batch
      BY <2>2, <2>6
    <3>2. \A s \in Ids : Due(s) /\ Unread(s) => Unread(s)'
      BY <2>0, <2>1, <2>6 DEF Unread
    <3>3. \A s \in Ids : InBatch(s) => InBatch(s)'
      BY <2>1, <3>1, SameKeys DEF InBatch
    <3>4. \A j \in 1..Len(batch') : batch'[j] = Current(batch'[j].t) /\ batch'[j].t \in Ids
      BY <1>0, <3>1
    <3>5. /\ \A s \in Ids : Due(s) /\ (Unread(s) \/ InBatch(s)) => (Unread(s) \/ InBatch(s))'
          /\ \A s \in Ids : Due(s) /\ (Unread(s) \/ Len(batch) > 0) => (Unread(s) \/ Len(batch) > 0)'
      BY <3>1, <3>2, <3>3
    <3> QED BY <2>1, <3>4, <3>5, ReadStep
  <2> QED BY <2>5, <2>6
<1> QED BY <1>1, <1>2

LEMMA CalmStep ==
    ASSUME TypeOK, HandInv, RepairInv, [Next]_vars
    PROVE  RepairInv'
<1>1. (spc = "idle" => Len(batch) = 0)'
  <2>1. CASE UNCHANGED <<spc, batch>>
    BY <2>1 DEF RepairInv
  <2>2. CASE ListKeys \/ ReadMeta \/ ReadContent \/ SendManifest \/ SendTemplate \/ StreamLost
    BY <2>2 DEF ListKeys, ReadMeta, ReadContent, SendManifest, SendTemplate, StreamLost, RepairInv
  <2> QED BY <2>1, <2>2 DEF Next, vars, handler, StoreTemplate, DeleteTemplate, StoreMeta, DeleteMeta,
             WriterFails, SyncFromServer, HandleManifestUpdate, WriteFile, SaveEntry
<1>2. SUFFICES ASSUME calm' PROVE CalmInv'
  BY <1>1 DEF RepairInv, CalmInv
<1>3. CASE ListKeys
  <2>1. /\ UNCHANGED <<content, meta, writer>> /\ writer = Idle /\ todo' = MetaKeys /\ spc' = "meta"
        /\ batch' = batch /\ Len(batch) = 0
    BY <1>2, <1>3 DEF ListKeys, Fault, store, RepairInv
  <2>2. \A t \in Ids : Due(t)' => Unread(t)'
    BY <2>1 DEF Due, Unread, MetaKeys
  <2>3. Len(batch') = 0
    BY <2>1
  <2>4. \A t \in Ids : Due(t)' => Counting(t)'
    BY <2>2 DEF Counting
  <2> QED BY <2>1, <2>2, <2>3, <2>4 DEF CalmInv
<1>4. ASSUME ~ListKeys PROVE calm
  BY <1>2, <1>4 DEF Next, StoreTemplate, DeleteTemplate, StoreMeta, DeleteMeta, WriterFails, SyncFromServer,
        ReadMeta, ReadContent, SendManifest, SendTemplate, HandleManifestUpdate, WriteFile, SaveEntry,
        StreamLost, Fault, NoFault, vars
<1>5. CASE calm
  <2> USE <1>5
  <2>1. CalmInv
    BY DEF RepairInv
  <2>2. CASE ReadMeta \/ ReadContent
    BY <1>2, <2>1, <2>2, CalmReads
  <2>3. CASE SendManifest
    BY <2>1, <2>3, CalmSendManifest
  <2>4. CASE SendTemplate
    <3>1. CASE batch = <<>>
      <4>1. /\ UNCHANGED <<content, meta, writer, todo, got, batch, wire, cache, apc, cur, behind>>
            /\ spc = "sending" /\ spc' = "idle" /\ Len(batch') = 0
        BY <2>4, <3>1 DEF SendTemplate, store
      <4>2. \A t \in Ids : ~Unread(t) /\ ~InBatch(t) /\ ~(Len(batch) > 0)
        BY <4>1 DEF Unread, InBatch
      <4> QED BY <2>1, <4>1, <4>2, ReadStep
    <3>2. CASE batch # <<>>
      BY <2>1, <2>4, <3>2, CalmSendTemplate
    <3> QED BY <3>1, <3>2
  <2>5. CASE HandleManifestUpdate
    <3>1. UNCHANGED entry
      BY <1>2, <2>5 DEF HandleManifestUpdate, Fault
    <3> QED BY <2>1, <2>5, <3>1, CalmManifest
  <2>6. CASE WriteFile
    <3>1. apc' = "entry" /\ apc = "idle"
      BY <1>2, <2>6 DEF WriteFile, Fault
    <3>2. Written(wire[1])
      BY <2>6, <3>1, WriteFileFacts
    <3> QED BY <2>1, <2>6, <3>2, CalmWrite
  <2>7. CASE SaveEntry
    BY <1>2, <2>1, <2>7, CalmSave
  <2>8. CASE SyncFromServer \/ UNCHANGED vars
    <3>1. UNCHANGED <<content, meta, writer, spc, todo, got, batch, wire, cache, apc, cur, behind>>
      BY <2>8 DEF SyncFromServer, vars, store, handler
    <3>2. \A t \in Ids : (Unread(t)' <=> Unread(t)) /\ (InBatch(t)' <=> InBatch(t))
      BY <3>1, SameKeys DEF Unread, InBatch
    <3>3. \A j \in 1..Len(batch) : batch[j] = Current(batch[j].t) /\ batch[j].t \in Ids
      BY <2>1, UpdateTypes DEF CalmInv
    <3>4. spc = "content" => got.meta = meta[got.t]
      BY <2>1 DEF CalmInv
    <3> QED BY <2>1, <3>1, <3>2, <3>3, <3>4, ReadStep
  <2> QED BY <1>2, <1>3, <2>2, <2>3, <2>4, <2>5, <2>6, <2>7, <2>8
          DEF Next, StoreTemplate, DeleteTemplate, StoreMeta, DeleteMeta, WriterFails, StreamLost, Fault
<1> QED BY <1>3, <1>4, <1>5

\* Once a sync that nothing disturbs is done the agent has every template the
\* server could send, with its entry, and the statistics say so: whatever
\* older updates were still on the stream or in the agent's hands when it began.
THEOREM UndisturbedSyncRepairs == Spec => []SyncRepairs
<1>1. Init => RepairInv
  BY DEF Init, RepairInv, CalmInv
<1>2. CacheInv /\ RepairInv /\ [Next]_vars => RepairInv'
  BY CalmStep DEF CacheInv
<1>3. CacheInv /\ RepairInv => SyncRepairs
  BY RepairIsMeant DEF CacheInv
<1> QED BY <1>1, <1>2, <1>3, CacheInit, CacheInductive, PTL DEF Spec
=============================================================================
