------------------------- MODULE TmdbMetadataProofs -------------------------
(***************************************************************************)
(* What requests, scans and the revalidation job keep of a series' data,   *)
(* for any number of requests, provider ids, editions and any time.        *)
(***************************************************************************)
EXTENDS TmdbMetadata, TLAPS

-----------------------------------------------------------------------------
(* The inductive invariant.                                                *)

Fields == [title : Nat, text : Nat, art : Nat]

Operation == [kind : {"none", "match", "refresh", "restore", "outline", "cast"},
              pc : {"idle", "fetch", "write", "season", "episode", "outline", "done", "failed", "remove"},
              id : Bindings \cup {None}, ans : Fields]

JobState == [kind : {"none"}, pc : {"idle", "queued", "lookup", "complete", "remove", "expire"},
             id : Bindings \cup {None}, ans : Fields]

\* Something that the provider says, or once said, of a binding.
AnswerFits(ans, b) == \E e \in Editions : ans = Answers[b][e]
PartFits(part, b) == part.known => \E e \in Editions : part = Known(Answers[b][e])

RowFits(r, b) ==
    /\ DOMAIN r = {"id", "due", "retain", "snapshot"} /\ r.id = b
    /\ \A l \in Levels : PartFits(r.snapshot[l], b)

CastFits(c) == c = NoCache \/ (DOMAIN c = {"id", "current", "from"} /\ c.from = c.id)
OutlineFits(c, files) ==
    \/ c = NoCache
    \/ DOMAIN c = {"id", "current", "art"} /\ (Provided(c.art) => c.art \in files)

\* A request that is about to write what the provider said.
Publishes(o) ==
    \/ o.pc \in {"season", "episode", "outline"}
    \/ o.pc = "write" /\ o.kind \in {"match", "refresh"}

\* It holds the publication lock, so what it has cached stays until it has written.
OpFits(o, p, files, holders) ==
    /\ o \in Operation /\ (o.pc # "idle" => o.id \in Bindings)
    /\ Publishes(o) =>
         AnswerFits(o.ans, o.id) /\ (Provided(o.ans.art) => o.ans.art \in files) /\ p \in holders

\* A target that nobody has written since the job read it is of the job's binding.
JobFits(j, files, holders, seen, i) ==
    /\ j \in JobState /\ (j.pc # "idle" => j.id \in Bindings)
    /\ j.pc \in {"lookup", "complete", "expire"} /\ seen = Levels \cup {"row"} => j.id = i.id
    /\ j.pc = "complete" =>
         AnswerFits(j.ans, j.id) /\ (Provided(j.ans.art) => j.ans.art \in files) /\ Job \in holders

ItemFits(i, r, of, ep) ==
    /\ i.id \in Bindings \cup {None}
    /\ IF i.id = None THEN r = NoRow ELSE RowFits(r, i.id)
    /\ of \in {None, i.id} /\ ep \in {None, i.id}

DataFits(d, files) ==
    /\ d \in [Levels -> Fields]
    /\ \A l \in Levels : Provided(d[l].art) => d[l].art \in files

TmdbIInv ==
    /\ ItemFits(item, row, ids, epId) /\ DataFits(data, disk)
    /\ CastFits(cast) /\ OutlineFits(outline, disk)
    /\ DOMAIN op = Procs /\ \A p \in Procs : OpFits(op[p], p, disk, guards)
    /\ DOMAIN fresh = Readers /\ JobFits(job, disk, guards, fresh[Job], item)

-----------------------------------------------------------------------------
(* Fields, snapshots and caches.                                           *)

LEMMA Constants ==
    /\ None \in Nat /\ Source \in Nat /\ Local \in Nat
    /\ ~ Provided(None) /\ ~ Provided(Source) /\ ~ Provided(Local)
    /\ None \notin Bindings /\ Job \notin Procs /\ Nobody # Job /\ Job \in Readers
    /\ \A p \in Procs : p # Job
    /\ NoFields \in Fields
  BY TmdbAssumption DEF None, Source, Local, Provided, Job, Nobody, Readers, NoFields, Fields

LEMMA AnswersAreFields ==
    ASSUME NEW b \in Bindings, NEW e \in Editions
    PROVE  /\ Answers[b][e] \in Fields
           /\ \A f \in {"title", "text", "art"} : Answers[b][e][f] \notin {Source, Local}
  BY TmdbAssumption DEF Fields, Source, Local

\* What a write makes of fields: what they were, or what the answer says.
Written(g, f, ans) == g \in Fields /\ g.art \in {None, Local, f.art, ans.art}

LEMMA MergesWrite ==
    ASSUME NEW f \in Fields, NEW ans \in Fields
    PROVE  /\ Written(Coalesced(f, ans), f, ans) /\ Written(MatchedSeason(ans), f, ans)
           /\ Written(apply_remote_series_metadata(f, ans), f, ans)
           /\ Written(apply_remote_episode_outline(f, ans), f, ans)
           /\ Written(Baseline(f), f, ans) /\ Baseline(f).art \in {None, Local}
  BY Constants
     DEF Written, Coalesced, MatchedSeason, apply_remote_series_metadata,
         apply_remote_episode_outline, Baseline, Or, Fields

LEMMA RevalidationWrites ==
    ASSUME NEW f \in Fields, NEW ans \in Fields, NEW previous
    PROVE  Written(merge_revalidated(f, previous, ans), f, ans)
<1> DEFINE title == merge_title(f.title, Source, previous, ans.title)
           text == merge_optional_provider_value(f.text, previous.known,
                     IF previous.known THEN previous.text ELSE None, ans.text)
           art == merge_optional_provider_artwork(f.art, previous.known,
                    IF previous.known THEN previous.art ELSE None, ans.art)
<1>0. f.title \in Nat /\ f.text \in Nat /\ f.art \in Nat /\ ans.title \in Nat /\ ans.text \in Nat /\ ans.art \in Nat
  BY DEF Fields
<1>1. title \in {f.title, ans.title, Source}
  BY Zenon DEF merge_title, Or
<1>2. text \in {f.text, ans.text}
  BY Zenon DEF merge_optional_provider_value
<1>3. art \in {f.art, ans.art}
  BY Zenon DEF merge_optional_provider_artwork, merge_optional_provider_value
<1>4. merge_revalidated(f, previous, ans) = [title |-> title, text |-> text, art |-> art]
  BY DEF merge_revalidated
<1>. HIDE DEF title, text, art
<1>. QED BY <1>0, <1>1, <1>2, <1>3, <1>4, Constants DEF Written, Fields

\* A carrier that is not bound starts anew: what is written over that is also written.
LEMMA WrittenOverBaseline ==
    ASSUME NEW f \in Fields, NEW ans \in Fields, NEW g, Written(g, Baseline(f), ans)
    PROVE  Written(g, f, ans)
  BY MergesWrite DEF Written

LEMMA MatchedItemWrites ==
    ASSUME data \in [Levels -> Fields], NEW ans \in Fields
    PROVE  Written(MatchedItem(ans), data["item"], ans)
<1>1. data["item"] \in Fields
  BY DEF Levels
<1>. QED BY <1>1 DEF Written, MatchedItem, Or, Fields

LEMMA DataWrites ==
    ASSUME DataFits(data, disk), NEW ans \in Fields, NEW files, disk \subseteq files,
           Provided(ans.art) => ans.art \in files,
           NEW d, d = [l \in Levels |-> d[l]],
           \A l \in Levels : Written(d[l], data[l], ans)
    PROVE  DataFits(d, files)
<1>1. d \in [Levels -> Fields]
  BY DEF Written
<1>2. \A l \in Levels : Provided(d[l].art) => d[l].art \in files
  BY Constants DEF Written, DataFits
<1>. QED BY <1>1, <1>2 DEF DataFits

LEMMA SnapshotsFit ==
    ASSUME NEW b
    PROVE  /\ \A l \in Levels : PartFits(NoSnapshot[l], b)
           /\ \A l \in Levels : PartFits([known |-> FALSE], b)
           /\ \A e \in Editions, partial \in BOOLEAN, l \in Levels :
                 PartFits(Incoming(Answers[b][e], partial)[l], b)
  BY DEF PartFits, NoSnapshot, Incoming

LEMMA KeptSnapshotFits ==
    ASSUME ItemFits(item, row, ids, epId), NEW b
    PROVE  \A l \in Levels : PartFits(KeptSnapshot(b)[l], b)
<1>1. CASE row # NoRow /\ row.id = b
  BY <1>1 DEF KeptSnapshot, ItemFits, RowFits
<1>2. CASE ~ (row # NoRow /\ row.id = b)
  BY <1>2, SnapshotsFit DEF KeptSnapshot
<1>. QED BY <1>1, <1>2

LEMMA MergedSnapshotFits ==
    ASSUME ItemFits(item, row, ids, epId), NEW b, NEW e \in Editions, NEW partial \in BOOLEAN
    PROVE  LET s == merge_partial_tmdb_ownership_snapshot(b, Incoming(Answers[b][e], partial))
           IN  \A l \in Levels : PartFits(s[l], b)
<1> DEFINE incoming == Incoming(Answers[b][e], partial)
<1>1. \A l \in Levels : PartFits(incoming[l], b)
  BY SnapshotsFit
<1>2. \A l \in Levels : PartFits(KeptSnapshot(b)[l], b)
  BY KeptSnapshotFits
<1>. HIDE DEF incoming
<1>. QED BY <1>1, <1>2 DEF merge_partial_tmdb_ownership_snapshot, KeptSnapshot, incoming

\* The trigger leaves a row of the new binding, and drops or ages the caches
\* (mova_sync_tmdb_revalidation_binding); it moves no clock of the old binding.
LEMMA TriggerFits ==
    ASSUME TmdbIInv, NEW b \in Bindings \cup {None}, NEW s, NEW files, disk \subseteq files,
           \A l \in Levels : PartFits(s[l], b), mova_sync_tmdb_revalidation_binding(b, s)
    PROVE  /\ IF b = None THEN row' = NoRow ELSE RowFits(row', b)
           /\ CastFits(cast') /\ OutlineFits(outline', files)
<1>1. IF b = None THEN row' = NoRow ELSE RowFits(row', b)
  <2>1. CASE b = None
    BY <2>1 DEF mova_sync_tmdb_revalidation_binding
  <2>2. CASE b # None /\ (row = NoRow \/ row.id # b)
    <3>1. row' = [id |-> b, due |-> now + Due, retain |-> now + Retain, snapshot |-> s]
      BY <2>2 DEF mova_sync_tmdb_revalidation_binding
    <3>. QED BY <2>2, <3>1 DEF RowFits
  <2>3. CASE b # None /\ row # NoRow /\ row.id = b
    <3>1. row' = [row EXCEPT !.snapshot = s]
      BY <2>3 DEF mova_sync_tmdb_revalidation_binding
    <3>2. DOMAIN row = {"id", "due", "retain", "snapshot"}
      BY <2>3 DEF TmdbIInv, ItemFits, RowFits
    <3>. QED BY <2>3, <3>1, <3>2 DEF RowFits
  <2>. QED BY <2>1, <2>2, <2>3
<1>3. CastFits(cast')
  <2>1. cast' \in {NoCache, cast} \/ (cast # NoCache /\ cast' = [cast EXCEPT !.current = FALSE])
    BY DEF mova_sync_tmdb_revalidation_binding
  <2>. QED BY <2>1 DEF TmdbIInv, CastFits
<1>4. OutlineFits(outline', files)
  <2>1. outline' \in {NoCache, outline} \/ (outline # NoCache /\ outline' = [outline EXCEPT !.current = FALSE])
    BY DEF mova_sync_tmdb_revalidation_binding
  <2>. QED BY <2>1 DEF TmdbIInv, OutlineFits
<1>. QED BY <1>1, <1>3, <1>4

LEMMA TriggerKeepsClocks ==
    ASSUME NEW b, NEW s, mova_sync_tmdb_revalidation_binding(b, s),
           row # NoRow, row' # NoRow, row'.id = row.id,
           DOMAIN row = {"id", "due", "retain", "snapshot"}
    PROVE  row'.retain = row.retain
<1>1. row' = [row EXCEPT !.snapshot = s]
  BY DEF mova_sync_tmdb_revalidation_binding
<1>. QED BY <1>1

-----------------------------------------------------------------------------
(* What a step has to leave alone.                                         *)

LEMMA OpStep ==
    ASSUME TmdbIInv, NEW p \in Procs, NEW o, op' = [op EXCEPT ![p] = o],
           disk \subseteq disk', guards \ {p} \subseteq guards', OpFits(o, p, disk', guards')
    PROVE  DOMAIN op' = Procs /\ \A q \in Procs : OpFits(op'[q], q, disk', guards')
<1>1. /\ DOMAIN op' = Procs /\ op'[p] = o
      /\ \A q \in Procs : q # p => op'[q] = op[q]
  BY DEF TmdbIInv
<1>2. ASSUME NEW q \in Procs, q # p PROVE OpFits(op'[q], q, disk', guards')
  BY <1>1, <1>2 DEF TmdbIInv, OpFits
<1>. QED BY <1>1, <1>2

LEMMA JobStays ==
    ASSUME TmdbIInv, UNCHANGED job, disk \subseteq disk', Job \in guards => Job \in guards',
           fresh'[Job] = Levels \cup {"row"} => fresh[Job] = Levels \cup {"row"} /\ item'.id = item.id
    PROVE  JobFits(job', disk', guards', fresh'[Job], item')
  BY DEF TmdbIInv, JobFits

LEMMA StaleFacts ==
    ASSUME NEW L, NEW w, w # Job
    PROVE  /\ DOMAIN Stale(L, w) = Readers /\ Stale(L, w)[Job] = fresh[Job] \ L
           /\ \A l \in (Levels \cup {"row"}) \cap L : Stale(L, w)[Job] # Levels \cup {"row"}
  BY Constants DEF Stale

\* A request that writes nothing.
LEMMA RequestStep ==
    ASSUME TmdbIInv, NEW p \in Procs, NEW o, op' = [op EXCEPT ![p] = o],
           UNCHANGED <<itemVars, cacheVars, job>>, disk \subseteq disk',
           guards \ {p} \subseteq guards', OpFits(o, p, disk', guards'),
           \/ UNCHANGED fresh
           \/ \E s : fresh' = [fresh EXCEPT ![p] = s]
    PROVE  TmdbIInv'
<1>1. DOMAIN op' = Procs /\ \A q \in Procs : OpFits(op'[q], q, disk', guards')
  BY OpStep
<1>2. DOMAIN fresh' = Readers /\ fresh'[Job] = fresh[Job]
  BY Constants DEF TmdbIInv
<1>3. UNCHANGED <<item, data, epId, ids, row, outline, cast, job>>
  BY DEF itemVars, cacheVars
<1>4. JobFits(job', disk', guards', fresh'[Job], item')
  BY <1>2, <1>3, Constants, JobStays
<1>5. ItemFits(item', row', ids', epId') /\ DataFits(data', disk')
  BY <1>3 DEF TmdbIInv, DataFits
<1>6. CastFits(cast') /\ OutlineFits(outline', disk')
  BY <1>3 DEF TmdbIInv, OutlineFits
<1>. QED BY <1>1, <1>2, <1>4, <1>5, <1>6 DEF TmdbIInv

\* Only files that nothing refers to are removed, and only while nobody publishes.
LEMMA RemovalStep ==
    ASSUME TmdbIInv, NEW S, guards = {}, disk' = disk \ Removable(S),
           UNCHANGED <<item, data, epId, ids, row, outline, cast>>,
           DOMAIN op' = Procs, \A p \in Procs : op'[p] \in {op[p], Idle}, guards' = {},
           job' \in {job, Idle}, DOMAIN fresh' = Readers, fresh'[Job] = fresh[Job]
    PROVE  TmdbIInv'
<1>1. DataFits(data', disk')
  BY DEF TmdbIInv, DataFits, Removable, is_artwork_path_referenced
<1>2. OutlineFits(outline', disk')
  BY DEF TmdbIInv, OutlineFits, Removable, is_artwork_path_referenced
<1>3. Idle \in Operation /\ Idle.pc = "idle" /\ Idle \in JobState
  BY Constants DEF Idle, Operation, JobState
<1>4. ASSUME NEW p \in Procs PROVE OpFits(op'[p], p, disk', guards')
  BY <1>3 DEF TmdbIInv, OpFits, Publishes
<1>5. JobFits(job', disk', guards', fresh'[Job], item')
  BY <1>3 DEF TmdbIInv, JobFits
<1>6. ItemFits(item', row', ids', epId') /\ CastFits(cast')
  BY DEF TmdbIInv
<1>. QED BY <1>1, <1>2, <1>4, <1>5, <1>6 DEF TmdbIInv

LEMMA IdleFits ==
    ASSUME NEW p, NEW files, NEW holders
    PROVE  OpFits(Idle, p, files, holders)
  BY Constants DEF OpFits, Idle, Operation, Publishes

-----------------------------------------------------------------------------
(* Requests.                                                               *)

LEMMA BeginFits ==
    ASSUME TmdbIInv, NEW p \in Procs, NEW kind \in {"match", "refresh", "outline", "cast"},
           NEW b \in Bindings, Begin(p, kind, b)
    PROVE  TmdbIInv'
<1> DEFINE o == [kind |-> kind, pc |-> "fetch", id |-> b, ans |-> NoFields]
<1>1. OpFits(o, p, disk', guards')
  BY Constants DEF OpFits, Operation, Publishes
<1>2. /\ op' = [op EXCEPT ![p] = o] /\ UNCHANGED <<itemVars, cacheVars, job, disk, guards>>
      /\ \E s : fresh' = [fresh EXCEPT ![p] = s]
  BY DEF Begin, artVars
<1>. HIDE DEF o
<1>. QED BY <1>1, <1>2, RequestStep

LEMMA EndsFits ==
    ASSUME TmdbIInv, NEW p \in Procs, Ends(p), UNCHANGED <<itemVars, cacheVars, job, disk>>,
           guards \ {p} \subseteq guards'
    PROVE  TmdbIInv'
  BY IdleFits, RequestStep DEF Ends

LEMMA FetchFits ==
    ASSUME TmdbIInv, NEW p \in Procs, Fetch(p)
    PROVE  TmdbIInv'
<1>1. PICK e \in Editions :
         /\ op' = [op EXCEPT ![p].pc = "write", ![p].ans = Answers[op[p].id][e]]
         /\ IF op[p].kind \in {"match", "refresh"}
            THEN guards' = guards \cup {p} /\ disk' = disk \cup TmdbArts({Answers[op[p].id][e].art})
            ELSE UNCHANGED <<guards, disk>>
  BY DEF Fetch
<1> DEFINE ans == Answers[op[p].id][e]
           o == [op[p] EXCEPT !.pc = "write", !.ans = ans]
<1>2. /\ op[p] \in Operation /\ op[p].id \in Bindings /\ op[p].pc = "fetch"
      /\ UNCHANGED <<itemVars, cacheVars, job, fresh>>
  BY DEF Fetch, TmdbIInv, OpFits
<1>3. ans \in Fields /\ AnswerFits(ans, op[p].id)
  BY <1>2, AnswersAreFields DEF AnswerFits
<1>4. op' = [op EXCEPT ![p] = o]
  BY <1>1, <1>2 DEF TmdbIInv
<1>5. op[p].kind \in {"match", "refresh"} => p \in guards' /\ (Provided(ans.art) => ans.art \in disk')
  BY <1>1 DEF TmdbArts
<1>6. disk \subseteq disk' /\ guards \subseteq guards'
  BY <1>1
<1>. HIDE DEF ans
<1>7. /\ o \in Operation /\ o.pc = "write" /\ o.ans = ans /\ o.id = op[p].id
      /\ o.kind = op[p].kind
  BY <1>2, <1>3 DEF Operation
<1>. HIDE DEF o
<1>8. OpFits(o, p, disk', guards')
  BY <1>2, <1>3, <1>5, <1>7 DEF OpFits, Publishes
<1>. QED BY <1>2, <1>4, <1>6, <1>8, RequestStep

\* A request goes on to something other than to write.
LEMMA AdvanceFits ==
    ASSUME TmdbIInv, NEW p \in Procs, op[p].pc # "idle", NEW pc \in {"done", "failed", "remove"},
           op' = [op EXCEPT ![p].pc = pc], NEW files, NEW holders
    PROVE  \E o : op' = [op EXCEPT ![p] = o] /\ OpFits(o, p, files, holders)
<1> DEFINE o == [op[p] EXCEPT !.pc = pc]
<1>1. op[p] \in Operation /\ op[p].id \in Bindings
  BY DEF TmdbIInv, OpFits
<1>2. o \in Operation /\ o.pc = pc /\ o.id = op[p].id
  BY <1>1 DEF Operation
<1>3. op' = [op EXCEPT ![p] = o]
  BY DEF TmdbIInv
<1>. HIDE DEF o
<1>4. OpFits(o, p, files, holders)
  BY <1>1, <1>2 DEF OpFits, Publishes
<1>. QED BY <1>3, <1>4

LEMMA FetchFailsFits ==
    ASSUME TmdbIInv, NEW p \in Procs, FetchFails(p)
    PROVE  TmdbIInv'
<1>1. CASE op[p].kind # "refresh"
  BY <1>1, EndsFits DEF FetchFails
<1>2. CASE op[p].kind = "refresh"
  <2> DEFINE o == [op[p] EXCEPT !.pc = "write", !.kind = "restore"]
  <2>1. /\ op[p] \in Operation /\ op[p].id \in Bindings /\ guards \subseteq guards'
        /\ UNCHANGED <<itemVars, cacheVars, job, disk, fresh>>
    BY <1>2 DEF FetchFails, TmdbIInv, OpFits
  <2>2. op' = [op EXCEPT ![p] = o]
    BY <1>2 DEF FetchFails, TmdbIInv
  <2>3. o \in Operation /\ o.pc = "write" /\ o.id = op[p].id /\ o.kind = "restore"
    BY <2>1 DEF Operation
  <2>. HIDE DEF o
  <2>4. OpFits(o, p, disk', guards')
    BY <2>1, <2>3 DEF OpFits, Publishes
  <2>. QED BY <2>1, <2>2, <2>4, RequestStep
<1>. QED BY <1>1, <1>2

LEMMA FailsFits ==
    ASSUME TmdbIInv, NEW p \in Procs, op[p].pc # "idle", Fails(p),
           UNCHANGED <<itemVars, cacheVars, job, disk, guards, fresh>>
    PROVE  TmdbIInv'
<1>1. PICK o : op' = [op EXCEPT ![p] = o] /\ OpFits(o, p, disk', guards')
  BY AdvanceFits DEF Fails
<1>. QED BY <1>1, RequestStep

LEMMA FinishFits ==
    ASSUME TmdbIInv, NEW p \in Procs, finish_tmdb_artwork_publication(p)
    PROVE  TmdbIInv'
<1>0. /\ UNCHANGED <<itemVars, cacheVars, job, disk>> /\ guards' = guards \ {p}
      /\ op[p].pc \in {"done", "failed"}
  BY DEF finish_tmdb_artwork_publication
<1>1. CASE op[p].pc = "failed"
  <2>1. PICK o : op' = [op EXCEPT ![p] = o] /\ OpFits(o, p, disk', guards')
    BY <1>1, AdvanceFits DEF finish_tmdb_artwork_publication
  <2>. QED BY <1>0, <1>1, <2>1, RequestStep DEF finish_tmdb_artwork_publication
<1>2. CASE op[p].pc # "failed" /\ Matched /\ "item" \in fresh[p] /\ CastFree
  <2> DEFINE o == [kind |-> "cast", pc |-> "fetch", id |-> item.id, ans |-> NoFields]
  <2>1. item.id \in Bindings
    BY <1>2 DEF Matched, TmdbIInv, ItemFits
  <2>2. OpFits(o, p, disk', guards')
    BY <2>1, Constants DEF OpFits, Operation, Publishes
  <2>3. op' = [op EXCEPT ![p] = o] /\ UNCHANGED fresh
    BY <1>2 DEF finish_tmdb_artwork_publication
  <2>. HIDE DEF o
  <2>. QED BY <1>0, <2>2, <2>3, RequestStep
<1>3. CASE Ends(p)
  BY <1>0, <1>3, EndsFits
<1>. QED BY <1>1, <1>2, <1>3 DEF finish_tmdb_artwork_publication

LEMMA RemoveFits ==
    ASSUME TmdbIInv, NEW p \in Procs, remove_unreferenced_tmdb_artwork_best_effort(p)
    PROVE  TmdbIInv'
<1>1. /\ op' = [op EXCEPT ![p] = Idle] /\ fresh' = [fresh EXCEPT ![p] = {}]
      /\ UNCHANGED <<item, data, epId, ids, row, outline, cast, guards, job>> /\ guards = {}
      /\ disk' = disk \ Removable(TmdbArts({op[p].ans.art}))
  BY DEF remove_unreferenced_tmdb_artwork_best_effort, Ends, itemVars, cacheVars
<1>2. /\ DOMAIN op' = Procs /\ DOMAIN fresh' = Readers /\ fresh'[Job] = fresh[Job]
      /\ \A q \in Procs : op'[q] \in {op[q], Idle}
  BY <1>1, Constants DEF TmdbIInv
<1>. QED BY <1>1, <1>2, RemovalStep

LEMMA WriteStep ==
    ASSUME TmdbIInv, NEW p \in Procs, NEW o, op' = [op EXCEPT ![p] = o], OpFits(o, p, disk, guards),
           UNCHANGED <<disk, guards, job>>,
           ItemFits(item', row', ids', epId'), DataFits(data', disk),
           CastFits(cast'), OutlineFits(outline', disk), DOMAIN fresh' = Readers,
           fresh'[Job] = Levels \cup {"row"} => fresh[Job] = Levels \cup {"row"} /\ item'.id = item.id
    PROVE  TmdbIInv'
<1>1. DOMAIN op' = Procs /\ \A q \in Procs : OpFits(op'[q], q, disk', guards')
  BY OpStep
<1>2. JobFits(job', disk', guards', fresh'[Job], item')
  BY JobStays
<1>. QED BY <1>1, <1>2 DEF TmdbIInv

\* A transaction writes the series and its season for the binding it settles on.
LEMMA SeriesWrites ==
    ASSUME TmdbIInv, NEW p \in Procs, update_media_item_metadata(p), Accepted(p)
    PROVE  TmdbIInv'
<1> DEFINE match == op[p].kind = "match"
           restore == op[p].kind = "restore"
           b == IF restore THEN item.id ELSE op[p].id
           ans == op[p].ans
           base(l) == IF Matched THEN data[l] ELSE Baseline(data[l])
           s == IF restore THEN KeptSnapshot(b)
                ELSE merge_partial_tmdb_ownership_snapshot(b, Incoming(ans, FALSE))
           o == [op[p] EXCEPT !.pc = IF match THEN "season" ELSE "done"]
<1>1. /\ item' = IF b = None THEN item ELSE [id |-> b, status |-> "matched"]
      /\ data' = [data EXCEPT
                     !["item"] = IF match THEN MatchedItem(ans)
                                 ELSE IF restore THEN @
                                 ELSE apply_remote_series_metadata(base("item"), ans),
                     !["season"] = IF match THEN MatchedSeason(ans)
                                   ELSE IF restore THEN @
                                   ELSE apply_remote_episode_outline(base("season"), ans)]
      /\ ids' = (IF restore THEN ids ELSE b)
      /\ mova_sync_tmdb_revalidation_binding(b, s)
      /\ epId' = IF item.id # None /\ epId = item.id /\ b # item.id THEN None ELSE epId
      /\ fresh' = Stale({"item", "season", "row"} \cup (IF epId' = epId THEN {} ELSE {"episode"}), p)
      /\ op' = [op EXCEPT ![p].pc = IF match THEN "season" ELSE "done"]
      /\ UNCHANGED <<disk, guards, job>>
      /\ op[p].pc = "write" /\ op[p].kind \in {"match", "refresh", "restore"}
  BY DEF update_media_item_metadata, clear_superseded_tmdb_series_episode_identity_tx
<1>2. /\ op[p] \in Operation /\ op[p].id \in Bindings /\ ans \in Fields
      /\ ~ restore => AnswerFits(ans, op[p].id) /\ (Provided(ans.art) => ans.art \in disk) /\ p \in guards
  BY <1>1 DEF TmdbIInv, OpFits, Publishes, Operation
<1>3. b \in Bindings \cup {None}
  BY <1>2 DEF TmdbIInv, ItemFits
<1>4. \A l \in Levels : PartFits(s[l], b)
  <2>1. CASE restore
    BY <2>1, KeptSnapshotFits DEF TmdbIInv
  <2>2. CASE ~ restore
    <3>1. PICK e \in Editions : ans = Answers[b][e]
      BY <1>2, <2>2 DEF AnswerFits
    <3>. QED BY <2>2, <3>1, MergedSnapshotFits DEF TmdbIInv
  <2>. QED BY <2>1, <2>2
<1>5. /\ IF b = None THEN row' = NoRow ELSE RowFits(row', b)
      /\ CastFits(cast') /\ OutlineFits(outline', disk)
  <2>. HIDE DEF b, s
  <2>. QED BY <1>1, <1>3, <1>4, TriggerFits
<1>6. ItemFits(item', row', ids', epId') /\ (b = None => restore)
  <2>1. item'.id = b /\ (b = None => restore)
    BY <1>1, <1>2, Constants
  <2>2. ids' \in {None, b} /\ epId' \in {None, b}
    BY <1>1 DEF TmdbIInv, ItemFits
  <2>. HIDE DEF b
  <2>. QED BY <1>3, <1>5, <2>1, <2>2 DEF ItemFits
<1>7. DataFits(data', disk)
  <2>0. /\ data \in [Levels -> Fields] /\ \A l \in Levels : base(l) \in {data[l], Baseline(data[l])}
    BY DEF TmdbIInv, DataFits
  <2>1. CASE restore
    <3>1. data' = data
      BY <1>1, <2>0, <2>1
    <3>. QED BY <3>1 DEF TmdbIInv
  <2>2. CASE ~ restore
    <3> DEFINE d == data'
    <3>1. /\ d = [l \in Levels |-> d[l]] /\ d["episode"] = data["episode"]
          /\ d["item"] \in {MatchedItem(ans), apply_remote_series_metadata(base("item"), ans)}
          /\ d["season"] \in {MatchedSeason(ans), apply_remote_episode_outline(base("season"), ans)}
      BY <1>1, <2>0, <2>2 DEF Levels
    <3>. HIDE DEF ans, d, base
    <3>2. ASSUME NEW l \in Levels
          PROVE  /\ Written(data[l], data[l], ans) /\ Written(MatchedSeason(ans), data[l], ans)
                 /\ Written(apply_remote_series_metadata(base(l), ans), data[l], ans)
                 /\ Written(apply_remote_episode_outline(base(l), ans), data[l], ans)
      <4>1. data[l] \in Fields /\ Baseline(data[l]) \in Fields
        BY <1>2, <2>0, MergesWrite DEF Written
      <4>2. CASE base(l) = data[l]
        BY <1>2, <4>1, <4>2, MergesWrite DEF Written
      <4>3. CASE base(l) = Baseline(data[l])
        BY <1>2, <4>1, <4>3, MergesWrite, WrittenOverBaseline DEF Written
      <4>. QED BY <2>0, <4>2, <4>3
    <3>3. Written(MatchedItem(ans), data["item"], ans)
      BY <1>2, <2>0, MatchedItemWrites
    <3>4. \A l \in Levels : Written(d[l], data[l], ans)
      BY <3>1, <3>2, <3>3 DEF Levels
    <3>5. DataFits(d, disk)
      BY <1>2, <2>2, <3>1, <3>4, DataWrites DEF TmdbIInv
    <3>. QED BY <3>5 DEF d
  <2>. QED BY <2>1, <2>2
<1>8. op' = [op EXCEPT ![p] = o] /\ OpFits(o, p, disk, guards)
  <2>1. op' = [op EXCEPT ![p] = o]
    BY <1>1 DEF TmdbIInv
  <2>2. /\ o \in Operation /\ o.pc = (IF match THEN "season" ELSE "done") /\ o.id = op[p].id
        /\ o.ans = ans /\ o.kind = op[p].kind
    BY <1>2 DEF Operation
  <2>. HIDE DEF o
  <2>. QED BY <1>2, <2>1, <2>2 DEF OpFits, Publishes
<1>9. DOMAIN fresh' = Readers /\ fresh'[Job] # Levels \cup {"row"}
  BY <1>1, StaleFacts, Constants DEF Levels
<1>. HIDE DEF o
<1>. QED BY <1>1, <1>5, <1>6, <1>7, <1>8, <1>9, WriteStep

LEMMA LevelWrites ==
    ASSUME TmdbIInv, NEW p \in Procs, NEW l \in {"season", "episode"}, NEW next \in {"episode", "outline"},
           WriteLevel(p, l, next)
    PROVE  TmdbIInv'
<1>0. /\ op[p].pc = l /\ UNCHANGED <<item, epId, ids, row, outline, cast, disk, guards, job>>
      /\ UNCHANGED cacheVars
  BY DEF WriteLevel, cacheVars, artVars
<1>1. CASE ~ Holds(p)
  BY <1>0, <1>1, FailsFits DEF WriteLevel, itemVars
<1>2. CASE Holds(p)
  <2> DEFINE ans == op[p].ans
             o == [op[p] EXCEPT !.pc = next]
             d == data'
  <2>1. /\ data' = [data EXCEPT ![l] = Coalesced(data[l], ans)] /\ fresh' = Stale({l}, p)
        /\ op' = [op EXCEPT ![p].pc = next]
    BY <1>2 DEF WriteLevel
  <2>2. /\ op[p] \in Operation /\ op[p].id \in Bindings /\ ans \in Fields
        /\ AnswerFits(ans, op[p].id) /\ (Provided(ans.art) => ans.art \in disk) /\ p \in guards
    BY <1>0 DEF TmdbIInv, OpFits, Publishes, Operation
  <2>3. /\ op' = [op EXCEPT ![p] = o] /\ o \in Operation /\ o.pc = next /\ o.id = op[p].id
        /\ o.ans = ans
    BY <2>1, <2>2 DEF TmdbIInv, Operation
  <2>. HIDE DEF o
  <2>4. OpFits(o, p, disk, guards)
    BY <2>2, <2>3 DEF OpFits
  <2>5. DataFits(d, disk)
    <3>0. data \in [Levels -> Fields] /\ l \in Levels
      BY DEF TmdbIInv, DataFits, Levels
    <3>1. /\ d = [k \in Levels |-> d[k]] /\ d[l] = Coalesced(data[l], ans)
          /\ \A k \in Levels : k # l => d[k] = data[k]
      BY <2>1, <3>0
    <3>. HIDE DEF ans, d
    <3>2. \A k \in Levels : Written(d[k], data[k], ans)
      BY <2>2, <3>0, <3>1, MergesWrite DEF Written
    <3>. QED BY <2>2, <3>1, <3>2, DataWrites DEF TmdbIInv
  <2>6. DOMAIN fresh' = Readers /\ fresh'[Job] # Levels \cup {"row"}
    BY <2>1, StaleFacts, Constants DEF Levels
  <2>. QED BY <1>0, <2>3, <2>4, <2>5, <2>6, WriteStep DEF TmdbIInv
<1>. QED BY <1>1, <1>2

LEMMA OutlineWrites ==
    ASSUME TmdbIInv, NEW p \in Procs, cache_remote_outline(p)
    PROVE  TmdbIInv'
<1>0. /\ UNCHANGED <<item, data, epId, ids, row, cast, disk, guards, job>>
      /\ op[p].pc = "outline" \/ (op[p].kind = "outline" /\ op[p].pc = "write")
  BY DEF cache_remote_outline, itemVars, artVars
<1>1. OutlineFits(outline', disk)
  <2>1. CASE Holds(p)
    <3>1. outline' = OutlineEntry(p)
      BY <2>1 DEF cache_remote_outline
    <3>2. op[p].kind = "match" => (Provided(op[p].ans.art) => op[p].ans.art \in disk)
      BY <1>0 DEF TmdbIInv, OpFits, Publishes
    <3>. QED BY <3>1, <3>2, Constants DEF OutlineEntry, OutlineFits
  <2>2. CASE ~ Holds(p)
    BY <2>2 DEF cache_remote_outline, TmdbIInv
  <2>. QED BY <2>1, <2>2
<1>2. PICK o : op' = [op EXCEPT ![p] = o] /\ OpFits(o, p, disk, guards)
  <2>1. CASE Ends(p)
    BY <2>1, IdleFits DEF Ends
  <2>2. CASE op' = [op EXCEPT ![p].pc = "done"] \/ Fails(p)
    BY <1>0, <2>2, AdvanceFits DEF Fails
  <2>. QED BY <2>1, <2>2 DEF cache_remote_outline
<1>3. DOMAIN fresh' = Readers /\ fresh'[Job] = fresh[Job]
  <2>1. UNCHANGED fresh \/ fresh' = [fresh EXCEPT ![p] = {}]
    BY DEF cache_remote_outline, Ends
  <2>. QED BY <2>1, Constants DEF TmdbIInv
<1>. QED BY <1>0, <1>1, <1>2, <1>3, WriteStep DEF TmdbIInv

LEMMA CastWrites ==
    ASSUME TmdbIInv, NEW p \in Procs, replace_media_item_cast(p)
    PROVE  TmdbIInv'
<1>1. /\ op' = [op EXCEPT ![p] = Idle] /\ fresh' = [fresh EXCEPT ![p] = {}]
      /\ UNCHANGED <<item, data, epId, ids, row, outline, disk, guards, job>>
      /\ cast' \in {CastEntry(p), cast}
  BY DEF replace_media_item_cast, Ends, itemVars, artVars
<1>2. CastFits(cast')
  BY <1>1 DEF CastFits, CastEntry, TmdbIInv
<1>3. DOMAIN fresh' = Readers /\ fresh'[Job] = fresh[Job]
  BY <1>1, Constants DEF TmdbIInv
<1>. QED BY <1>1, <1>2, <1>3, IdleFits, WriteStep DEF TmdbIInv

LEMMA RequestFits ==
    ASSUME TmdbIInv, NEW p \in Procs, Request(p)
    PROVE  TmdbIInv'
<1>1. CASE \/ \E b \in Bindings : StartMatch(p, b) \/ StartRefresh(p, b)
           \/ StartOutline(p) \/ StartCast(p)
  <2>1. Matched => item.id \in Bindings
    BY DEF Matched, TmdbIInv, ItemFits
  <2>2. \E b \in Bindings, kind \in {"match", "refresh", "outline", "cast"} : Begin(p, kind, b)
    BY <1>1, <2>1 DEF StartMatch, StartRefresh, StartOutline, StartCast
  <2>. QED BY <2>2, BeginFits
<1>2. CASE Fetch(p) \/ FetchFails(p)
  BY <1>2, FetchFits, FetchFailsFits
<1>3. CASE update_media_item_metadata(p)
  <2>1. CASE ~ Accepted(p)
    BY <1>3, <2>1, FailsFits DEF update_media_item_metadata, cacheVars, itemVars
  <2>. QED BY <1>3, <2>1, SeriesWrites
<1>4. CASE update_series_season_metadata(p) \/ update_series_episode_metadata(p)
  BY <1>4, LevelWrites DEF update_series_season_metadata, update_series_episode_metadata
<1>5. CASE cache_remote_outline(p) \/ replace_media_item_cast(p)
  BY <1>5, OutlineWrites, CastWrites
<1>6. CASE finish_tmdb_artwork_publication(p) \/ remove_unreferenced_tmdb_artwork_best_effort(p)
  BY <1>6, FinishFits, RemoveFits
<1>. QED BY <1>1, <1>2, <1>3, <1>4, <1>5, <1>6 DEF Request

-----------------------------------------------------------------------------
(* Scans, the job, time and crashes.                                       *)

LEMMA WorldStep ==
    ASSUME TmdbIInv, UNCHANGED op, disk \subseteq disk', guards \ {Job} \subseteq guards',
           ItemFits(item', row', ids', epId'), DataFits(data', disk'),
           CastFits(cast'), OutlineFits(outline', disk'), DOMAIN fresh' = Readers,
           JobFits(job', disk', guards', fresh'[Job], item')
    PROVE  TmdbIInv'
<1>1. \A p \in Procs : OpFits(op'[p], p, disk', guards')
  BY Constants DEF TmdbIInv, OpFits
<1>. QED BY <1>1 DEF TmdbIInv

LEMMA ScanWrites ==
    ASSUME TmdbIInv, NEW b \in Bindings, NEW e \in Editions, NEW partial \in BOOLEAN,
           CommitScan(b, e, partial)
    PROVE  TmdbIInv'
<1> DEFINE ans == Answers[b][e]
           look == needs_remote_metadata
           base(l) == IF Matched THEN data[l] ELSE Baseline(data[l])
           s == IF look THEN merge_partial_tmdb_ownership_snapshot(b, Incoming(ans, partial)) ELSE KeptSnapshot(b)
<1>1. /\ item' = [id |-> b, status |-> "matched"] /\ epId' = b
      /\ IF look
         THEN /\ data' = [l \in Levels |->
                    IF l = "item" THEN apply_remote_series_metadata(base(l), ans)
                    ELSE IF partial THEN base(l)
                    ELSE apply_remote_episode_outline(base(l), ans)]
              /\ ids' = b /\ disk' = disk \cup TmdbArts({ans.art})
         ELSE UNCHANGED <<data, ids, disk>>
      /\ mova_sync_tmdb_revalidation_binding(b, s)
      /\ fresh' = Stale(Levels \cup {"row"}, Nobody)
      /\ UNCHANGED <<guards, op, job>>
      /\ Matched => b = item.id
  BY DEF CommitScan
<1>2. ans \in Fields /\ b # None /\ disk \subseteq disk' /\ b \in Bindings \cup {None}
  BY <1>1, AnswersAreFields, Constants
<1>3. \A l \in Levels : PartFits(s[l], b)
  BY KeptSnapshotFits, MergedSnapshotFits DEF TmdbIInv
<1>4. RowFits(row', b) /\ CastFits(cast') /\ OutlineFits(outline', disk')
  <2>. HIDE DEF s
  <2>. QED BY <1>1, <1>2, <1>3, TriggerFits
<1>5. ItemFits(item', row', ids', epId')
  <2>1. ids' \in {None, b}
    <3>1. CASE look
      BY <1>1, <3>1
    <3>2. CASE ~ look
      BY <1>1, <3>2 DEF needs_remote_metadata, TmdbIInv, ItemFits
    <3>. QED BY <3>1, <3>2
  <2>. QED BY <1>1, <1>2, <1>4, <2>1 DEF ItemFits
<1>6. DataFits(data', disk')
  <2>1. CASE ~ look
    BY <1>1, <2>1 DEF TmdbIInv
  <2>2. CASE look
    <3> DEFINE d == data'
    <3>0. data \in [Levels -> Fields] /\ (Provided(ans.art) => ans.art \in disk')
      BY <1>1, <2>2 DEF TmdbIInv, DataFits, TmdbArts
    <3>1. /\ d = [l \in Levels |-> d[l]]
          /\ \A l \in Levels : d[l] \in {apply_remote_series_metadata(base(l), ans), base(l),
                                         apply_remote_episode_outline(base(l), ans)}
      BY <1>1, <2>2
    <3>2. ASSUME NEW l \in Levels PROVE Written(d[l], data[l], ans)
      <4> DEFINE f == base(l)
      <4>0. d[l] \in {apply_remote_series_metadata(f, ans), f, apply_remote_episode_outline(f, ans)}
        BY <3>1
      <4>1. /\ data[l] \in Fields /\ Baseline(data[l]) \in Fields /\ f \in {data[l], Baseline(data[l])}
        BY <1>2, <3>0, MergesWrite DEF Written
      <4>. HIDE DEF d, ans, f
      <4>2. Written(d[l], f, ans)
        <5>1. f \in Fields /\ ans \in Fields
          BY <1>2, <4>1
        <5>2. Written(f, f, ans)
          BY <5>1 DEF Written
        <5>. QED BY <4>0, <5>1, <5>2, MergesWrite
      <4>. QED BY <1>2, <4>1, <4>2, WrittenOverBaseline
    <3>. HIDE DEF d, ans, base
    <3>3. DataFits(d, disk')
      BY <1>2, <3>0, <3>1, <3>2, DataWrites DEF TmdbIInv
    <3>. QED BY <3>3 DEF d
  <2>. QED BY <2>1, <2>2
<1>7. DOMAIN fresh' = Readers /\ fresh'[Job] # Levels \cup {"row"}
  BY <1>1, StaleFacts, Constants
<1>8. JobFits(job', disk', guards', fresh'[Job], item')
  BY <1>1, <1>2, <1>7, JobStays
<1>. QED BY <1>1, <1>2, <1>4, <1>5, <1>6, <1>7, <1>8, WorldStep

LEMMA LocalWrites ==
    ASSUME TmdbIInv, NEW f \in {"title", "text"}, CommitLocal(f)
    PROVE  TmdbIInv'
<1>1. /\ data' = [data EXCEPT !["item"][f] = Local]
      /\ mova_sync_tmdb_revalidation_binding(item.id, KeptSnapshot(item.id))
      /\ fresh' = Stale({"item"}, Nobody)
      /\ UNCHANGED <<item, epId, ids, disk, guards, op, job>>
  BY DEF CommitLocal
<1>2. /\ item.id \in Bindings \cup {None}
      /\ \A l \in Levels : PartFits(KeptSnapshot(item.id)[l], item.id)
  BY KeptSnapshotFits DEF TmdbIInv, ItemFits
<1>3. /\ IF item.id = None THEN row' = NoRow ELSE RowFits(row', item.id)
      /\ CastFits(cast') /\ OutlineFits(outline', disk)
  BY <1>1, <1>2, TriggerFits
<1>4. DataFits(data', disk)
  <2> DEFINE g == [data["item"] EXCEPT ![f] = Local]
  <2>0. data \in [Levels -> Fields] /\ "item" \in Levels /\ data["item"] \in Fields
    BY DEF TmdbIInv, DataFits, Levels
  <2>1. g \in Fields /\ g.art = data["item"].art
    BY <2>0, Constants DEF Fields
  <2>2. data' = [data EXCEPT !["item"] = g]
    BY <1>1, <2>0
  <2>. HIDE DEF g
  <2>. QED BY <2>0, <2>1, <2>2 DEF TmdbIInv, DataFits
<1>5. DOMAIN fresh' = Readers /\ fresh'[Job] # Levels \cup {"row"}
  BY <1>1, StaleFacts, Constants DEF Levels
<1>6. JobFits(job', disk', guards', fresh'[Job], item')
  BY <1>1, <1>5, JobStays
<1>. QED BY <1>1, <1>3, <1>4, <1>5, <1>6, WorldStep DEF TmdbIInv, ItemFits

LEMMA CrashFits ==
    ASSUME TmdbIInv, Crash
    PROVE  TmdbIInv'
<1>1. /\ op' = [p \in Procs |-> Idle] /\ job' = Idle /\ fresh' = [r \in Readers |-> {}]
      /\ UNCHANGED <<item, data, epId, ids, row, outline, cast, disk>>
  BY DEF Crash, itemVars, cacheVars
<1>2. Idle \in JobState /\ Idle.pc = "idle"
  BY Constants DEF Idle, JobState
<1>3. JobFits(job', disk', guards', fresh'[Job], item')
  BY <1>1, <1>2 DEF JobFits
<1>. QED BY <1>1, <1>3, IdleFits DEF TmdbIInv

\* Nothing but the job, and what it holds, changes.
LEMMA JobStep ==
    ASSUME TmdbIInv, UNCHANGED <<itemVars, cacheVars, op>>, disk \subseteq disk',
           guards \ {Job} \subseteq guards', DOMAIN fresh' = Readers,
           JobFits(job', disk', guards', fresh'[Job], item')
    PROVE  TmdbIInv'
<1>1. UNCHANGED <<item, data, epId, ids, row, outline, cast>>
  BY DEF itemVars, cacheVars
<1>2. /\ ItemFits(item', row', ids', epId') /\ DataFits(data', disk')
      /\ CastFits(cast') /\ OutlineFits(outline', disk')
  BY <1>1 DEF TmdbIInv, DataFits, OutlineFits
<1>. QED BY <1>2, WorldStep

LEMMA IdleJobFits ==
    ASSUME NEW files, NEW holders, NEW seen, NEW i
    PROVE  JobFits(Idle, files, holders, seen, i)
  BY Constants DEF JobFits, JobState, Idle

\* What the job read is still as it was, so it is of its binding, and there is a row.
LEMMA TargetIsOfTheJob ==
    ASSUME TmdbIInv, job.pc \in {"lookup", "complete", "expire"}, Unchanged
    PROVE  job.id = item.id /\ item.id \in Bindings /\ RowFits(row, item.id)
  BY Constants DEF TmdbIInv, JobFits, Unchanged, ItemFits

LEMMA VerifiedFits ==
    ASSUME TmdbIInv, complete_tmdb_metadata_revalidation
    PROVE  TmdbIInv'
<1>0. /\ guards' = guards \ {Job} /\ UNCHANGED <<item, epId, disk, op>> /\ job.pc = "complete"
      /\ job \in JobState /\ job.id \in Bindings
      /\ AnswerFits(job.ans, job.id) /\ (Provided(job.ans.art) => job.ans.art \in disk)
  BY DEF complete_tmdb_metadata_revalidation, TmdbIInv, JobFits
<1>1. CASE ~ StillVerifiable
  <2>1. job' = [job EXCEPT !.pc = "remove"] /\ UNCHANGED <<itemVars, cacheVars, fresh>>
    BY <1>0, <1>1 DEF complete_tmdb_metadata_revalidation, itemVars, cacheVars
  <2>2. job' \in JobState /\ job'.pc = "remove" /\ job'.id = job.id
    BY <1>0, <2>1 DEF JobState
  <2>3. JobFits(job', disk', guards', fresh'[Job], item')
    BY <1>0, <2>2 DEF JobFits
  <2>. QED BY <1>0, <2>1, <2>3, JobStep DEF TmdbIInv
<1>2. CASE StillVerifiable
  <2>1. /\ data' = merge_revalidated_seasons(job.ans) /\ ids' = job.id
        /\ cast' = (IF cast = NoCache THEN cast ELSE [id |-> job.id, current |-> TRUE, from |-> job.id])
        /\ outline' = VerifiedOutline /\ row' = VerifiedRow
        /\ fresh' = Stale(Levels \cup {"row"}, Nobody) /\ job' = Idle
    BY <1>2 DEF complete_tmdb_metadata_revalidation
  <2>2. job.id = item.id /\ item.id # None
    BY <1>0, <1>2, TargetIsOfTheJob, Constants DEF StillVerifiable
  <2>3. RowFits(row', job.id)
    <3>1. PICK e \in Editions : job.ans = Answers[job.id][e]
      BY <1>0 DEF AnswerFits
    <3>2. \A l \in Levels : PartFits(Incoming(job.ans, FALSE)[l], job.id)
      BY <3>1, SnapshotsFit
    <3>. QED BY <2>1, <3>2 DEF VerifiedRow, RowFits
  <2>4. ItemFits(item', row', ids', epId')
    BY <1>0, <2>1, <2>2, <2>3 DEF TmdbIInv, ItemFits
  <2>5. DataFits(data', disk')
    <3> DEFINE ans == job.ans
               d == data'
    <3>0. ans \in Fields /\ data \in [Levels -> Fields]
      BY <1>0 DEF JobState, TmdbIInv, DataFits
    <3>1. /\ d = [l \in Levels |-> d[l]]
          /\ \A l \in Levels : d[l] = merge_revalidated(data[l], row.snapshot[l], ans)
      BY <2>1 DEF merge_revalidated_seasons
    <3>2. ASSUME NEW l \in Levels PROVE Written(d[l], data[l], ans)
      <4>1. data[l] \in Fields /\ d[l] = merge_revalidated(data[l], row.snapshot[l], ans)
        BY <3>0, <3>1
      <4>. HIDE DEF ans, d
      <4>. QED BY <3>0, <4>1, RevalidationWrites
    <3>. HIDE DEF d, ans
    <3>3. DataFits(d, disk')
      BY <1>0, <3>0, <3>1, <3>2, DataWrites DEF TmdbIInv, ans
    <3>. QED BY <3>3 DEF d
  <2>6. CastFits(cast') /\ OutlineFits(outline', disk')
    BY <1>0, <2>1 DEF CastFits, OutlineFits, VerifiedOutline
  <2>7. DOMAIN fresh' = Readers
    BY <2>1, StaleFacts, Constants
  <2>8. disk \subseteq disk' /\ guards \ {Job} \subseteq guards' /\ UNCHANGED op
    BY <1>0
  <2>9. JobFits(job', disk', guards', fresh'[Job], item')
    BY <2>1, IdleJobFits
  <2>. QED BY <2>4, <2>5, <2>6, <2>7, <2>8, <2>9, WorldStep
<1>. QED BY <1>1, <1>2

LEMMA ExpiredFits ==
    ASSUME TmdbIInv, expire_tmdb_metadata_retention
    PROVE  TmdbIInv'
<1>0. job' = Idle /\ UNCHANGED <<disk, guards, op>>
  BY DEF expire_tmdb_metadata_retention
<1>1. CASE ~ StillExpired
  <2>1. UNCHANGED <<itemVars, cacheVars, fresh>>
    BY <1>1 DEF expire_tmdb_metadata_retention
  <2>. QED BY <1>0, <2>1, IdleJobFits, JobStep DEF TmdbIInv
<1>2. CASE StillExpired
  <2>1. /\ data' = expire_revalidated_seasons /\ item' = UnboundItem /\ ids' = None
        /\ epId' = (IF epId = item.id THEN None ELSE epId)
        /\ row' = NoRow /\ outline' = NoCache /\ cast' = NoCache
        /\ fresh' = Stale(Levels \cup {"row"}, Nobody)
    BY <1>2 DEF expire_tmdb_metadata_retention
  <2>2. ItemFits(item', row', ids', epId')
    BY <2>1 DEF UnboundItem, ItemFits, TmdbIInv
  <2>3. DataFits(data', disk')
    <3>0. data \in [Levels -> Fields]
      BY DEF TmdbIInv, DataFits
    <3>1. ASSUME NEW l \in Levels
          PROVE  data'[l] \in Fields /\ data'[l].art \in {None, data[l].art}
      BY <2>1, <3>0, Constants DEF expire_revalidated_seasons, expire_revalidated, Fields
    <3>2. data' \in [Levels -> Fields]
      BY <2>1, <3>1 DEF expire_revalidated_seasons
    <3>. QED BY <1>0, <3>1, <3>2, Constants DEF TmdbIInv, DataFits
  <2>4. CastFits(cast') /\ OutlineFits(outline', disk') /\ DOMAIN fresh' = Readers
    BY <2>1, StaleFacts, Constants DEF CastFits, OutlineFits
  <2>5. JobFits(job', disk', guards', fresh'[Job], item')
    BY <1>0, IdleJobFits
  <2>. QED BY <1>0, <2>2, <2>3, <2>4, <2>5, WorldStep
<1>. QED BY <1>1, <1>2

LEMMA RevalidationFits ==
    ASSUME TmdbIInv, Revalidate
    PROVE  TmdbIInv'
<1>0. /\ job \in JobState /\ DOMAIN fresh = Readers /\ DOMAIN op = Procs
      /\ job.pc # "idle" => job.id \in Bindings
  BY DEF TmdbIInv, JobFits
<1>1. CASE enqueue_due_tmdb_metadata_revalidation
  <2> DEFINE j == [Idle EXCEPT !.pc = "queued", !.id = row.id]
  <2>1. /\ job' = j /\ UNCHANGED <<itemVars, cacheVars, op, disk, guards, fresh>>
        /\ row # NoRow /\ row.id = item.id
    BY <1>1 DEF enqueue_due_tmdb_metadata_revalidation, artVars
  <2>2. row.id \in Bindings
    BY <2>1 DEF TmdbIInv, ItemFits
  <2>3. j \in JobState /\ j.pc = "queued" /\ j.id = row.id
    BY <2>2, Constants DEF Idle, JobState
  <2>. HIDE DEF j
  <2>4. JobFits(job', disk', guards', fresh'[Job], item')
    BY <2>1, <2>2, <2>3 DEF JobFits
  <2>. QED BY <1>0, <2>1, <2>4, JobStep
<1>2. CASE get_tmdb_metadata_revalidation_target
  <2>0. /\ UNCHANGED <<itemVars, cacheVars, op, disk, guards>> /\ UNCHANGED item
        /\ job.pc = "queued"
    BY <1>2 DEF get_tmdb_metadata_revalidation_target, artVars, itemVars
  <2>1. CASE job' = Idle /\ UNCHANGED fresh
    BY <1>0, <2>0, <2>1, IdleJobFits, JobStep
  <2>2. CASE ~ (job' = Idle /\ UNCHANGED fresh)
    <3> DEFINE pc == IF now >= row.retain THEN "expire" ELSE "lookup"
               j == [job EXCEPT !.pc = pc]
    <3>1. /\ job' = j /\ fresh' = [fresh EXCEPT ![Job] = Levels \cup {"row"}]
          /\ item.id = job.id
      BY <1>2, <2>2 DEF get_tmdb_metadata_revalidation_target
    <3>2. j \in JobState /\ j.pc \in {"expire", "lookup"} /\ j.id = job.id
      BY <1>0 DEF JobState
    <3>3. DOMAIN fresh' = Readers
      BY <1>0, <3>1
    <3>. HIDE DEF j
    <3>4. JobFits(job', disk', guards', fresh'[Job], item')
      BY <1>0, <2>0, <3>1, <3>2 DEF JobFits
    <3>. QED BY <2>0, <3>3, <3>4, JobStep
  <2>. QED BY <2>1, <2>2
<1>3. CASE defer_tmdb_revalidation_until_retention_deadline
  <2>1. /\ job' = Idle /\ job.pc = "lookup"
        /\ UNCHANGED <<item, data, epId, ids, outline, cast, op, disk, guards, fresh>>
        /\ row' = IF Unchanged /\ Matched THEN [row EXCEPT !.due = row.retain] ELSE row
    BY <1>3 DEF defer_tmdb_revalidation_until_retention_deadline, itemVars, artVars
  <2>2. ItemFits(item', row', ids', epId')
    <3>1. CASE Unchanged /\ Matched
      <4>1. RowFits(row, item.id) /\ item.id # None
        BY <2>1, <3>1, TargetIsOfTheJob DEF Matched
      <4>2. RowFits(row', item.id)
        BY <2>1, <3>1, <4>1 DEF RowFits
      <4>. QED BY <2>1, <4>1, <4>2 DEF TmdbIInv, ItemFits
    <3>2. CASE ~ (Unchanged /\ Matched)
      BY <2>1, <3>2 DEF TmdbIInv
    <3>. QED BY <3>1, <3>2
  <2>3. DataFits(data', disk') /\ CastFits(cast') /\ OutlineFits(outline', disk')
    BY <2>1 DEF TmdbIInv, DataFits, OutlineFits
  <2>. QED BY <1>0, <2>1, <2>2, <2>3, IdleJobFits, WorldStep
<1>4. CASE record_tmdb_metadata_revalidation_failure
  BY <1>0, <1>4, IdleJobFits, JobStep DEF record_tmdb_metadata_revalidation_failure, artVars
<1>5. CASE RevalidationAnswer
  <2>1. PICK e \in Editions :
          /\ job' = [job EXCEPT !.pc = "complete", !.ans = Answers[job.id][e]]
          /\ disk' = disk \cup TmdbArts({Answers[job.id][e].art})
    BY <1>5 DEF RevalidationAnswer
  <2> DEFINE ans == Answers[job.id][e]
             j == [job EXCEPT !.pc = "complete", !.ans = ans]
  <2>2. /\ job.pc = "lookup" /\ guards' = guards \cup {Job} /\ job.id \in Bindings
        /\ UNCHANGED <<itemVars, cacheVars, op, fresh>> /\ UNCHANGED item
    BY <1>0, <1>5 DEF RevalidationAnswer, itemVars, cacheVars
  <2>3. /\ ans \in Fields /\ AnswerFits(ans, job.id)
        /\ Provided(ans.art) => ans.art \in disk'
    BY <2>1, <2>2, AnswersAreFields DEF AnswerFits, TmdbArts
  <2>4. disk \subseteq disk' /\ job' = j
    BY <2>1
  <2>. HIDE DEF ans
  <2>5. j \in JobState /\ j.pc = "complete" /\ j.id = job.id /\ j.ans = ans
    BY <1>0, <2>3 DEF JobState
  <2>. HIDE DEF j
  <2>6. fresh[Job] = Levels \cup {"row"} => job.id = item.id
    BY <2>2 DEF TmdbIInv, JobFits
  <2>7. JobFits(job', disk', guards', fresh'[Job], item')
    BY <2>2, <2>3, <2>4, <2>5, <2>6 DEF JobFits
  <2>. QED BY <1>0, <2>2, <2>4, <2>7, JobStep
<1>6. CASE RevalidationFailsLate
  <2> DEFINE j == [job EXCEPT !.pc = "remove"]
  <2>1. /\ job' = j /\ guards' = guards \ {Job} /\ job.pc = "complete"
        /\ UNCHANGED <<itemVars, cacheVars, op, disk, fresh>>
    BY <1>6 DEF RevalidationFailsLate
  <2>2. j \in JobState /\ j.pc = "remove" /\ j.id = job.id
    BY <1>0 DEF JobState
  <2>. HIDE DEF j
  <2>3. JobFits(job', disk', guards', fresh'[Job], item')
    BY <1>0, <2>1, <2>2 DEF JobFits
  <2>. QED BY <1>0, <2>1, <2>3, JobStep
<1>7. CASE RemoveRejectedAnswer
  <2>1. /\ UNCHANGED <<item, data, epId, ids, row, outline, cast, op, fresh, guards>> /\ guards = {}
        /\ disk' = disk \ Removable(TmdbArts({job.ans.art})) /\ job' = Idle
    BY <1>7 DEF RemoveRejectedAnswer, itemVars, cacheVars
  <2>. QED BY <1>0, <2>1, RemovalStep
<1>8. CASE complete_tmdb_metadata_revalidation \/ expire_tmdb_metadata_retention
  BY <1>8, VerifiedFits, ExpiredFits
<1>. QED BY <1>1, <1>2, <1>3, <1>4, <1>5, <1>6, <1>7, <1>8 DEF Revalidate

LEMMA CleanFits ==
    ASSUME TmdbIInv, Clean
    PROVE  TmdbIInv'
<1>0. DOMAIN fresh = Readers /\ DOMAIN op = Procs
  BY DEF TmdbIInv
<1>1. /\ UNCHANGED <<item, data, epId, ids, row, outline, cast, op, job, fresh, guards>> /\ guards = {}
      /\ \E S : disk' = disk \ Removable(S)
  BY DEF Clean, execute_tmdb_artwork_cleanup, execute_tmdb_artwork_orphan_sweep, itemVars, cacheVars
<1>. QED BY <1>0, <1>1, RemovalStep

LEMMA StillFits ==
    ASSUME TmdbIInv, UNCHANGED <<itemVars, cacheVars, artVars, op, job, fresh>>
    PROVE  TmdbIInv'
  BY DEF TmdbIInv, itemVars, cacheVars, artVars, DataFits, OutlineFits, OpFits, JobFits

LEMMA TmdbStep ==
    ASSUME TmdbIInv, [TmdbNext]_tmdbVars
    PROVE  TmdbIInv'
<1>1. CASE \E p \in Procs : Request(p)
  BY <1>1, RequestFits
<1>2. CASE Environment
  <2>1. CASE StartScan \/ EndScan \/ Tick
    BY <2>1, StillFits DEF StartScan, EndScan, Tick
  <2>2. CASE \E b \in Bindings, e \in Editions, partial \in BOOLEAN : CommitScan(b, e, partial)
    BY <2>2, ScanWrites
  <2>3. CASE \E f \in {"title", "text"} : CommitLocal(f)
    BY <2>3, LocalWrites
  <2>. QED BY <1>2, <2>1, <2>2, <2>3, CrashFits DEF Environment
<1>3. CASE Revalidate \/ Clean
  BY <1>3, RevalidationFits, CleanFits
<1>4. CASE UNCHANGED tmdbVars
  BY <1>4, StillFits DEF tmdbVars
<1>. QED BY <1>1, <1>2, <1>3, <1>4 DEF TmdbNext

LEMMA TmdbStart ==
    ASSUME TmdbInit
    PROVE  TmdbIInv
<1> DEFINE firstEdition == CHOOSE e \in Editions : \A f \in Editions : e <= f
           firstBinding == CHOOSE b \in Bindings : \A c \in Bindings : b <= c
<1>1. firstEdition \in Editions /\ firstBinding \in Bindings
  BY TmdbAssumption
<1>2. PICK b \in {None, firstBinding} :
        LET ans == IF b = None THEN NoFields ELSE Answer(b)
            file == [title |-> Source, text |-> None, art |-> None]
        IN /\ item = [id |-> b, status |-> IF b = None THEN "pending" ELSE "matched"]
           /\ data = [l \in Levels |-> IF l = "item" THEN apply_remote_series_metadata(file, ans)
                                      ELSE apply_remote_episode_outline(file, ans)]
           /\ epId = b /\ ids = b
           /\ row = IF b = None THEN NoRow
                    ELSE [id |-> b, due |-> Due, retain |-> Retain, snapshot |-> Incoming(ans, FALSE)]
           /\ disk = TmdbArts({ans.art})
  BY DEF TmdbInit
<1> DEFINE ans == IF b = None THEN NoFields ELSE Answer(b)
           file == [title |-> Source, text |-> None, art |-> None]
<1>3. /\ b \in Bindings \cup {None}
      /\ b # None => ans = Answers[b][firstEdition]
  BY <1>1, Constants DEF TmdbInit, Answer
<1>4. ans \in Fields /\ file \in Fields
  BY <1>1, <1>3, AnswersAreFields, Constants DEF Fields
<1>5. ItemFits(item, row, ids, epId)
  <2>1. CASE b = None
    BY <1>2, <2>1 DEF ItemFits
  <2>2. CASE b # None
    <3>1. \A l \in Levels : PartFits(Incoming(ans, FALSE)[l], b)
      BY <1>1, <1>3, <2>2, SnapshotsFit
    <3>2. row = [id |-> b, due |-> Due, retain |-> Retain, snapshot |-> Incoming(ans, FALSE)]
      BY <1>2, <2>2
    <3>3. item.id = b /\ ids = b /\ epId = b
      BY <1>2
    <3>. HIDE DEF ans
    <3>4. RowFits(row, b)
      BY <3>1, <3>2 DEF RowFits
    <3>. QED BY <1>3, <2>2, <3>3, <3>4 DEF ItemFits
  <2>. QED BY <2>1, <2>2
<1>6. DataFits(data, disk)
  <2>1. /\ data = [l \in Levels |-> IF l = "item" THEN apply_remote_series_metadata(file, ans)
                                    ELSE apply_remote_episode_outline(file, ans)]
        /\ disk = TmdbArts({ans.art}) /\ file.art = None
    BY <1>2
  <2>. HIDE DEF ans, file
  <2>2. \A l \in Levels : Written(data[l], file, ans)
    BY <1>4, <2>1, MergesWrite
  <2>3. data \in [Levels -> Fields]
    BY <2>1, <2>2 DEF Written
  <2>. QED BY <2>1, <2>2, <2>3, Constants DEF DataFits, Written, TmdbArts
<1>7. CastFits(cast) /\ OutlineFits(outline, disk)
  BY DEF TmdbInit, CastFits, OutlineFits
<1>8. /\ DOMAIN op = Procs /\ \A p \in Procs : OpFits(op[p], p, disk, guards)
      /\ DOMAIN fresh = Readers /\ JobFits(job, disk, guards, fresh[Job], item)
  BY IdleFits, IdleJobFits DEF TmdbInit
<1>. QED BY <1>5, <1>6, <1>7, <1>8 DEF TmdbIInv

-----------------------------------------------------------------------------
(* The theorems.                                                           *)

LEMMA TmdbIInvSuffices ==
    ASSUME TmdbIInv
    PROVE  TmdbInv
<1>1. DerivedDataIsOfTheBinding
  <2>1. /\ IF item.id = None THEN row = NoRow ELSE row # NoRow /\ row.id = item.id
        /\ ids \in {None, item.id} /\ epId \in {None, item.id}
    BY DEF TmdbIInv, ItemFits, RowFits, NoRow
  <2>2. CastServed => cast.from = item.id
    BY DEF TmdbIInv, CastFits, CastServed, Served
  <2>3. ASSUME NEW l \in Levels, row # NoRow, row.snapshot[l].known
        PROVE  \E e \in Editions : row.snapshot[l] = Known(Answers[item.id][e])
    BY <2>3 DEF TmdbIInv, ItemFits, RowFits, PartFits
  <2>. QED BY <2>1, <2>2, <2>3 DEF DerivedDataIsOfTheBinding
<1>2. ReferencedArtworkExists
  <2>1. ASSUME NEW a \in TmdbArts(Arts(data) \cup (IF outline = NoCache THEN {} ELSE {outline.art}))
        PROVE  a \in disk
    <3>1. Provided(a) /\ (a \in Arts(data) \/ (outline # NoCache /\ a = outline.art))
      BY DEF TmdbArts
    <3>. QED BY <3>1 DEF TmdbIInv, DataFits, OutlineFits, Arts
  <2>. QED BY <2>1 DEF ReferencedArtworkExists
<1>. QED BY <1>1, <1>2 DEF TmdbInv

\* Whatever matches, refreshes, scans, the revalidation job, crashes and the removal of
\* artwork do in between each other: the row of the clocks, its snapshot, the external
\* ids, the episode's identity and a served cast are of the present binding, and no image
\* that is shown is missing (mova_sync_tmdb_revalidation_binding, the versions that a
\* write is checked against, the lock that a publication holds).
THEOREM SeriesStaysConsistent == TmdbSpec => []TmdbInv
<1>1. TmdbInit => TmdbIInv
  BY TmdbStart
<1>2. TmdbIInv /\ [TmdbNext]_tmdbVars => TmdbIInv'
  BY TmdbStep
<1>3. TmdbIInv => TmdbInv
  BY TmdbIInvSuffices
<1>. QED BY <1>1, <1>2, <1>3, PTL DEF TmdbSpec

\* What can happen to the row: the trigger, a deferral and a verification write it.
LEMMA RowSteps ==
    ASSUME TmdbIInv, [TmdbNext]_tmdbVars
    PROVE  \/ row' = row \/ row' = NoRow
           \/ \E b, s : mova_sync_tmdb_revalidation_binding(b, s)
           \/ row # NoRow /\ row' = [row EXCEPT !.due = row.retain]
           \/ complete_tmdb_metadata_revalidation /\ StillVerifiable
<1>1. CASE \E p \in Procs : Request(p)
  BY <1>1
     DEF Request, StartMatch, StartRefresh, StartOutline, StartCast, Begin, Fetch, FetchFails,
         update_media_item_metadata, update_series_season_metadata, update_series_episode_metadata,
         WriteLevel, cache_remote_outline, replace_media_item_cast, finish_tmdb_artwork_publication,
         remove_unreferenced_tmdb_artwork_best_effort, cacheVars
<1>2. CASE Environment
  BY <1>2 DEF Environment, StartScan, EndScan, CommitScan, CommitLocal, Tick, Crash, cacheVars
<1>3. CASE Revalidate
  <2>1. CASE defer_tmdb_revalidation_until_retention_deadline /\ Unchanged /\ Matched
    <3>1. RowFits(row, item.id) /\ row' = [row EXCEPT !.due = row.retain]
      BY <2>1, TargetIsOfTheJob DEF defer_tmdb_revalidation_until_retention_deadline
    <3>2. row # NoRow
      BY <3>1 DEF RowFits, NoRow
    <3>. QED BY <3>1, <3>2
  <2>2. CASE complete_tmdb_metadata_revalidation
    BY <2>2 DEF complete_tmdb_metadata_revalidation
  <2>3. CASE ~ (defer_tmdb_revalidation_until_retention_deadline /\ Unchanged /\ Matched)
             /\ ~ complete_tmdb_metadata_revalidation
    BY <1>3, <2>3
       DEF Revalidate, enqueue_due_tmdb_metadata_revalidation, get_tmdb_metadata_revalidation_target,
           defer_tmdb_revalidation_until_retention_deadline, record_tmdb_metadata_revalidation_failure,
           RevalidationAnswer, RevalidationFailsLate, RemoveRejectedAnswer,
           expire_tmdb_metadata_retention, cacheVars
  <2>. QED BY <2>1, <2>2, <2>3
<1>4. CASE Clean \/ UNCHANGED tmdbVars
  BY <1>4 DEF Clean, execute_tmdb_artwork_cleanup, execute_tmdb_artwork_orphan_sweep, cacheVars, tmdbVars
<1>. QED BY <1>1, <1>2, <1>3, <1>4 DEF TmdbNext

\* Scans, matches, refreshes, deferrals and failed look-ups of a binding never extend its
\* retention; only an answer that the job has asked for, and that still meets the data it
\* was asked for, does (complete_tmdb_metadata_revalidation).
THEOREM RetentionIsNotExtended == TmdbSpec => OnlyVerificationRenews
<1>1. TmdbInit => TmdbIInv
  BY TmdbStart
<1>2. TmdbIInv /\ [TmdbNext]_tmdbVars => TmdbIInv'
  BY TmdbStep
<1> DEFINE Renews == row # NoRow /\ row' # NoRow /\ row'.id = row.id /\ row'.retain # row.retain =>
                        job.pc = "complete" /\ now < row.retain
<1>3. TmdbIInv /\ [TmdbNext]_tmdbVars => [Renews]_tmdbVars
  <2> SUFFICES ASSUME TmdbIInv, [TmdbNext]_tmdbVars, row # NoRow, row' # NoRow, row'.id = row.id,
                      row'.retain # row.retain
               PROVE  job.pc = "complete" /\ now < row.retain
    OBVIOUS
  <2>1. DOMAIN row = {"id", "due", "retain", "snapshot"}
    BY DEF TmdbIInv, ItemFits, RowFits
  <2>2. ~ \E b, s : mova_sync_tmdb_revalidation_binding(b, s)
    BY <2>1, TriggerKeepsClocks
  <2>3. row' # [row EXCEPT !.due = row.retain]
    BY <2>1
  <2>4. complete_tmdb_metadata_revalidation /\ StillVerifiable
    BY <2>2, <2>3, RowSteps
  <2>. QED BY <2>4 DEF complete_tmdb_metadata_revalidation, StillVerifiable
<1>. QED BY <1>1, <1>2, <1>3, PTL DEF TmdbSpec, OnlyVerificationRenews

\* What can happen to the binding: only the end of the retention takes it away.
LEMMA BindingSteps ==
    ASSUME TmdbIInv, [TmdbNext]_tmdbVars
    PROVE  \/ item'.id = item.id \/ item'.id # None
           \/ expire_tmdb_metadata_retention /\ StillExpired
<1>1. CASE \E p \in Procs : Request(p)
  <2>1. PICK p \in Procs : Request(p)
    BY <1>1
  <2>2. CASE update_media_item_metadata(p)
    <3>1. item' = item \/ \E b : item' = IF b = None THEN item ELSE [id |-> b, status |-> "matched"]
      <4>1. CASE Accepted(p)
        BY <2>2, <4>1 DEF update_media_item_metadata
      <4>2. CASE ~ Accepted(p)
        BY <2>2, <4>2 DEF update_media_item_metadata, itemVars
      <4>. QED BY <4>1, <4>2
    <3>. QED BY <3>1
  <2>3. CASE ~ update_media_item_metadata(p)
    BY <2>1, <2>3
       DEF Request, StartMatch, StartRefresh, StartOutline, StartCast, Begin, Fetch, FetchFails,
           update_series_season_metadata, update_series_episode_metadata,
           WriteLevel, cache_remote_outline, replace_media_item_cast, finish_tmdb_artwork_publication,
           remove_unreferenced_tmdb_artwork_best_effort, itemVars
  <2>. QED BY <2>2, <2>3
<1>2. CASE Environment
  <2>1. CASE \E b \in Bindings, e \in Editions, partial \in BOOLEAN : CommitScan(b, e, partial)
    <3>1. \E b \in Bindings : item' = [id |-> b, status |-> "matched"]
      BY <2>1 DEF CommitScan
    <3>. QED BY <3>1, Constants
  <2>2. CASE ~ \E b \in Bindings, e \in Editions, partial \in BOOLEAN : CommitScan(b, e, partial)
    BY <1>2, <2>2 DEF Environment, StartScan, EndScan, CommitLocal, Tick, Crash, itemVars
  <2>. QED BY <2>1, <2>2
<1>3. CASE Revalidate
  BY <1>3
     DEF Revalidate, enqueue_due_tmdb_metadata_revalidation, get_tmdb_metadata_revalidation_target,
         defer_tmdb_revalidation_until_retention_deadline, record_tmdb_metadata_revalidation_failure,
         RevalidationAnswer, RevalidationFailsLate, RemoveRejectedAnswer,
         complete_tmdb_metadata_revalidation, expire_tmdb_metadata_retention, itemVars
<1>4. CASE Clean \/ UNCHANGED tmdbVars
  BY <1>4 DEF Clean, execute_tmdb_artwork_cleanup, execute_tmdb_artwork_orphan_sweep, itemVars, tmdbVars
<1>. QED BY <1>1, <1>2, <1>3, <1>4 DEF TmdbNext

\* What remains of a level's fields when the retention ends.
LEMMA ExpiryOfALevel ==
    ASSUME NEW g, NEW snapshot, NEW previous, NEW b \in Bindings, PartFits(previous, b)
    PROVE  LET after == expire_revalidated(g, previous, snapshot = NoSnapshot)
           IN  /\ snapshot # NoSnapshot => \A f \in {"title", "text"} :
                    /\ g[f] = Local => after[f] = Local
                    /\ previous.known /\ Provided(previous[f]) => after[f] # previous[f]
               /\ ~ Provided(after.art)
<1> DEFINE none == snapshot = NoSnapshot
           after == expire_revalidated(g, previous, snapshot = NoSnapshot)
<1>1. previous.known => previous.title # Local /\ previous.text # Local
  <2>1. ASSUME previous.known
        PROVE  \E e \in Editions : previous = Known(Answers[b][e])
    BY <2>1 DEF PartFits
  <2>. QED BY <2>1, AnswersAreFields DEF Known
<1>2. /\ after.title = IF none \/ Owned(previous, "title", g.title) THEN Source ELSE g.title
      /\ after.text = IF none \/ Owned(previous, "text", g.text) THEN None ELSE g.text
      /\ after.art = IF none \/ Provided(g.art) \/ Owned(previous, "art", g.art) THEN None ELSE g.art
  BY DEF expire_revalidated
<1>3. ~ Provided(after.art)
  BY <1>2, Constants
<1>. HIDE DEF after, none
<1>4. ASSUME ~ none
      PROVE  /\ g.title = Local => after.title = Local
             /\ previous.known /\ Provided(previous.title) => after.title # previous.title
  BY <1>1, <1>2, <1>4, Constants DEF Owned
<1>5. ASSUME ~ none
      PROVE  /\ g.text = Local => after.text = Local
             /\ previous.known /\ Provided(previous.text) => after.text # previous.text
  BY <1>1, <1>2, <1>5, Constants DEF Owned
<1>. QED BY <1>3, <1>4, <1>5 DEF after, none

\* When the retention ends, what a user or a local file gave stays, nothing that equals
\* the last answer remains and no artwork of the provider is shown any more
\* (expire_tmdb_metadata_retention).
THEOREM ExpirySparesLocalValues == TmdbSpec => ExpiryKeepsLocalValues
<1>1. TmdbInit => TmdbIInv
  BY TmdbStart
<1>2. TmdbIInv /\ [TmdbNext]_tmdbVars => TmdbIInv'
  BY TmdbStep
<1> DEFINE Spares == item.id # None /\ item'.id = None =>
              \A l \in Levels :
                 /\ row.snapshot # NoSnapshot => \A f \in {"title", "text"} :
                      /\ data[l][f] = Local => data'[l][f] = Local
                      /\ row.snapshot[l].known /\ Provided(row.snapshot[l][f]) =>
                           data'[l][f] # row.snapshot[l][f]
                 /\ ~Provided(data'[l].art)
<1>3. TmdbIInv /\ [TmdbNext]_tmdbVars => [Spares]_tmdbVars
  <2> SUFFICES ASSUME TmdbIInv, [TmdbNext]_tmdbVars, item.id # None, item'.id = None, NEW l \in Levels
               PROVE  /\ row.snapshot # NoSnapshot => \A f \in {"title", "text"} :
                           /\ data[l][f] = Local => data'[l][f] = Local
                           /\ row.snapshot[l].known /\ Provided(row.snapshot[l][f]) =>
                                data'[l][f] # row.snapshot[l][f]
                      /\ ~Provided(data'[l].art)
    OBVIOUS
  <2>1. expire_tmdb_metadata_retention /\ StillExpired
    BY BindingSteps
  <2>2. item.id \in Bindings /\ PartFits(row.snapshot[l], item.id)
    BY <2>1, TargetIsOfTheJob DEF expire_tmdb_metadata_retention, StillExpired, RowFits
  <2> DEFINE after == expire_revalidated(data[l], row.snapshot[l], row.snapshot = NoSnapshot)
  <2>3. data'[l] = after
    BY <2>1 DEF expire_tmdb_metadata_retention, expire_revalidated_seasons
  <2>4. /\ row.snapshot # NoSnapshot => \A f \in {"title", "text"} :
             /\ data[l][f] = Local => after[f] = Local
             /\ row.snapshot[l].known /\ Provided(row.snapshot[l][f]) => after[f] # row.snapshot[l][f]
        /\ ~Provided(after.art)
    BY <2>2, ExpiryOfALevel, Zenon
  <2>. HIDE DEF after
  <2>. QED BY <2>3, <2>4
<1>. QED BY <1>1, <1>2, <1>3, PTL DEF TmdbSpec, ExpiryKeepsLocalValues
=============================================================================
