---------------------------- MODULE TmdbMetadata ----------------------------
(***************************************************************************)
(* The provider's metadata of one series: matching, refreshing and         *)
(* scanning it, the caches derived from its binding, the 150/180 day       *)
(* clocks with their revalidation job, and the artwork files that come and *)
(* go with the references to them.                                         *)
(*                                                                         *)
(* A text is None, Source (what the file name gives), Local (an NFO or a   *)
(* manual value) or the provider's, known by the answer it came from; the  *)
(* other optional fields behave like text, poster, backdrop and logo like  *)
(* art.  A row's updated_at is kept as the set of readers that still see   *)
(* its last version; the file rows are Catalog's.                          *)
(***************************************************************************)
EXTENDS Integers, FiniteSets

CONSTANTS Procs,      \* requests of administrators and viewers
          Bindings,   \* provider ids that fit the series
          Editions, Answers,   \* what the provider says of an id: [title, text, art]
          MaxOps,     \* bound: requests
          MaxTime     \* bound: time, in units in which Due is 150 days and Retain 180

Levels == {"item", "season", "episode"}
Due == 1
Retain == 2
None == 0
Source == 1
Local == 2
Job == 0
Readers == Procs \cup {Job}
Nobody == -1      \* a writer that read nothing before

ASSUME TmdbAssumption ==
    /\ Procs \subseteq Nat \ {0} /\ MaxOps \in Nat /\ MaxTime \in Nat
    /\ Bindings \subseteq Nat \ {0}
    /\ \A S \in {Bindings, Editions} : \E first \in S : \A x \in S : first <= x
    /\ \A b \in Bindings, e \in Editions :   \* a provider's values are above Local
         LET given == Nat \ {1, 2}
         IN  Answers[b][e] \in [title : given, text : given, art : given]

VARIABLES item,      \* binding of the series and its metadata_status
          data,      \* the visible fields of the item, its season, its episode
          epId,      \* the provider id the episode row carries
          ids,       \* the binding the provider's external ids and ratings came from
          row,       \* tmdb_metadata_revalidations
          outline, cast,   \* the caches: binding, whether for the present version, content
          disk,      \* artwork files of the library's tmdb cache
          removals,  \* paths of the durable cleanup jobs
          guards,    \* holders of the shared publication lock
          edition,   \* what the provider presently answers
          now, scan, ops, op, job, fresh

itemVars == <<item, data, epId, ids>>
cacheVars == <<row, outline, cast>>
artVars == <<disk, removals, guards>>
tmdbVars == <<itemVars, cacheVars, artVars, edition, now, scan, ops, op, job, fresh>>

NoRow == [id |-> None]
NoCache == [id |-> None]
NoFields == [title |-> None, text |-> None, art |-> None]
NoSnapshot == [l \in Levels |-> [known |-> FALSE]]
Known(f) == [known |-> TRUE, title |-> f.title, text |-> f.text, art |-> f.art]
Idle == [kind |-> "none", pc |-> "idle", id |-> None, ans |-> NoFields]

Provided(v) == v > Local
Matched == item.id # None /\ item.status = "matched"
Answer(b) == Answers[b][edition[b]]

\* The provider edits its data at any time; an answer is never older than the last.
Asked(b, e) ==
    /\ e = edition[b] \/ (e > edition[b] /\ Answers[b][e] # Answer(b))
    /\ edition' = [edition EXCEPT ![b] = e]

\* An answer about a series has its outline too; a partial one lacks the season.
Incoming(ans, partial) ==
    [l \in Levels |-> IF partial /\ l # "item" THEN [known |-> FALSE] ELSE Known(ans)]

\* Every other reader of the rows L now sees an old version of them.
Stale(L, writer) == [r \in Readers |-> IF r = writer THEN fresh[r] ELSE fresh[r] \ L]

-----------------------------------------------------------------------------
\* References and files

Arts(d) == {d[l].art : l \in Levels} \ {None}

is_artwork_path_referenced(a) ==
    (\E l \in Levels : data[l].art = a) \/ (outline # NoCache /\ outline.art = a)

TmdbArts(S) == {a \in S : Provided(a)}
SnapshotArts(s) == {s[l].art : l \in {k \in Levels : s[k].known}} \ {None}

expiring_provider_artwork_paths == TmdbArts(Arts(data) \cup SnapshotArts(row.snapshot))

-----------------------------------------------------------------------------
\* The trigger on media_items: what a change of binding takes with it

\* Mutant of mova_sync_tmdb_revalidation_binding: every write of a bound item starts
\* the clocks anew.
binding_renews(b, snapshot) ==
    /\ row' = IF b = None THEN NoRow
              ELSE [id |-> b, due |-> now + Due, retain |-> now + Retain, snapshot |-> snapshot]
    /\ outline' = NoCache /\ cast' = NoCache /\ removals' = removals

mova_sync_tmdb_revalidation_binding(b, snapshot) ==
    LET changed == item.id # None /\ b # item.id
        stable == Matched /\ b = item.id
        old(c) == IF c = NoCache THEN c ELSE [c EXCEPT !.current = FALSE]
    IN /\ row' = IF b = None THEN NoRow
                 ELSE IF row = NoRow \/ row.id # b
                      THEN [id |-> b, due |-> now + Due, retain |-> now + Retain, snapshot |-> snapshot]
                      ELSE [row EXCEPT !.snapshot = snapshot]
       /\ IF (item.id # None \/ b # None) /\ ~stable
          THEN /\ outline' = NoCache /\ cast' = NoCache
               /\ removals' = removals \cup TmdbArts(
                    (IF outline = NoCache THEN {} ELSE {outline.art})
                    \cup (IF changed THEN Arts(data) \cup SnapshotArts(row.snapshot) ELSE {}))
          ELSE outline' = old(outline) /\ cast' = old(cast) /\ removals' = removals

\* record_authoritative_tmdb_snapshot_tx never moves the clocks and keeps what a
\* partial answer does not speak of, unless the trigger has just reset the row.
merge_partial_tmdb_ownership_snapshot(b, incoming) ==
    LET previous == IF row # NoRow /\ row.id = b THEN row.snapshot ELSE NoSnapshot
    IN [l \in Levels |-> IF incoming[l].known THEN incoming[l] ELSE previous[l]]

\* The snapshot of a row that is written without an answer.
KeptSnapshot(b) == IF row # NoRow /\ row.id = b THEN row.snapshot ELSE NoSnapshot

clear_superseded_tmdb_series_episode_identity_tx(b) ==
    epId' = IF item.id # None /\ epId = item.id /\ b # item.id THEN None ELSE epId

-----------------------------------------------------------------------------
\* Fields

Or(a, b) == IF a # None THEN a ELSE b

\* A request of a manual match: what the candidate has, else what was there.
MatchedItem(ans) == [title |-> Or(ans.title, data["item"].title),
                     text |-> Or(ans.text, data["item"].text), art |-> ans.art]
MatchedSeason(ans) == [title |-> Or(ans.title, Source), text |-> ans.text, art |-> ans.art]

\* update_series_season_metadata and update_series_episode_metadata
Coalesced(f, ans) == [title |-> Or(ans.title, f.title), text |-> Or(ans.text, f.text), art |-> ans.art]

\* Enrichment takes the provider's title and artwork, and fills what is missing.
apply_remote_series_metadata(f, ans) ==
    [title |-> IF f.title = Local THEN Local ELSE Or(ans.title, f.title), text |-> Or(f.text, ans.text),
     art |-> IF f.art = Local THEN Local ELSE Or(ans.art, f.art)]
apply_remote_episode_outline(f, ans) ==
    [title |-> Or(f.title, ans.title), text |-> Or(f.text, ans.text), art |-> Or(f.art, ans.art)]

\* A carrier that is not bound starts from its file name and its NFO.
Baseline(f) == [title |-> IF f.title = Local THEN Local ELSE Source,
                text |-> IF f.text = Local THEN Local ELSE None,
                art |-> IF f.art = Local THEN Local ELSE None]

merge_title(current, fallback, previous, incoming) ==
    IF current = None \/ (previous.known /\ previous.title = current) THEN Or(incoming, fallback) ELSE current
merge_optional_provider_value(current, known, previous, incoming) ==
    IF current = None \/ (known /\ previous = current) THEN incoming ELSE current
merge_optional_provider_artwork(current, known, previous, incoming) ==
    IF Provided(current) THEN incoming
    ELSE merge_optional_provider_value(current, known, previous, incoming)

merge_revalidated(f, previous, ans) ==
    [title |-> merge_title(f.title, Source, previous, ans.title),
     text |-> merge_optional_provider_value(f.text, previous.known,
                IF previous.known THEN previous.text ELSE None, ans.text),
     art |-> merge_optional_provider_artwork(f.art, previous.known,
                IF previous.known THEN previous.art ELSE None, ans.art)]

\* The item, its seasons and its episodes, each against its part of the snapshot.
merge_revalidated_seasons(ans) == [l \in Levels |-> merge_revalidated(data[l], row.snapshot[l], ans)]

Owned(previous, field, v) == previous.known /\ previous[field] # None /\ previous[field] = v

\* Without any snapshot of the binding nothing can be told apart, and all goes.
expire_revalidated(f, previous, none) ==
    [title |-> IF none \/ Owned(previous, "title", f.title) THEN Source ELSE f.title,
     text |-> IF none \/ Owned(previous, "text", f.text) THEN None ELSE f.text,
     art |-> IF none \/ Provided(f.art) \/ Owned(previous, "art", f.art) THEN None ELSE f.art]

expire_revalidated_seasons ==
    [l \in Levels |-> expire_revalidated(data[l], row.snapshot[l], row.snapshot = NoSnapshot)]

-----------------------------------------------------------------------------
\* Requests: match, refresh, a look at the outline, a look at the cast

Begin(p, kind, b) ==
    /\ op[p].pc = "idle" /\ ops < MaxOps
    /\ \A q \in Procs : q < p => op[q].pc # "idle"     \* requests take the first free name
    /\ ops' = ops + 1
    /\ op' = [op EXCEPT ![p] = [kind |-> kind, pc |-> "fetch", id |-> b, ans |-> NoFields]]
    /\ fresh' = [fresh EXCEPT ![p] = Levels]
    /\ UNCHANGED <<itemVars, cacheVars, artVars, edition, now, scan, job>>

\* Mutations are refused while the registry knows of a scan.
StartMatch(p, b) == ~scan /\ Begin(p, "match", b)

\* An item without a binding is searched for; the search settles on b.
StartRefresh(p, b) == ~scan /\ (Matched => b = item.id) /\ Begin(p, "refresh", b)

Served(c) == c # NoCache /\ c.current /\ Matched /\ c.id = item.id

CastServed == Served(cast)

\* media_cast_inflight: one request per item.
CastFree == \A q \in Procs : op[q].kind # "cast"

StartOutline(p) == Matched /\ ~Served(outline) /\ Begin(p, "outline", item.id)
StartCast(p) == Matched /\ ~CastServed /\ CastFree /\ Begin(p, "cast", item.id)

Ends(p) == op' = [op EXCEPT ![p] = Idle] /\ fresh' = [fresh EXCEPT ![p] = {}]

\* The answer arrives; match and refresh take the publication lock and put its
\* artwork into the cache before they write.
Fetch(p) ==
    /\ op[p].pc = "fetch"
    /\ \E e \in Editions : LET ans == Answers[op[p].id][e] IN
       /\ Asked(op[p].id, e)
       /\ op' = [op EXCEPT ![p].pc = "write", ![p].ans = ans]
       /\ IF op[p].kind \in {"match", "refresh"}
          THEN guards' = guards \cup {p} /\ disk' = disk \cup TmdbArts({ans.art})
          ELSE UNCHANGED <<guards, disk>>
    /\ UNCHANGED <<itemVars, cacheVars, removals, now, scan, ops, job, fresh>>

\* A failed look-up ends the request; a refresh goes on with what is stored.
FetchFails(p) ==
    /\ op[p].pc = "fetch"
    /\ IF op[p].kind = "refresh"
       THEN /\ guards' = guards \cup {p}
            /\ op' = [op EXCEPT ![p].pc = "write", ![p].kind = "restore"]
            /\ UNCHANGED fresh
       ELSE UNCHANGED guards /\ Ends(p)
    /\ UNCHANGED <<itemVars, cacheVars, disk, removals, edition, now, scan, ops, job>>

Fails(p) == op' = [op EXCEPT ![p].pc = "failed"]

Accepted(p) == ~scan /\ "item" \in fresh[p]

\* One transaction: it refuses under a scan of the library or after any other
\* write of the item, and runs the trigger, the snapshot, the seasons and the
\* superseded episodes together.
update_media_item_metadata(p) ==
    LET b == IF op[p].kind = "restore" THEN item.id ELSE op[p].id
        ans == op[p].ans
        match == op[p].kind = "match"
        base(l) == IF Matched THEN data[l] ELSE Baseline(data[l])
    IN /\ op[p].pc = "write" /\ op[p].kind \in {"match", "refresh", "restore"}
       /\ IF ~Accepted(p)
          THEN Fails(p) /\ UNCHANGED <<itemVars, cacheVars, removals, fresh>>
          ELSE /\ item' = IF b = None THEN item ELSE [id |-> b, status |-> "matched"]
               /\ data' = [data EXCEPT
                     !["item"] = IF match THEN MatchedItem(ans)
                                 ELSE IF op[p].kind = "restore" THEN @
                                 ELSE apply_remote_series_metadata(base("item"), ans),
                     !["season"] = IF match THEN MatchedSeason(ans)
                                   ELSE IF op[p].kind = "restore" THEN @
                                   ELSE apply_remote_episode_outline(base("season"), ans)]
               /\ ids' = IF op[p].kind = "restore" THEN ids ELSE b
               /\ mova_sync_tmdb_revalidation_binding(b,
                     IF op[p].kind = "restore" THEN KeptSnapshot(b)
                     ELSE merge_partial_tmdb_ownership_snapshot(b, Incoming(ans, FALSE)))
               /\ clear_superseded_tmdb_series_episode_identity_tx(b)
               /\ fresh' = Stale({"item", "season", "row"} \cup (IF epId' = epId THEN {} ELSE {"episode"}), p)
               /\ op' = [op EXCEPT ![p].pc = IF match THEN "season" ELSE "done"]
       /\ UNCHANGED <<disk, guards, edition, now, scan, ops, job>>

\* The version of the item that the request wrote is still the present one.
Holds(p) == "item" \in fresh[p] /\ Matched /\ item.id = op[p].id

WriteLevel(p, l, next) ==
    /\ op[p].pc = l
    /\ IF Holds(p)
       THEN /\ data' = [data EXCEPT ![l] = Coalesced(@, op[p].ans)]
            /\ fresh' = Stale({l}, p)
            /\ op' = [op EXCEPT ![p].pc = next]
       ELSE Fails(p) /\ UNCHANGED <<data, fresh>>
    /\ UNCHANGED <<item, epId, ids, cacheVars, artVars, edition, now, scan, ops, job>>

update_series_season_metadata(p) == WriteLevel(p, "season", "episode")
update_series_episode_metadata(p) == WriteLevel(p, "episode", "outline")

\* The outline of a match points at cached files, that of a page view at URLs.
OutlineEntry(p) == [id |-> op[p].id, current |-> TRUE,
                    art |-> IF op[p].kind = "match" THEN op[p].ans.art ELSE None]

cache_remote_outline(p) ==
    /\ op[p].pc = "outline" \/ (op[p].kind = "outline" /\ op[p].pc = "write")
    /\ IF Holds(p)
       THEN /\ outline' = OutlineEntry(p)
            /\ IF op[p].kind = "match" THEN op' = [op EXCEPT ![p].pc = "done"] /\ UNCHANGED fresh ELSE Ends(p)
       ELSE /\ IF op[p].kind = "match" THEN Fails(p) /\ UNCHANGED fresh ELSE Ends(p)
            /\ UNCHANGED outline
    /\ UNCHANGED <<itemVars, row, cast, artVars, edition, now, scan, ops, job>>

\* What was fetched for a binding or a version that is gone is discarded.
CastEntry(p) == [id |-> op[p].id, current |-> TRUE, from |-> op[p].id]

replace_media_item_cast(p) ==
    /\ op[p].kind = "cast" /\ op[p].pc = "write"
    /\ cast' = IF Holds(p) THEN CastEntry(p) ELSE cast
    /\ Ends(p)
    /\ UNCHANGED <<itemVars, row, outline, artVars, edition, now, scan, ops, job>>

\* The lock is released; a request that wrote goes on to the cast, one that did
\* not removes what it put into the cache.
finish_tmdb_artwork_publication(p) ==
    /\ op[p].pc \in {"done", "failed"}
    /\ guards' = guards \ {p}
    /\ IF op[p].pc = "failed"
       THEN /\ op' = [op EXCEPT ![p].pc = "remove"] /\ UNCHANGED fresh
       ELSE IF Matched /\ "item" \in fresh[p] /\ CastFree
       THEN /\ op' = [op EXCEPT ![p] = [kind |-> "cast", pc |-> "fetch", id |-> item.id, ans |-> NoFields]]
            /\ UNCHANGED fresh
       ELSE Ends(p)
    /\ UNCHANGED <<itemVars, cacheVars, disk, removals, edition, now, scan, ops, job>>

\* Mutant of Removable: references are not looked up.
RemovableUnchecked(S) == S
Removable(S) == {a \in S : ~is_artwork_path_referenced(a)}

\* Under the exclusive lock, in the request itself.
remove_unreferenced_tmdb_artwork_best_effort(p) ==
    /\ op[p].pc = "remove" /\ guards = {}
    /\ disk' = disk \ Removable(TmdbArts({op[p].ans.art}))
    /\ Ends(p)
    /\ UNCHANGED <<itemVars, cacheVars, removals, guards, edition, now, scan, ops, job>>

-----------------------------------------------------------------------------
\* Scans, provider, time, crash

StartScan == ~scan /\ ops < MaxOps /\ scan' = TRUE /\ ops' = ops + 1
             /\ UNCHANGED <<itemVars, cacheVars, artVars, edition, now, op, job, fresh>>
EndScan == scan /\ scan' = FALSE
           /\ UNCHANGED <<itemVars, cacheVars, artVars, edition, now, ops, op, job, fresh>>

needs_remote_metadata == ~Matched \/ \E l \in {"item", "season"} : data[l].text = None \/ data[l].art = None

\* A group of the scan is enriched and committed under its own publication lock;
\* the answer may lack the season's outline.  Without a look-up nothing changes
\* but the version.
CommitScan(b, e, partial) ==
    LET ans == Answers[b][e]
        look == needs_remote_metadata
        base(l) == IF Matched THEN data[l] ELSE Baseline(data[l])
    IN /\ scan /\ (Matched => b = item.id)
       /\ Asked(b, e) /\ (~look => e = edition[b] /\ ~partial)
       /\ scan' = FALSE
       /\ item' = [id |-> b, status |-> "matched"] /\ epId' = b
       /\ IF look
          THEN /\ data' = [l \in Levels |->
                     IF l = "item" THEN apply_remote_series_metadata(base(l), ans)
                     ELSE IF partial THEN base(l)
                     ELSE apply_remote_episode_outline(base(l), ans)]
               /\ ids' = b /\ disk' = disk \cup TmdbArts({ans.art})
               /\ mova_sync_tmdb_revalidation_binding(b,
                     merge_partial_tmdb_ownership_snapshot(b, Incoming(ans, partial)))
          ELSE /\ UNCHANGED <<data, ids, disk>>
               /\ mova_sync_tmdb_revalidation_binding(b, KeptSnapshot(b))
       /\ fresh' = Stale(Levels \cup {"row"}, Nobody)
       /\ UNCHANGED <<guards, now, ops, op, job>>

\* An NFO is found beside a carrier and projected over the item.
CommitLocal(f) ==
    /\ scan /\ data["item"][f] # Local
    /\ scan' = FALSE
    /\ data' = [data EXCEPT !["item"][f] = Local]
    /\ mova_sync_tmdb_revalidation_binding(item.id, KeptSnapshot(item.id))
    /\ fresh' = Stale({"item"}, Nobody)
    /\ UNCHANGED <<item, epId, ids, disk, guards, edition, now, ops, op, job>>

\* A unit of time is months; a request ends within minutes, the job may be caught.
Tick ==
    /\ now < MaxTime /\ now' = now + 1
    /\ \A p \in Procs : op[p] = Idle
    /\ UNCHANGED <<itemVars, cacheVars, artVars, edition, scan, ops, op, job, fresh>>

\* The process ends: requests and the job's attempt are gone, their locks too.
Crash ==
    /\ ops < MaxOps /\ ops' = ops + 1
    /\ job # Idle \/ \E p \in Procs : op[p] # Idle
    /\ op' = [p \in Procs |-> Idle] /\ job' = Idle /\ fresh' = [r \in Readers |-> {}]
    /\ guards' = {} /\ scan' = FALSE
    /\ UNCHANGED <<itemVars, cacheVars, disk, removals, edition, now>>

-----------------------------------------------------------------------------
\* The durable jobs

\* Also the daily sweep for files nobody ever referred to, which waits 180 days.
execute_tmdb_artwork_cleanup ==
    /\ removals # {} /\ guards = {}
    /\ disk' = disk \ Removable(removals) /\ removals' = {}
    /\ UNCHANGED <<itemVars, cacheVars, guards, edition, now, scan, ops, op, job, fresh>>

execute_tmdb_artwork_orphan_sweep ==
    /\ now >= Retain /\ guards = {} /\ Removable(disk) # {}
    /\ disk' = disk \ Removable(disk)
    /\ UNCHANGED <<itemVars, cacheVars, removals, guards, edition, now, scan, ops, op, job, fresh>>

enqueue_due_tmdb_metadata_revalidation ==
    /\ job.pc = "idle" /\ row # NoRow /\ row.id = item.id /\ ~scan
    /\ row.retain <= now \/ (Matched /\ row.due <= now)
    /\ job' = [Idle EXCEPT !.pc = "queued", !.id = row.id]
    /\ UNCHANGED <<itemVars, cacheVars, artVars, edition, now, scan, ops, op, fresh>>

\* Mutant of get_tmdb_metadata_revalidation_target: the deadline is not looked at.
target_never_expires ==
    /\ job.pc = "queued"
    /\ IF row = NoRow \/ row.id # job.id \/ item.id # job.id
       THEN job' = Idle /\ UNCHANGED fresh
       ELSE /\ job' = [job EXCEPT !.pc = "lookup"]
            /\ fresh' = [fresh EXCEPT ![Job] = Levels \cup {"row"}]
    /\ UNCHANGED <<itemVars, cacheVars, artVars, edition, now, scan, ops, op>>

\* The target is read with its versions; a job of a binding that is gone, or that
\* is not due any more, ends.
get_tmdb_metadata_revalidation_target ==
    /\ job.pc = "queued"
    /\ LET eligible == row # NoRow /\ row.id = job.id /\ item.id = job.id IN
       IF ~eligible \/ (row.due > now /\ row.retain > now)
       THEN job' = Idle /\ UNCHANGED fresh
       ELSE /\ job' = [job EXCEPT !.pc = IF now >= row.retain THEN "expire" ELSE "lookup"]
            /\ fresh' = [fresh EXCEPT ![Job] = Levels \cup {"row"}]
    /\ UNCHANGED <<itemVars, cacheVars, artVars, edition, now, scan, ops, op>>

Unchanged == fresh[Job] = Levels \cup {"row"}

\* Without a token the next attempt is the deadline.
defer_tmdb_revalidation_until_retention_deadline ==
    /\ job.pc = "lookup" /\ job' = Idle
    /\ row' = IF Unchanged /\ Matched THEN [row EXCEPT !.due = row.retain] ELSE row
    /\ UNCHANGED <<itemVars, outline, cast, artVars, edition, now, scan, ops, op, fresh>>

\* A failed look-up is tried again after minutes to a day, below the unit of time.
record_tmdb_metadata_revalidation_failure ==
    /\ job.pc = "lookup" /\ job' = Idle
    /\ UNCHANGED <<itemVars, cacheVars, artVars, edition, now, scan, ops, op, fresh>>

RevalidationAnswer ==
    /\ job.pc = "lookup"
    /\ \E e \in Editions :
         /\ Asked(job.id, e)
         /\ job' = [job EXCEPT !.pc = "complete", !.ans = Answers[job.id][e]]
         /\ disk' = disk \cup TmdbArts({Answers[job.id][e].art})
    /\ guards' = guards \cup {Job}
    /\ UNCHANGED <<itemVars, cacheVars, removals, now, scan, ops, op, fresh>>

\* An outline, a cast or an artwork cannot be had: nothing is written.
RevalidationFailsLate ==
    /\ job.pc = "complete" /\ guards' = guards \ {Job}
    /\ job' = [job EXCEPT !.pc = "remove"]
    /\ UNCHANGED <<itemVars, cacheVars, disk, removals, edition, now, scan, ops, op, fresh>>

\* Item, row, seasons and episodes are locked and counted before anything is written.
StillVerifiable == Unchanged /\ Matched /\ now < row.retain

VerifiedRow == [id |-> job.id, due |-> now + Due, retain |-> now + Retain,
                snapshot |-> Incoming(job.ans, FALSE)]
VerifiedOutline == [id |-> job.id, current |-> TRUE, art |-> job.ans.art]

complete_tmdb_metadata_revalidation ==
    /\ job.pc = "complete"
    /\ guards' = guards \ {Job}
    /\ IF StillVerifiable
       THEN /\ data' = merge_revalidated_seasons(job.ans)
            /\ ids' = job.id
            /\ cast' = IF cast = NoCache THEN cast ELSE [id |-> job.id, current |-> TRUE, from |-> job.id]
            /\ outline' = VerifiedOutline /\ row' = VerifiedRow
            /\ removals' = removals \cup expiring_provider_artwork_paths
            /\ fresh' = Stale(Levels \cup {"row"}, Nobody)
            /\ job' = Idle
       ELSE /\ job' = [job EXCEPT !.pc = "remove"]
            /\ UNCHANGED <<data, ids, cast, outline, row, removals, fresh>>
    /\ UNCHANGED <<item, epId, disk, edition, now, scan, ops, op>>

RemoveRejectedAnswer ==
    /\ job.pc = "remove" /\ guards = {}
    /\ disk' = disk \ Removable(TmdbArts({job.ans.art})) /\ job' = Idle
    /\ UNCHANGED <<itemVars, cacheVars, removals, guards, edition, now, scan, ops, op, fresh>>

\* Mutant of expire_tmdb_metadata_retention: all fields are cleared.
expire_all ==
    /\ job.pc = "expire" /\ job' = Idle
    /\ IF Unchanged /\ now >= row.retain
       THEN /\ data' = [l \in Levels |-> [title |-> Source, text |-> None, art |-> None]]
            /\ epId' = IF epId = item.id THEN None ELSE epId
            /\ item' = [id |-> None, status |-> "pending"] /\ ids' = None
            /\ row' = NoRow /\ outline' = NoCache /\ cast' = NoCache
            /\ removals' = removals \cup expiring_provider_artwork_paths
            /\ fresh' = Stale(Levels \cup {"row"}, Nobody)
       ELSE UNCHANGED <<itemVars, cacheVars, removals, fresh>>
    /\ UNCHANGED <<disk, guards, edition, now, scan, ops, op>>

StillExpired == Unchanged /\ now >= row.retain
UnboundItem == [id |-> None, status |-> "pending"]

expire_tmdb_metadata_retention ==
    /\ job.pc = "expire" /\ job' = Idle
    /\ IF StillExpired
       THEN /\ data' = expire_revalidated_seasons
            /\ epId' = IF epId = item.id THEN None ELSE epId
            /\ item' = UnboundItem /\ ids' = None
            /\ row' = NoRow /\ outline' = NoCache /\ cast' = NoCache
            /\ removals' = removals \cup expiring_provider_artwork_paths
            /\ fresh' = Stale(Levels \cup {"row"}, Nobody)
       ELSE UNCHANGED <<itemVars, cacheVars, removals, fresh>>
    /\ UNCHANGED <<disk, guards, edition, now, scan, ops, op>>

-----------------------------------------------------------------------------

\* The series is new, or the first scan has matched it.
TmdbInit ==
    /\ edition = [b \in Bindings |-> CHOOSE e \in Editions : \A f \in Editions : e <= f]
    /\ \E b \in {None, CHOOSE b \in Bindings : \A c \in Bindings : b <= c} :
         LET ans == IF b = None THEN NoFields ELSE Answer(b)
             file == [title |-> Source, text |-> None, art |-> None]
         IN /\ item = [id |-> b, status |-> IF b = None THEN "pending" ELSE "matched"]
            /\ data = [l \in Levels |-> IF l = "item" THEN apply_remote_series_metadata(file, ans)
                                       ELSE apply_remote_episode_outline(file, ans)]
            /\ epId = b /\ ids = b
            /\ row = IF b = None THEN NoRow
                     ELSE [id |-> b, due |-> Due, retain |-> Retain, snapshot |-> Incoming(ans, FALSE)]
            /\ disk = TmdbArts({ans.art})
    /\ outline = NoCache /\ cast = NoCache /\ removals = {} /\ guards = {}
    /\ now = 0 /\ scan = FALSE /\ ops = 0
    /\ op = [p \in Procs |-> Idle] /\ job = Idle /\ fresh = [r \in Readers |-> {}]

Request(p) ==
    \/ \E b \in Bindings : StartMatch(p, b) \/ StartRefresh(p, b)
    \/ StartOutline(p) \/ StartCast(p) \/ Fetch(p) \/ FetchFails(p)
    \/ update_media_item_metadata(p) \/ update_series_season_metadata(p)
    \/ update_series_episode_metadata(p) \/ cache_remote_outline(p)
    \/ replace_media_item_cast(p) \/ finish_tmdb_artwork_publication(p)
    \/ remove_unreferenced_tmdb_artwork_best_effort(p)

Proceed(p) == \/ Fetch(p) \/ FetchFails(p) \/ update_media_item_metadata(p)
              \/ update_series_season_metadata(p) \/ update_series_episode_metadata(p)
              \/ cache_remote_outline(p) \/ replace_media_item_cast(p)
              \/ finish_tmdb_artwork_publication(p) \/ remove_unreferenced_tmdb_artwork_best_effort(p)

Environment ==
    \/ StartScan \/ EndScan \/ (\E b \in Bindings, e \in Editions, partial \in BOOLEAN : CommitScan(b, e, partial))
    \/ (\E f \in {"title", "text"} : CommitLocal(f))
    \/ Tick \/ Crash

Revalidate ==
    \/ enqueue_due_tmdb_metadata_revalidation \/ get_tmdb_metadata_revalidation_target
    \/ defer_tmdb_revalidation_until_retention_deadline \/ record_tmdb_metadata_revalidation_failure
    \/ RevalidationAnswer \/ RevalidationFailsLate \/ complete_tmdb_metadata_revalidation \/ RemoveRejectedAnswer
    \/ expire_tmdb_metadata_retention

Clean == execute_tmdb_artwork_cleanup \/ execute_tmdb_artwork_orphan_sweep

TmdbNext == (\E p \in Procs : Request(p)) \/ Environment \/ Revalidate \/ Clean

TmdbSpec == TmdbInit /\ [][TmdbNext]_tmdbVars

\* The scheduler polls and runs its jobs, requests go on, scans end.
TmdbFairSpec ==
    /\ TmdbSpec /\ WF_tmdbVars(Revalidate) /\ WF_tmdbVars(execute_tmdb_artwork_cleanup)
    /\ WF_tmdbVars(EndScan) /\ \A p \in Procs : WF_tmdbVars(Proceed(p))

-----------------------------------------------------------------------------
\* Properties

\* Everything derived from a binding belongs to the present one: the revalidation
\* row, the provider's ids and ratings, the episode's identity, and whatever
\* outline or cast is served, in whatever order requests, scans and the job wrote.
DerivedDataIsOfTheBinding ==
    /\ IF item.id = None THEN row = NoRow ELSE row # NoRow /\ row.id = item.id
    /\ ids \in {None, item.id} /\ epId \in {None, item.id}
    /\ CastServed => cast.from = item.id
    /\ \A l \in Levels : row # NoRow /\ row.snapshot[l].known =>
          \E e \in Editions : row.snapshot[l] = Known(Answers[item.id][e])

\* Every artwork file a row or the cached outline points at is on disk, though
\* failed requests, jobs and sweeps remove files at any time.
ReferencedArtworkExists ==
    TmdbArts(Arts(data) \cup (IF outline = NoCache THEN {} ELSE {outline.art})) \subseteq disk

\* Whatever requests, scans, the job and the sweep of artwork do at the same time, an
\* item is of one binding only, and every image it shows is there.
TmdbInv == DerivedDataIsOfTheBinding /\ ReferencedArtworkExists

\* When the retention ends, what an NFO or a user gave stays (unless nothing tells
\* it apart) and nothing that equals the last answer remains, nor any artwork.
ExpiryKeepsLocalValues ==
    [][item.id # None /\ item'.id = None =>
         \A l \in Levels :
            /\ row.snapshot # NoSnapshot => \A f \in {"title", "text"} :
                 /\ data[l][f] = Local => data'[l][f] = Local
                 /\ row.snapshot[l].known /\ Provided(row.snapshot[l][f]) =>
                      data'[l][f] # row.snapshot[l][f]
            /\ ~Provided(data'[l].art)]_tmdbVars

\* The clocks of a binding move only when the job has asked the provider about it;
\* scans, matches and refreshes of the same binding never extend its retention.
OnlyVerificationRenews ==
    [][row # NoRow /\ row' # NoRow /\ row'.id = row.id /\ row'.retain # row.retain =>
         job.pc = "complete" /\ now < row.retain]_tmdbVars

\* Data that outlives its retention is given up: the job gets to it whatever
\* requests and scans come in between.
RetentionEnds == (row # NoRow /\ now >= row.retain) ~> (row = NoRow \/ now < row.retain)

=============================================================================
