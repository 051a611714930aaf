------------------------------ MODULE Catalog ------------------------------
(***************************************************************************)
(* The catalog of one library as scans write it: files, the movies and     *)
(* episodes they belong to, the series and seasons above the episodes, the *)
(* provider identity each work is bound to, and the records of users that  *)
(* have to follow the files when works are found to be one and the same.   *)
(*                                                                         *)
(* Every operation is one transaction, a function from db to db; a commit  *)
(* that would break a deferred key or a unique index leaves db as it was.  *)
(* A work's local name (source title and year) is one value of Keys.       *)
(***************************************************************************)
EXTENDS Playback, Sequences, SequencesExt, FiniteSetsExt

CONSTANTS Keys, Bindings, NoBinding,
          Coordinates     \* path -> <<season, episode>>

ASSUME CatalogAssumption ==
    /\ NoBinding \notin Bindings
    /\ Coordinates \in [Paths -> Nat \X Nat]

VARIABLES db,
          now,
          last   \* the last transaction: kept (no answer of a provider was at hand),
                 \* reconciled, refused by the database, or done

catalogVars == <<db, now, last>>

NoRow == [type |-> "none", key |-> "none", binding |-> NoBinding, status |-> "none",
          series |-> NoItem, at |-> <<>>]

Of(d, type) == {i \in Items : d.items[i].type = type}
FilesOf(d, i) == {p \in Paths : d.files[p] = i}
Seasons(d, s) == {n \in d.seasons : n[1] = s}
EpisodesOf(d, s) == {i \in Of(d, "episode") : d.items[i].series = s}
HasFiles(d, s) == \E i \in EpisodesOf(d, s) : FilesOf(d, i) # {}
NewId(d) == Min(Of(d, "none"))

CatalogInit ==
    /\ db = [items |-> [i \in Items |-> NoRow],
             seasons |-> {},
             files |-> [p \in Paths |-> NoItem],
             progress |-> [u \in Users |-> [i \in Items |-> NoProgress]],
             watching |-> [u \in Users |-> [i \in Items |-> NotWatching]]]
    /\ now = 0 /\ last = "done"

-----------------------------------------------------------------------------
\* Deletes and what they cascade to

delete_media_items(d, S) ==
    LET gone == {p \in Paths : d.files[p] \in S} IN
    IF S = {} THEN d ELSE
    [items |-> [i \in Items |->
                  IF i \in S THEN NoRow
                  ELSE IF d.items[i].series \in S THEN [d.items[i] EXCEPT !.series = NoItem]
                  ELSE d.items[i]],
     seasons |-> {n \in d.seasons : n[1] \notin S},
     files |-> [p \in Paths |-> IF p \in gone THEN NoItem ELSE d.files[p]],
     progress |-> [u \in Users |-> [i \in Items |->
                     IF i \in S THEN NoProgress
                     ELSE IF d.progress[u][i].file \in gone
                          THEN [d.progress[u][i] EXCEPT !.file = NoFile]
                     ELSE d.progress[u][i]]],
     watching |-> [u \in Users |-> [i \in Items |->
                     IF i \in S \/ d.watching[u][i].last \in S
                     THEN NotWatching ELSE d.watching[u][i]]]]

\* on delete set null (last_media_file_id)
delete_media_file(d, p) ==
    [d EXCEPT !.files[p] = NoItem,
              !.progress = [u \in Users |-> [i \in Items |->
                  IF @[u][i].file = p THEN [@[u][i] EXCEPT !.file = NoFile] ELSE @[u][i]]]]

series_of_episode_has_files(d, i) ==
    d.items[i].series # NoItem /\ HasFiles(d, d.items[i].series)

\* Mutant of cleanup_media_item_if_no_files: what somebody watched is kept.
cleanup_unwatched_media_item(d, i) ==
    IF \/ FilesOf(d, i) # {} \/ series_of_episode_has_files(d, i)
       \/ \E u \in Users : Watched(d, u, i)
    THEN d ELSE delete_media_items(d, {i})

cleanup_media_item_if_no_files(d, i) ==
    IF FilesOf(d, i) # {} \/ series_of_episode_has_files(d, i) THEN d
    ELSE delete_media_items(d, {i})

delete_media_file_and_cleanup_item(d, p) ==
    cleanup_media_item_if_no_files(delete_media_file(d, p), d.files[p])

delete_media_file_and_drop_empty_item(d, p) ==
    LET dropped == delete_media_file(d, p) IN
    IF FilesOf(dropped, d.files[p]) # {} THEN dropped
    ELSE delete_media_items(dropped, {d.files[p]})

delete_fileless_episodes_of_fileless_series(d) ==
    delete_media_items(d, {i \in Of(d, "episode") :
        d.items[i].series # NoItem /\ ~HasFiles(d, d.items[i].series)})

cleanup_orphan_series_structure(d) ==
    LET kept == [d EXCEPT !.seasons = {n \in @ : \E i \in EpisodesOf(d, n[1]) :
                                                     d.items[i].at[1] = n[2]}]
    IN  delete_media_items(kept, {s \in Of(kept, "series") : Seasons(kept, s) = {}})

-----------------------------------------------------------------------------
(***************************************************************************)
(* A scan group is one work: its local name, the identity and the status   *)
(* the stage arrived at, whether it replaces remote data, whether the      *)
(* provider failed, whether a selected NFO owns its name, and its files.   *)
(***************************************************************************)

\* status = 'matched' with a provider and an id
existing_media_item_has_accepted_remote_binding(d, i) ==
    d.items[i].status = "matched" /\ d.items[i].binding # NoBinding

existing_media_item_is_matched(d, i) == d.items[i].status = "matched"

\* Mutant of should_preserve_existing_parent: only a provider error preserves.
preserve_on_error(stage, g) == g.outage

should_preserve_existing_parent(stage, g) ==
    stage = "local" \/ ~g.replace \/ g.outage

apply_local_metadata_projection(d, i, g) ==
    IF g.nfo THEN [d EXCEPT !.items[i].key = g.key] ELSE d

update_media_item_from_entry(d, i, g) ==
    [d EXCEPT !.items[i] = [@ EXCEPT !.type = g.type, !.key = g.key,
                                     !.binding = g.binding, !.status = g.status]]

update_existing_media_item_from_entry(d, i, g, preserve) ==
    IF preserve /\ existing_media_item_has_accepted_remote_binding(d, i)
    THEN apply_local_metadata_projection(d, i, g)
    ELSE update_media_item_from_entry(d, i, g)

insert_media_item(d, g) ==
    [d EXCEPT !.items[NewId(d)] = [NoRow EXCEPT !.type = g.type, !.key = g.key,
                                                !.binding = g.binding, !.status = g.status]]

insert_media_file(d, p, i) == [d EXCEPT !.files[p] = i]

\* The item of a type a group's work already is: by provider identity, which
\* is unique, and only then by its local name; NoItem if it is new.
find_existing(d, type, g) ==
    LET bound == {i \in Of(d, type) : g.binding # NoBinding /\ d.items[i].binding = g.binding}
        named == {i \in Of(d, type) : d.items[i].key = g.key}
    IN  IF bound # {} THEN Min(bound) ELSE IF named # {} THEN Min(named) ELSE NoItem

\* The file goes to target, the records of its users with it, and the item it
\* leaves is dropped when nothing keeps it.
reassign(d, p, target) ==
    cleanup_media_item_if_no_files(
        merge_media_item_user_state([d EXCEPT !.files[p] = target], d.files[p], target),
        d.files[p])

upsert_movie_media_entry(d, g, p, preserve) ==
    LET found == find_existing(d, "movie", g)
        old == d.files[p]
        isMovie == old # NoItem /\ d.items[old].type = "movie"
        target == IF found # NoItem THEN found ELSE IF isMovie THEN old ELSE NewId(d)
        kept == IF target \in Of(d, "none") THEN insert_media_item(d, g)
                ELSE update_existing_media_item_from_entry(d, target, g, preserve)
    IN  IF old = NoItem THEN insert_media_file(kept, p, target)
        ELSE IF old = target THEN kept
        ELSE reassign(kept, p, target)

\* The series of a group, inserted or brought up to date.
upsert_series_item_from_entry(d, g, preserve) ==
    LET s == find_existing(d, "series", g)
        series == [g EXCEPT !.type = "series"]
    IN  IF s = NoItem THEN insert_media_item(d, series)
        ELSE update_existing_media_item_from_entry(d, s, series, preserve)

upsert_season(d, s, p) == [d EXCEPT !.seasons = @ \cup {<<s, Coordinates[p][1]>>}]

find_existing_episode_media_item(d, s, p) ==
    LET found == {i \in EpisodesOf(d, s) : d.items[i].at = Coordinates[p]}
    IN  IF found = {} THEN NoItem ELSE Min(found)

update_existing_episode_media_item(d, i, g, preserve) ==
    IF preserve /\ existing_media_item_is_matched(d, i) THEN d
    ELSE [d EXCEPT !.items[i].status = g.status]

insert_episode_structure(d, s, g, p) ==
    [d EXCEPT !.items[NewId(d)] = [NoRow EXCEPT !.type = "episode", !.status = g.status,
                                                !.series = s, !.at = Coordinates[p]]]

update_episode_record(d, i, s, p) ==
    [d EXCEPT !.items[i] = [@ EXCEPT !.series = s, !.at = Coordinates[p]]]

upsert_episode_media_entry(d, g, p, preserve) ==
    LET found == find_existing(d, "series", g)
        series == IF found = NoItem THEN NewId(d) ELSE found
        kept == preserve /\ found # NoItem
                         /\ existing_media_item_has_accepted_remote_binding(d, found)
        above == upsert_season(upsert_series_item_from_entry(d, g, preserve), series, p)
        there == find_existing_episode_media_item(above, series, p)
        old == d.files[p]
        isEpisode == old # NoItem /\ d.items[old].type = "episode"
        target == IF there # NoItem THEN there ELSE IF isEpisode THEN old ELSE NewId(above)
        placed == IF target \in Of(above, "none") THEN insert_episode_structure(above, series, g, p)
                  ELSE update_existing_episode_media_item(above, target, g, kept)
        previous == IF isEpisode THEN d.items[old].series ELSE NoItem
        followed(e) == IF previous = NoItem THEN e
                       ELSE merge_media_item_user_state(e, previous, series)
    IN  IF old = NoItem THEN insert_media_file(placed, p, target)
        ELSE IF ~isEpisode
             THEN cleanup_media_item_if_no_files(
                    regroup_continue_watching_under_series(
                      merge_media_item_user_state([placed EXCEPT !.files[p] = target], old, target),
                      target, series), old)
        ELSE IF target # old
             THEN cleanup_media_item_if_no_files(
                    followed(merge_media_item_user_state(
                      [placed EXCEPT !.files[p] = target], old, target)), old)
        ELSE followed(update_episode_record(placed, old, series, p))

upsert_media_entry_with_policy(d, g, p, preserve) ==
    IF g.type = "episode" THEN upsert_episode_media_entry(d, g, p, preserve)
    ELSE upsert_movie_media_entry(d, g, p, preserve)

-----------------------------------------------------------------------------
\* The remote half of a group that is committed locally

patch_media_item_remote_fields(d, i, g, preserve, first) ==
    IF preserve /\ existing_media_item_has_accepted_remote_binding(d, i) THEN d
    ELSE IF ~(g.replace /\ first) THEN [d EXCEPT !.items[i].status = g.status]
    ELSE [d EXCEPT !.items[i] = [@ EXCEPT !.key = g.key, !.binding = g.binding,
                                          !.status = g.status]]

projected(d, i, g, preserve) ==
    IF preserve THEN apply_local_metadata_projection(d, i, g) ELSE d

patch_movie_remote_entry(d, g, p, preserve, first) ==
    LET found == find_existing(d, "movie", g)
        old == d.files[p]
        target == IF preserve \/ found = NoItem THEN old ELSE found
        patched == patch_media_item_remote_fields(
                       projected(d, target, g, preserve), target, g, preserve, first)
    IN  IF target = old THEN patched ELSE reassign(patched, p, target)

patch_episode_remote_fields(d, i, g, preserve) ==
    IF preserve /\ existing_media_item_is_matched(d, i) THEN d
    ELSE [d EXCEPT !.items[i].status = g.status]

patch_episode_remote_entry(d, g, p, preserve, first) ==
    LET old == d.files[p]
        stored == d.items[old].series
        found == find_existing(d, "series", g)
        series == IF found = NoItem THEN stored ELSE found
        kept == preserve /\ existing_media_item_has_accepted_remote_binding(d, series)
        above == upsert_season(
                     patch_media_item_remote_fields(
                         projected(d, series, g, preserve), series, g, preserve, first), series, p)
        there == find_existing_episode_media_item(above, series, p)
        moved == IF there \notin {NoItem, old}
                 THEN reassign(patch_episode_remote_fields(above, there, g, kept), p, there)
                 ELSE update_episode_record(
                          patch_episode_remote_fields(above, old, g, kept), old, series, p)
    IN  merge_media_item_user_state(moved, stored, series)

\* A locally committed path of the type and, for an episode, at the place the
\* remote entry names; anything else fails the group.
patchable(d, g, p) ==
    /\ d.files[p] # NoItem
    /\ d.items[d.files[p]].type = g.type
    /\ g.type = "episode" => d.items[d.files[p]].at = Coordinates[p]

-----------------------------------------------------------------------------
\* Commits

\* playback_progress (last_media_file_id, media_item_id) -> media_files
recordsMatchFiles(d) ==
    \A u \in Users, i \in Items :
        d.progress[u][i].file # NoFile => d.files[d.progress[u][i].file] = i

\* idx_media_items_unique_provider_identity, unique(season_id, episode_number)
identitiesAreUnique(d) ==
    \A i, j \in Items : i # j /\ d.items[i].type = d.items[j].type =>
        /\ d.items[i].binding = NoBinding \/ d.items[i].binding # d.items[j].binding
        /\ d.items[i].series = NoItem
           \/ <<d.items[i].series, d.items[i].at>> # <<d.items[j].series, d.items[j].at>>

commit(d, kind) ==
    IF recordsMatchFiles(d) /\ identitiesAreUnique(d)
    THEN db' = d /\ last' = kind
    ELSE UNCHANGED db /\ last' = "refused"

\* Room for the rows a group may add (the bound on Items).
room(g) ==
    LET moving == {n \in DOMAIN g.paths : db.files[g.paths[n]] # NoItem
                                           /\ db.items[db.files[g.paths[n]]].type = g.type}
        above == IF g.type = "episode" /\ find_existing(db, "series", g) = NoItem THEN 1 ELSE 0
        below == IF g.type = "movie" THEN 1 ELSE Len(g.paths) - Cardinality(moving)
    IN  Cardinality(Of(db, "none")) >= above + below

commit_group(g) ==
    /\ room(g)
    /\ LET preserve == should_preserve_existing_parent("local", g) IN
       commit(FoldLeft(LAMBDA d, p : upsert_media_entry_with_policy(d, g, p, preserve),
                       db, g.paths),
              "kept")
    /\ UNCHANGED now

patch_group(g) ==
    /\ \A n \in DOMAIN g.paths : patchable(db, g, g.paths[n])
    /\ LET preserve == should_preserve_existing_parent("remote", g)
           step(d, n) == IF g.type = "episode"
                         THEN patch_episode_remote_entry(d, g, g.paths[n], preserve, n = 1)
                         ELSE patch_movie_remote_entry(d, g, g.paths[n], preserve, n = 1)
       IN  commit(FoldLeft(step, db, [n \in DOMAIN g.paths |-> n]),
                  IF preserve THEN "kept" ELSE "done")
    /\ UNCHANGED now

\* Two bindings are one work unless both are known and differ.
is_same_work(a, b) == a = NoBinding \/ b = NoBinding \/ a = b

\* A renamed file's records move to the item it reappeared under.
carry_renamed(d, old, new) ==
    LET from == d.files[old]
        to == d.files[new]
    IN  IF ~is_same_work(d.items[from].binding, d.items[to].binding) THEN d
        ELSE repoint_progress(merge_media_item_user_state(d, from, to), to, old, new)

\* The renames among paths not observed, then the paths that are missing,
\* then what nothing holds any more.
sync_library_media_changes(observed, renamed) ==
    /\ renamed \subseteq {r \in (Paths \ observed) \X observed :
                            /\ db.files[r[1]] # NoItem /\ db.files[r[2]] # NoItem
                            /\ db.files[r[1]] # db.files[r[2]]}
    /\ LET moved == {db.files[r[1]] : r \in renamed}
           missing == SetToSeq({p \in Paths \ observed : db.files[p] # NoItem})
           carried == FoldLeft(LAMBDA d, r : carry_renamed(d, r[1], r[2]), db, SetToSeq(renamed))
           removed == FoldLeft(LAMBDA d, p :
                          IF db.files[p] \in moved
                          THEN delete_media_file_and_drop_empty_item(d, p)
                          ELSE delete_media_file_and_cleanup_item(d, p), carried, missing)
       IN  commit(cleanup_orphan_series_structure(
                      delete_fileless_episodes_of_fileless_series(removed)), "reconciled")
    /\ UNCHANGED now

\* A scan that ends before its reconciliation.
cleanup_library_orphan_series_after_scan ==
    /\ commit(cleanup_orphan_series_structure(db), "done")
    /\ UNCHANGED now

\* The file must still be the item's when the row is written.
update_playback_progress(u, p, finished) ==
    /\ db.files[p] # NoItem
    /\ now' = now + 1
    /\ commit(upsert_playback_progress(db, u, db.files[p], p, finished, now + 1), "done")

Group(type, key, binding, status, replace, outage, nfo, paths) ==
    [type |-> type, key |-> key, binding |-> binding, status |-> status,
     replace |-> replace, outage |-> outage, nfo |-> nfo, paths |-> paths]

\* The groups of the given types over the given files.  A group that names its
\* work by an NFO carries the identity the NFO gives; the statuses other than
\* matched are one, nothing below tells them apart.
LocalGroups(types, batches) ==
    {Group(t, k, b, "unmatched", FALSE, FALSE, b # NoBinding /\ n, ps) :
        t \in types, k \in Keys, b \in Bindings \cup {NoBinding},
        n \in BOOLEAN, ps \in batches}

\* What the remote stage arrives at: a match, no match, or a provider failure,
\* which leaves the group as it was found locally.
RemoteGroups(types, batches) ==
    {Group(t, k, b, IF b = NoBinding THEN "unmatched" ELSE "matched", TRUE, FALSE, FALSE, ps) :
        t \in types, k \in Keys, b \in Bindings \cup {NoBinding}, ps \in batches}
    \cup {Group(t, k, NoBinding, "unmatched", FALSE, TRUE, FALSE, ps) :
        t \in types, k \in Keys, ps \in batches}

\* types and batches bound the groups, paths the files that exist at all.
CatalogNext(types, batches, paths) ==
    \/ \E g \in LocalGroups(types, batches) : commit_group(g)
    \/ \E g \in RemoteGroups(types, batches) : patch_group(g)
    \/ \E observed \in SUBSET paths, r \in {{}} \cup {{<<p, q>>} : p, q \in paths} :
           sync_library_media_changes(observed, r)
    \/ cleanup_library_orphan_series_after_scan
    \/ \E u \in Users, p \in paths, f \in BOOLEAN : update_playback_progress(u, p, f)

-----------------------------------------------------------------------------
(***************************************************************************)
(* After a reconciliation no series is left without a file, and no season  *)
(* without an episode (delete_fileless_episodes_of_fileless_series, then   *)
(* cleanup_orphan_series_structure).                                       *)
(***************************************************************************)
ReconciledHierarchy ==
    last = "reconciled" =>
        /\ \A s \in Of(db, "series") : HasFiles(db, s)
        /\ \A n \in db.seasons : \E i \in EpisodesOf(db, n[1]) : db.items[i].at[1] = n[2]

(***************************************************************************)
(* Between transactions every file is a movie's or an episode's, every     *)
(* movie has a file, every episode stands under a season of its series     *)
(* (upsert_*_media_entry, cleanup_media_item_if_no_files), and a row of    *)
(* the continue-watching list is shown, or leads to a finished item        *)
(* (merge_media_item_user_state); after a reconciliation the hierarchy is  *)
(* complete as well.                                                       *)
(***************************************************************************)
CatalogInv ==
    /\ \A p \in Paths : db.files[p] # NoItem =>
           db.items[db.files[p]].type \in {"movie", "episode"}
    /\ \A i \in Of(db, "movie") : FilesOf(db, i) # {}
    /\ \A i \in Of(db, "episode") :
           <<db.items[i].series, db.items[i].at[1]>> \in db.seasons
    /\ \A u \in Users, i \in Items :
           Listed(db, u, i) => \/ i \in list_continue_watching(db, u)
                               \/ db.progress[u][db.watching[u][i].last].finished
    /\ \A u \in Users :
           Cardinality({i \in Items : Listed(db, u, i)}) <= WatchingLimit
    /\ ReconciledHierarchy

(***************************************************************************)
(* A local commit, and a remote one without an answer of the provider,     *)
(* never costs a work the identity it was matched to.                      *)
(***************************************************************************)
AcceptedBindingsSurvive ==
    [][last' = "kept" =>
         \A i \in Items :
            existing_media_item_has_accepted_remote_binding(db, i)
              => \/ db'.items[i].type # db.items[i].type  \* its last file left it
                 \/ db'.items[i].binding = db.items[i].binding
                    /\ db'.items[i].status = "matched"]_catalogVars

\* The record of an item names a file, and the file is still there: the user
\* has a record of the item it is under that is as recent.
FollowsFile(u, i) ==
    LET r == db.progress[u][i] IN
    r.file # NoFile /\ db'.files[r.file] # NoItem
      => db'.progress[u][db'.files[r.file]].at >= r.at

\* The item keeps all its files, or none.
StaysWhole(i) ==
    \/ \A p \in FilesOf(db, i) : db'.files[p] = i
    \/ \A p \in FilesOf(db, i) : db'.files[p] # i

(***************************************************************************)
(* Records follow works: when the files of an item move together, or stay, *)
(* whatever items they end up under, no user loses the place in a file     *)
(* that is still there (reassign_media_file_*,                             *)
(* merge_media_item_user_state).  It does not hold when one of two         *)
(* versions leaves: the record then follows the file that left.            *)
(***************************************************************************)
RecordsFollowWorks ==
    [][\A u \in Users, i \in Items : StaysWhole(i) => FollowsFile(u, i)]_catalogVars
=============================================================================
