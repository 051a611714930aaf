------------------------------ MODULE Playback ------------------------------
(***************************************************************************)
(* What users have watched: their progress on movies and episodes and the  *)
(* bounded continue-watching list, which holds a movie under itself and an *)
(* episode under its series.                                               *)
(*                                                                         *)
(* The tables are one record, db, so that a transaction is a function from *)
(* a db to a db; Catalog composes these functions with the ones that move  *)
(* files between items.  A file is named by its path, an item by its id.   *)
(***************************************************************************)
EXTENDS Naturals, FiniteSets

CONSTANTS Users,
          Paths,
          Items,          \* media_items.id
          WatchingLimit,  \* CONTINUE_WATCHING_LIMIT
          NoItem, NoFile

ASSUME PlaybackAssumption ==
    /\ WatchingLimit \in Nat \ {0}
    /\ Items \subseteq Nat
    /\ NoItem \notin Items /\ NoFile \notin Paths

NoProgress == [at |-> 0, file |-> NoFile, finished |-> FALSE]
NotWatching == [at |-> 0, last |-> NoItem]

\* Rows are present when their time of watching is not 0.
Watched(d, u, i) == d.progress[u][i].at # 0
Listed(d, u, i) == d.watching[u][i].at # 0

\* coalesce(series_id, id): what the list files an item under.
ListedUnder(d, i) ==
    IF d.items[i].series # NoItem THEN d.items[i].series ELSE i

\* order by last_watched_at desc offset WatchingLimit
prune(rows) ==
    [i \in Items |->
        IF Cardinality({k \in Items : rows[k].at > rows[i].at}) >= WatchingLimit
        THEN NotWatching ELSE rows[i]]

upsert_playback_progress(d, u, i, p, finished, now) ==
    LET key == ListedUnder(d, i)
        rows == d.watching[u]
    IN  [d EXCEPT
          !.progress[u][i] = [at |-> now, file |-> p, finished |-> finished],
          !.watching[u] =
              IF finished THEN [rows EXCEPT ![key] = NotWatching]
              ELSE prune([rows EXCEPT ![key] = [at |-> now, last |-> i]])]

\* Mutant of newest: the row that is there already is kept.
present_wins(moved, current) == IF current.at # 0 THEN current ELSE moved

\* on conflict do update: the later of the two rows, the moved one on a tie.
newest(moved, current) == IF moved.at >= current.at THEN moved ELSE current

merge_playback_progress(rows, source, target) ==
    [rows EXCEPT ![target] = newest(rows[source], rows[target]),
                 ![source] = NoProgress]

\* The row filed under source moves under target, and every row that points
\* at source as the item last played points at target.
merge_continue_watching(rows, source, target) ==
    LET repointed == [i \in Items |->
            IF rows[i].last = source THEN [rows[i] EXCEPT !.last = target] ELSE rows[i]]
    IN  [repointed EXCEPT ![target] = newest(repointed[source], repointed[target]),
                          ![source] = NotWatching]

merge_media_item_user_state(d, source, target) ==
    IF source = target THEN d
    ELSE [d EXCEPT
            !.progress = [u \in Users |-> merge_playback_progress(@[u], source, target)],
            !.watching = [u \in Users |-> merge_continue_watching(@[u], source, target)]]

regroup_continue_watching_under_series(d, episode, series) ==
    IF episode = series THEN d
    ELSE [d EXCEPT !.watching = [u \in Users |->
            LET rows == d.watching[u] IN
            [rows EXCEPT ![series] = newest(rows[episode], rows[series]),
                         ![episode] = NotWatching]]]

\* last_media_file_id = the renamed file
repoint_progress(d, i, old, new) ==
    [d EXCEPT !.progress = [u \in Users |->
        IF d.progress[u][i].file = old THEN [@[u] EXCEPT ![i].file = new] ELSE @[u]]]

\* What the list shows a user: rows that lead to progress, and to an unfinished
\* one.
list_continue_watching(d, u) ==
    {i \in Items : /\ Listed(d, u, i)
                   /\ Watched(d, u, d.watching[u][i].last)
                   /\ ~d.progress[u][d.watching[u][i].last].finished}
=============================================================================
