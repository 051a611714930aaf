---------------------------- MODULE LocalMetadata ----------------------------
(***************************************************************************)
(* What a movie's NFO sidecars say, and what the catalogue publishes.  A   *)
(* scan takes a fingerprint of the directory, plans the files it changed   *)
(* for, inspects each group, commits its local half, asks the provider and *)
(* commits the remote half; the row marked selected owns the item's text.  *)
(* The sidecars are edited at any time, the provider comes and goes, and a *)
(* scan may stop between two commits.                                      *)
(*                                                                         *)
(* One work, all of whose files parse to one title.  A text is the pair of *)
(* the NFO and the content it was read from.                               *)
(***************************************************************************)
EXTENDS Integers, Sequences, FiniteSets, SequencesExt

CONSTANTS Layouts,      \* [files, paths, later, scans, edits]: what may be in the directory, and bounds
          Contents, Owns, Id,   \* of a valid NFO: the fields it sets and its provider id
          Fields,       \* of "overview", "tagline" and "premiere_date"
          Own, Generic, \* a file's <stem>.nfo, and movie.nfo
          Rank          \* of a path among NFOs: file-specific first, then by name

Nothing == "none"
NoText == <<Nothing, Nothing>>
Remote == <<"tmdb", Nothing>>
Ids == {Nothing, "m", "several"}

ASSUME LocalMetadataAssumption ==
    /\ Fields \subseteq {"overview", "tagline", "premiere_date"}
    /\ \A c \in Contents : Owns[c] \subseteq Fields /\ Id[c] \in Ids

VARIABLES layout, files,  \* of the directory
          disk,           \* path -> content, "broken" or "absent"
          stamps,         \* path -> time of its last edit
          provider,       \* "up", "failing" or "off"
          item,           \* the work's row, its TMDB snapshot and its NFO credits
          rows,           \* media_local_metadata_sources: path -> [content, selected, projection]
          hashes,         \* scan_hash of the catalogued files
          scan, edits, scans

world == <<layout, files, disk, stamps, provider>>
catalog == <<item, rows, hashes>>
localVars == <<world, catalog, scan, edits, scans>>

Blank == [fd \in Fields |-> NoText]
NoItem == [exists |-> FALSE, text |-> Blank, bound |-> FALSE, status |-> "pending",
           reason |-> Nothing, snapshot |-> FALSE, credits |-> NoText]
Idle == [phase |-> "idle"]

Selected(rs) == {p \in DOMAIN rs : rs[p].selected}
SelectedPath(rs) == IF Selected(rs) = {} THEN Nothing ELSE CHOOSE p \in Selected(rs) : TRUE
Accepted(i) == i.exists /\ i.status = "matched" /\ i.bound

-----------------------------------------------------------------------------
\* The sidecars as a file sees them

\* Small enough, inside the root, UTF-8 and well formed, without entities.
Readable(p) == disk[p] \in Contents

media_nfo_candidate_paths(f, generic) == IF generic THEN <<Own[f], Generic>> ELSE <<Own[f]>>

\* Mutant of observe_file_nfo: a broken candidate falls through to movie.nfo.
observe_past_broken(f, generic) ==
    LET found == SelectSeq(media_nfo_candidate_paths(f, generic), LAMBDA p : Readable(p) \/ p = Generic)
        there == SelectSeq(found, LAMBDA p : disk[p] # "absent")
    IN IF there = <<>> THEN Nothing ELSE Head(there)

\* The first candidate that exists, readable or not.
observe_file_nfo(f, generic) ==
    LET there == SelectSeq(media_nfo_candidate_paths(f, generic), LAMBDA p : disk[p] # "absent")
    IN IF there = <<>> THEN Nothing ELSE Head(there)

\* Names, sizes and times of the sidecars that are there.
sidecar_fingerprint_for_directory == [p \in DOMAIN disk |-> IF disk[p] = "absent" THEN -1 ELSE stamps[p]]

\* A file as inspection finds it: only the overview is taken from its NFO here.
build_discovered_media_file(f, generic) ==
    LET p == observe_file_nfo(f, generic)
        c == IF p = Nothing THEN "absent" ELSE disk[p]
        valid == p # Nothing /\ Readable(p)
    IN [file |-> f, nfo |-> IF valid THEN p ELSE Nothing, content |-> c,
        invalid |-> IF p # Nothing /\ ~valid THEN p ELSE Nothing,
        text |-> [fd \in Fields |->
                    IF valid /\ fd = "overview" /\ fd \in Owns[c] THEN <<p, c>> ELSE NoText],
        selected |-> FALSE, removed |-> Nothing, bound |-> FALSE,
        status |-> "pending", reason |-> Nothing, replace |-> FALSE]

-----------------------------------------------------------------------------
\* What the catalogue already knows of a file

restore_last_known_good_nfo(x, s) ==
    LET p == SelectedPath(s.rows)
    IN IF x.nfo = Nothing /\ p # Nothing /\ x.invalid = p
       THEN [x EXCEPT !.nfo = p, !.content = s.rows[p].content] ELSE x

removed_local_source_path(x, s) ==
    LET p == SelectedPath(s.rows) IN IF p \in {Nothing, x.nfo, x.invalid} THEN Nothing ELSE p

should_restore_last_known_good(x, s) ==
    /\ x.nfo = Nothing
    /\ DOMAIN s.rows = {} \/ (SelectedPath(s.rows) # Nothing /\ x.invalid = SelectedPath(s.rows))

previous_nfo_owns_field(s, fd) ==
    LET p == SelectedPath(s.rows) IN p # Nothing /\ fd \in Owns[s.rows[p].content]

replace_option_if_present(target, candidate) == IF candidate # NoText THEN candidate ELSE target

\* Mutant of restore_parent_local_values: stored text stays whoever owned it.
keep_stored_values(base, x, s, fd) == replace_option_if_present(x.text[fd], s.item.text[fd])

\* A field the NFO owned goes back to the provider's value or to the file's own.
restore_parent_local_values(base, x, s, fd) ==
    IF previous_nfo_owns_field(s, fd) /\ ~should_restore_last_known_good(x, s)
    THEN IF fd = "overview" /\ s.item.snapshot THEN Remote ELSE base.text[fd]
    ELSE replace_option_if_present(x.text[fd], s.item.text[fd])

apply_existing_media_metadata(x, s) ==
    LET base == restore_last_known_good_nfo(x, s)
        known == [base EXCEPT !.removed = removed_local_source_path(base, s)]
    IN IF ~Accepted(s.item) THEN known
       ELSE [known EXCEPT !.bound = TRUE,
               !.text = [fd \in Fields |-> restore_parent_local_values(base, known, s, fd)]]

\* Without an NFO row an unchanged file is not read again; its NFO is not looked for.
can_reuse_cached_local_analysis(f, s) == s.hashes[f] = s.fingerprint /\ DOMAIN s.rows = {}

discovered_file_from_existing_local_analysis(f, s) ==
    [build_discovered_media_file(f, FALSE) EXCEPT
        !.nfo = Nothing, !.content = "absent", !.invalid = Nothing, !.bound = Accepted(s.item),
        !.text = [fd \in Fields |-> IF fd = "overview" THEN s.item.text[fd] ELSE NoText]]

inspect_incremental_scan_file(f, generic, s) ==
    IF f \notin DOMAIN s.hashes THEN build_discovered_media_file(f, generic)
    ELSE IF can_reuse_cached_local_analysis(f, s)
         THEN discovered_file_from_existing_local_analysis(f, s)
         ELSE apply_existing_media_metadata(build_discovered_media_file(f, generic), s)

-----------------------------------------------------------------------------
\* The group's NFO

Candidates(group) == {group[k].nfo : k \in DOMAIN group} \ {Nothing}
ContentOf(group, p) == group[CHOOSE k \in DOMAIN group : group[k].nfo = p].content
First(ps) == IF ps = {} THEN Nothing ELSE CHOOSE p \in ps : \A q \in ps : Rank[p] <= Rank[q]
identity_conflict(group) == \E p \in Candidates(group) : Id[ContentOf(group, p)] = "several"

\* With an accepted binding the NFO that names it comes before one that names none.
selected_source(group) ==
    LET With(id) == {p \in Candidates(group) : Id[ContentOf(group, p)] = id}
    IN IF \E k \in DOMAIN group : group[k].bound
       THEN IF With("m") # {} THEN First(With("m")) ELSE First(With(Nothing))
       ELSE First(With("m") \cup With(Nothing))

\* One NFO is projected on every file of the group, before and after the provider is asked.
apply_group_local_metadata(group) ==
    LET p == selected_source(group)
        c == IF p = Nothing THEN Nothing ELSE ContentOf(group, p)
    IN [k \in DOMAIN group |->
          [group[k] EXCEPT !.selected = p # Nothing /\ group[k].nfo = p,
             !.text = [fd \in Fields |-> IF p # Nothing /\ fd \in Owns[c]
                                         THEN <<p, c>> ELSE group[k].text[fd]]]]

prepare_scan_groups_for_metadata_lookup(group) ==
    apply_group_local_metadata([k \in DOMAIN group |->
        [group[k] EXCEPT !.status = "pending", !.reason = Nothing]])

-----------------------------------------------------------------------------
\* The rows of one item: d is [item, rows, hashes]

Projection(x) == [fd \in Fields |-> IF fd = "premiere_date" THEN NoText ELSE x.text[fd]]
WithoutRow(d, p) ==
    [d EXCEPT !.rows = [q \in DOMAIN d.rows \ {p} |-> d.rows[q]],
              !.item.credits = IF @[1] = p THEN NoText ELSE @]
remove_media_local_metadata_source_tx(d, p) == IF p \in DOMAIN d.rows THEN WithoutRow(d, p) ELSE d

binding_preference(d, c) == IF d.item.bound /\ Id[c] = "m" THEN 0 ELSE 1
incoming_source_precedes_selected(d, p, c, q) ==
    \/ binding_preference(d, c) < binding_preference(d, d.rows[q].content)
    \/ binding_preference(d, c) = binding_preference(d, d.rows[q].content) /\ Rank[p] < Rank[q]

\* The best candidate seen so far stays selected.
select_incoming(d, x) ==
    LET q == SelectedPath(d.rows)
    IN x.selected /\ (q \in {Nothing, x.nfo} \/ incoming_source_precedes_selected(d, x.nfo, x.content, q))

replace_media_local_metadata_source_tx(d, x) ==
    LET p == x.nfo
        sel == select_incoming(d, x)
        row == [content |-> x.content, selected |-> sel, projection |-> Projection(x)]
        cut == remove_media_local_metadata_source_tx(d, p)
    IN IF p \in DOMAIN d.rows /\ d.rows[p] = row THEN d
       ELSE [cut EXCEPT
               !.rows = [q \in DOMAIN cut.rows \cup {p} |->
                           IF q = p THEN row
                           ELSE IF sel THEN [cut.rows[q] EXCEPT !.selected = FALSE] ELSE cut.rows[q]],
               !.item.credits = IF sel THEN <<p, x.content>> ELSE @]

reconcile_local_metadata_snapshot_tx(d, x) ==
    LET cut == IF x.removed = Nothing THEN d ELSE remove_media_local_metadata_source_tx(d, x.removed)
    IN IF x.nfo = Nothing THEN cut ELSE replace_media_local_metadata_source_tx(cut, x)

LocalMetadataProjectionFields(rs, p) == IF p = Nothing THEN {} ELSE Owns[rs[p].content]

\* The fields of the previous and of the incoming NFO take the entry's text.
apply_local_metadata_projection_tx(d, x) ==
    LET q == SelectedPath(d.rows)
        removes == q # Nothing /\ (x.removed = q \/ (x.nfo = q /\ ~x.selected))
        owned == LocalMetadataProjectionFields(d.rows, q)
                 \cup (IF x.selected THEN Owns[x.content] ELSE {})
    IN IF ~removes /\ ~x.selected THEN d
       ELSE [d EXCEPT !.item.text = [fd \in Fields |-> IF fd \in owned THEN x.text[fd] ELSE @[fd]]]

-----------------------------------------------------------------------------
\* The local half of a group

Catalogued(d, x, fp) == [d EXCEPT !.hashes = [f \in DOMAIN d.hashes \cup {x.file} |->
                                                IF f = x.file THEN fp ELSE d.hashes[f]]]

\* An accepted item takes only what its NFOs own; any other is overwritten.
upsert_movie_media_entry(d, x, fp) ==
    Catalogued(
      reconcile_local_metadata_snapshot_tx(
        IF Accepted(d.item) THEN apply_local_metadata_projection_tx(d, x)
        ELSE [d EXCEPT !.item = [@ EXCEPT !.exists = TRUE, !.text = x.text, !.bound = x.bound,
                                          !.status = x.status, !.reason = x.reason,
                                          !.snapshot = x.bound /\ @]], x),
      x, fp)

entries_ordered_for_local_metadata(group) ==
    SelectSeq(group, LAMBDA x : ~x.selected) \o SelectSeq(group, LAMBDA x : x.selected)

upsert_library_media_entries(d, group, fp) ==
    FoldLeft(LAMBDA acc, x : upsert_movie_media_entry(acc, x, fp), d,
             entries_ordered_for_local_metadata(group))

-----------------------------------------------------------------------------
\* The remote half

clear_remote_metadata_for_review(x) ==
    [x EXCEPT !.bound = FALSE, !.status = "unmatched", !.reason = "no_match",
              !.text = [fd \in Fields |-> IF fd = "overview" THEN NoText ELSE x.text[fd]]]

finalize_file_metadata_status(x, enabled) ==
    IF x.bound THEN [x EXCEPT !.status = "matched", !.reason = IF enabled THEN Nothing ELSE @]
    ELSE IF enabled THEN [x EXCEPT !.status = "unmatched", !.reason = "no_match"]
    ELSE [x EXCEPT !.status = "skipped", !.reason = "provider_disabled"]

apply_remote_metadata(x) ==
    [x EXCEPT !.bound = TRUE,
       !.text = [fd \in Fields |-> IF fd = "overview" /\ x.text[fd] = NoText THEN Remote ELSE x.text[fd]]]

\* Every file keeps its text.  The accepted one is put last here, and goes back
\* to its place when the entries are sorted by path.
restore_group_after_provider_error(group) ==
    LET bound == {k \in DOMAIN group : group[k].bound}
    IN [k \in DOMAIN group |->
          [group[k] EXCEPT !.reason = "provider_error", !.bound = bound # {},
                           !.status = IF k \in bound THEN "matched" ELSE "failed"]]

Needs(x) == ~x.bound \/ ("overview" \in Fields /\ x.text["overview"] = NoText)
group_needs_remote_metadata(group) == \E k \in DOMAIN group : Needs(group[k])

\* Only the first entry replaces what the provider owns.
WithReplace(group, replace) ==
    LET able == {k \in DOMAIN group : group[k].status \in {"matched", "unmatched"}}
    IN [k \in DOMAIN group |-> [group[k] EXCEPT
            !.replace = replace /\ k \in able /\ \A j \in able : k <= j]]

Enriched(group, found) ==
    apply_group_local_metadata([k \in DOMAIN group |->
        finalize_file_metadata_status(IF found THEN apply_remote_metadata(group[k]) ELSE group[k],
                                      provider # "off")])

\* What prepare_remote_scan_group may prepare: review, failure, no lookup, or an answer.
prepare_remote_scan_group(group, conflict) ==
    IF conflict
    THEN {WithReplace(apply_group_local_metadata(
            [k \in DOMAIN group |-> clear_remote_metadata_for_review(group[k])]), TRUE)}
    ELSE (IF provider = "up" THEN {WithReplace(Enriched(group, TRUE), TRUE)} ELSE {})
         \cup (IF provider = "failing" THEN {WithReplace(restore_group_after_provider_error(group), FALSE)} ELSE {})
         \cup (IF provider = "off" \/ ~group_needs_remote_metadata(group)
               THEN {WithReplace(Enriched(group, FALSE), FALSE)} ELSE {})

should_preserve_existing_parent(group) ==
    \/ \A k \in DOMAIN group : ~group[k].replace
    \/ \E k \in DOMAIN group : group[k].reason \in {"provider_error", "provider_disabled"}

patch_media_item_remote_fields(d, x, preserve) ==
    IF preserve /\ Accepted(d.item)
    THEN [d EXCEPT !.item.reason = IF x.reason = "provider_error" THEN x.reason ELSE @]
    ELSE IF ~x.replace
    THEN [d EXCEPT !.item = [@ EXCEPT !.status = x.status, !.reason = x.reason]]
    ELSE [d EXCEPT !.item = [@ EXCEPT !.text = x.text, !.bound = x.bound, !.status = x.status,
                                      !.reason = x.reason, !.snapshot = x.bound]]

\* Mutant of restore_authoritative_local_metadata_projection_tx: the loser's text stays.
keep_projection(d, before, x) == d

\* If the entry's NFO did not win, its fields and the winner's are put back.
restore_authoritative_local_metadata_projection_tx(d, before, x) ==
    LET q == SelectedPath(d.rows)
        incoming == x.selected /\ x.nfo = q
        kept == q # Nothing /\ SelectedPath(before.rows) = q
        owned == LocalMetadataProjectionFields(d.rows, q) \cup (IF kept /\ x.nfo # Nothing THEN Owns[x.content] ELSE {})
        Value(fd) == IF fd = "premiere_date" THEN before.item.text[fd] ELSE d.rows[q].projection[fd]
    IN IF q = Nothing \/ (~incoming /\ ~kept) THEN d
       ELSE [d EXCEPT !.item.text = [fd \in Fields |->
               IF fd \in owned /\ ~(incoming /\ fd = "premiere_date") THEN Value(fd) ELSE @[fd]]]

patch_movie_remote_entry(d, x, preserve) ==
    LET projected == IF preserve THEN apply_local_metadata_projection_tx(d, x) ELSE d
        patched == patch_media_item_remote_fields(projected, x, preserve)
    IN restore_authoritative_local_metadata_projection_tx(
         reconcile_local_metadata_snapshot_tx(patched, x), d, x)

patch_library_media_entries_remote(d, group) ==
    FoldLeft(LAMBDA acc, x : patch_movie_remote_entry(acc, x, should_preserve_existing_parent(group)),
             d, group)

-----------------------------------------------------------------------------
\* Planning

should_retry_review_metadata_status(i) ==
    i.reason = "provider_error" \/ i.status \in {"pending", "unmatched", "failed"}
should_retry_incomplete_remote_match(i) == ~Accepted(i)
is_existing_summary_in_other_review_section(i) ==
    i.status = "skipped" /\ ~i.bound
    /\ ("overview" \in Fields => i.text["overview"] = NoText)

should_rescan_unchanged_existing_media_summary(i) ==
    \/ is_existing_summary_in_other_review_section(i)
    \/ should_retry_review_metadata_status(i)
    \/ provider # "off" /\ should_retry_incomplete_remote_match(i)

can_skip_existing_media_summary(f, s) ==
    s.hashes[f] = s.fingerprint /\ ~should_rescan_unchanged_existing_media_summary(s.item)

\* Mutant of force_reconcile_owners_with_ineligible_selected_nfo: an unreadable NFO counts as gone.
force_reconcile_unreadable(s) ==
    LET p == SelectedPath(s.rows)
    IN p # Nothing /\ \A f \in files : observe_file_nfo(f, TRUE) # p \/ ~Readable(p)

\* The selected NFO is seen by no file: whoever has the item is read again.
force_reconcile_owners_with_ineligible_selected_nfo(s) ==
    LET p == SelectedPath(s.rows)
    IN p # Nothing /\ \A f \in files : observe_file_nfo(f, TRUE) # p

requires_processing(s) ==
    {f \in files : \/ f \notin DOMAIN s.hashes
                   \/ \E k \in DOMAIN s.hashes \cap files : ~can_skip_existing_media_summary(k, s)
                   \/ force_reconcile_owners_with_ineligible_selected_nfo(s)}

\* The files that share movie.nfo are one group, and so are those of one item.
coalesce_scan_groups_by_metadata_owner(fs, shared, known) ==
    LET joined == IF shared \cap known # {} THEN shared \cup known ELSE known
    IN ({joined, shared \ joined} \cup {{f} : f \in fs \ (joined \cup shared)}) \ {{}}

PlannedGroups(s) ==
    coalesce_scan_groups_by_metadata_owner(
        files,
        {f \in files : observe_file_nfo(f, TRUE) = Generic /\ Readable(Generic)},
        files \cap DOMAIN s.hashes)

build_pending_scan_groups(s) ==
    {[members |-> g, stage |-> "planned", entries |-> <<>>, conflict |-> FALSE,
      generic |-> \E f \in g : observe_file_nfo(f, TRUE) = Generic]
       : g \in {g \in PlannedGroups(s) : g \cap requires_processing(s) # {}}}

-----------------------------------------------------------------------------
\* Steps

Db == [item |-> item, rows |-> rows, hashes |-> hashes]
Store(d) == item' = d.item /\ rows' = d.rows /\ hashes' = d.hashes

\* discover_media_paths: the fingerprint is taken before anything is read.
Discover ==
    /\ scan.phase \in {"idle", "settled"} /\ scans < layout.scans
    /\ scan' = [phase |-> "discovered", fingerprint |-> sidecar_fingerprint_for_directory,
              quiet |-> TRUE]
    /\ scans' = scans + 1
    /\ UNCHANGED <<world, catalog, edits>>

Summary == [item |-> item, rows |-> rows, hashes |-> hashes, fingerprint |-> scan.fingerprint]

Plan ==
    /\ scan.phase = "discovered"
    /\ scan' = [phase |-> "groups", quiet |-> scan.quiet, summary |-> Summary,
                groups |-> build_pending_scan_groups(Summary)]
    /\ UNCHANGED <<world, catalog, edits, scans>>

Groups(stage) == IF scan.phase = "groups" THEN {g \in scan.groups : g.stage = stage} ELSE {}
Advance(g, h) == scan' = [scan EXCEPT !.groups = (@ \ {g}) \cup {h}]
MemberSeq(ms) == SetToSortSeq(ms, LAMBDA a, b : Rank[Own[a]] < Rank[Own[b]])

\* The files of a planned group are read and grouped once more: one whose movie.nfo
\* was removed or broken since the plan gets a group of its own.
Inspect(g) ==
    /\ g \in Groups("planned")
    /\ LET read == [f \in g.members |-> inspect_incremental_scan_file(f, g.generic, scan.summary)]
           parts == coalesce_scan_groups_by_metadata_owner(
                        g.members, {f \in g.members : read[f].nfo = Generic},
                        g.members \cap DOMAIN scan.summary.hashes)
           Read(ms) == [g EXCEPT !.members = ms, !.stage = "read",
                          !.entries = [k \in DOMAIN MemberSeq(ms) |-> read[MemberSeq(ms)[k]]]]
       IN scan' = [scan EXCEPT !.groups = (@ \ {g}) \cup {Read(ms) : ms \in parts}]
    /\ UNCHANGED <<world, catalog, edits, scans>>

CommitLocal(g) ==
    /\ g \in Groups("read")
    /\ LET group == prepare_scan_groups_for_metadata_lookup(g.entries)
       IN /\ Store(upsert_library_media_entries(Db, group, scan.summary.fingerprint))
          /\ Advance(g, [g EXCEPT !.stage = "local", !.entries = group,
                                  !.conflict = identity_conflict(g.entries)])
    /\ UNCHANGED <<world, edits, scans>>

\* A worker asks the provider while other groups go on.
PrepareRemote(g) ==
    /\ g \in Groups("local")
    /\ \E group \in prepare_remote_scan_group(g.entries, g.conflict) :
         scan' = [scan EXCEPT !.groups = (@ \ {g}) \cup {[g EXCEPT !.stage = "prepared", !.entries = group]},
                              !.quiet = @ /\ (g.conflict \/ provider = "up")]
    /\ UNCHANGED <<world, catalog, edits, scans>>

CommitRemote(g) ==
    /\ g \in Groups("prepared")
    /\ Store(patch_library_media_entries_remote(Db, g.entries))
    /\ Advance(g, [g EXCEPT !.stage = "done", !.entries = <<>>])
    /\ UNCHANGED <<world, edits, scans>>

authoritative_local_metadata_source_paths == {observe_file_nfo(f, TRUE) : f \in files}

\* Rows no file can see are dropped, a selected one is kept for the next plan.
reconcile_library_local_metadata_source_paths_tx(d) ==
    LET stale == {p \in DOMAIN d.rows : ~d.rows[p].selected} \ authoritative_local_metadata_source_paths
    IN [d EXCEPT !.rows = [p \in DOMAIN d.rows \ stale |-> d.rows[p]],
                 !.item.credits = IF @[1] \in stale THEN NoText ELSE @]

\* A scan is settled if nobody edited while it ran and the provider answered.
FinishScan ==
    /\ scan.phase = "groups" /\ \A g \in scan.groups : g.stage = "done"
    /\ Store(reconcile_library_local_metadata_source_paths_tx(Db))
    /\ scan' = IF scan.quiet /\ provider = "up" THEN [phase |-> "settled"] ELSE Idle
    /\ UNCHANGED <<world, edits, scans>>

Running == scan.phase \in {"discovered", "groups"}

\* The lease is lost or the process ends; the next attempt starts over.
StopScan ==
    /\ layout.stops /\ Running /\ scan' = Idle
    /\ UNCHANGED <<world, catalog, edits, scans>>

Disturbed == IF Running THEN [scan EXCEPT !.quiet = FALSE] ELSE Idle

\* Sizes and times of the directory after an edit.
Looks(p, stamp) == [sidecar_fingerprint_for_directory EXCEPT ![p] = stamp]
Compared == {hashes[f] : f \in DOMAIN hashes}
            \cup {IF scan.phase = "discovered" THEN scan.fingerprint ELSE scan.summary.fingerprint
                    : x \in {1} \cap {IF Running THEN 1 ELSE 0}}

\* Bound: an NFO that appeared after a fingerprint was taken is not gone again before the next
\* one, unless its row was selected.  No fingerprint tells of it, whatever was read meanwhile.
ComesAndGoes(p, c) == c = "absent" /\ p \notin Selected(rows) /\ Looks(p, -1) \in Compared

EditNfo(p, c) ==
    /\ edits < layout.edits /\ disk[p] # c /\ ~ComesAndGoes(p, c)
    /\ disk' = [disk EXCEPT ![p] = c] /\ stamps' = [stamps EXCEPT ![p] = IF c = "absent" THEN 0 ELSE edits + 1]
    /\ edits' = edits + 1 /\ scan' = Disturbed
    /\ UNCHANGED <<layout, files, provider, catalog, scans>>

AddFile(f) ==
    /\ f \in layout.later \ files
    /\ files' = files \cup {f} /\ scan' = Disturbed
    /\ UNCHANGED <<layout, disk, stamps, provider, catalog, edits, scans>>

SetProvider(v) ==
    /\ provider # v /\ v \in layout.providers
    /\ provider' = v /\ scan' = Disturbed
    /\ UNCHANGED <<layout, files, disk, stamps, catalog, edits, scans>>

LocalInit ==
    /\ layout \in Layouts
    /\ files = layout.files \ layout.later
    /\ disk \in {[p \in DOMAIN Rank |-> IF p \in layout.paths THEN d[p] ELSE "absent"]
                 : d \in [layout.paths -> Contents \cup {"absent"}]}
    /\ stamps = [p \in DOMAIN Rank |-> 0] /\ provider \in layout.providers
    /\ item = NoItem /\ rows = <<>> /\ hashes = <<>>
    /\ scan = Idle /\ edits = 0 /\ scans = 0

LocalNext ==
    \/ Discover \/ Plan \/ FinishScan \/ StopScan
    \/ \E g \in Groups("planned") : Inspect(g)
    \/ \E g \in Groups("read") : CommitLocal(g)
    \/ \E g \in Groups("local") : PrepareRemote(g)
    \/ \E g \in Groups("prepared") : CommitRemote(g)
    \/ \E p \in layout.paths, c \in Contents \cup {"absent", "broken"} : EditNfo(p, c)
    \/ \E f \in layout.later : AddFile(f)
    \/ \E v \in layout.providers : SetProvider(v)

-----------------------------------------------------------------------------
\* Properties

LocalTypeOK ==
    /\ \A fd \in Fields : item.text[fd] \in {NoText, Remote} \cup ((DOMAIN Rank) \X Contents)
    /\ DOMAIN rows \subseteq DOMAIN Rank /\ DOMAIN hashes \subseteq layout.files
    /\ Cardinality(Selected(rows)) <= 1 /\ (rows # <<>> => item.exists)

Settled == scan.phase = "settled"
Of(p) == <<p, rows[p].content>>

\* After a scan that nothing disturbed, the row marked selected, and not the order in
\* which groups were committed, decides what is published: its fields carry its text,
\* the credits are its own, and no field shows another NFO's words
\* (restore_authoritative_local_metadata_projection_tx).
SelectedRowIsPublished ==
    /\ LocalTypeOK
    /\ Settled =>
        /\ \A p \in Selected(rows) :
              item.credits = Of(p) /\ \A fd \in Owns[rows[p].content] : item.text[fd] = Of(p)
        /\ \A fd \in Fields :
              item.text[fd] \in {NoText, Remote} \cup {Of(p) : p \in Selected(rows)}

\* What a first import of the directory would publish.
NfoOf(f) == IF disk[Own[f]] # "absent" THEN Own[f]
            ELSE IF disk[Generic] # "absent" THEN Generic ELSE Nothing
Seen == {NfoOf(f) : f \in files} \ {Nothing}
Winner ==
    LET With(id) == {p \in Seen : Id[disk[p]] = id}
    IN IF With("m") # {} THEN First(With("m")) ELSE First(With(Nothing))
FreshText(fd) ==
    IF Winner # Nothing /\ fd \in Owns[disk[Winner]] THEN <<Winner, disk[Winner]>>
    ELSE IF fd = "overview" THEN Remote ELSE NoText

OneIdentity == \A p \in Seen : Readable(p) /\ Id[disk[p]] # "several"

\* After an undisturbed scan the selected row is that of the best NFO any file sees,
\* whatever the order of the groups (the comment of select_incoming: "makes the final
\* choice the global minimum of all group winners, regardless of the order in which
\* groups commit").
SelectionIsGlobalMinimum == (Settled /\ OneIdentity) => SelectedPath(rows) = Winner

\* After an undisturbed scan of readable sidecars with one identity, the item reads as a
\* fresh import would, whatever was edited, removed, interrupted or unavailable before:
\* the plan misses no change and a removed NFO leaves nothing behind
\* (can_skip_existing_media_summary, restore_parent_local_values).
SettledReadsAsFreshImport ==
    (Settled /\ OneIdentity) =>
        SelectedPath(rows) = Winner /\ \A fd \in Fields : item.text[fd] = FreshText(fd)

\* While nobody edits, a scan never drops or rewrites the last good reading and credits of a
\* selected NFO that every file still sees and that cannot be read now
\* (restore_last_known_good_nfo, authoritative_local_metadata_source_paths).
BrokenKeepsLastGood ==
    [][\A p \in Selected(rows) :
         (/\ disk[p] = "broken" /\ disk' = disk /\ \A f \in files : NfoOf(f) = p
          /\ scan.phase = "groups" /\ scan.quiet)
         => p \in Selected(rows') /\ rows'[p].content = rows[p].content /\ item'.credits = item.credits]_localVars

\* A library in which nothing changed is not worked on again: once a scan has settled an
\* accepted item, the next plan is empty (force_reconcile_owners_with_ineligible_selected_nfo
\* and the retry rules would otherwise touch it in every scan).  The marker of a failed
\* refresh is left out: nothing clears it while the item misses nothing.
SettledItemsAreSkipped ==
    (Settled /\ Accepted(item) /\ item.reason # "provider_error") =>
        requires_processing([item |-> item, rows |-> rows, hashes |-> hashes,
                             fingerprint |-> sidecar_fingerprint_for_directory]) = {}

LocalSpec == LocalInit /\ [][LocalNext]_localVars

=============================================================================
