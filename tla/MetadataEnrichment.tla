------------------------- MODULE MetadataEnrichment -------------------------
(***************************************************************************)
(* Enrichment of a scan's groups by its remote workers.  The workers share *)
(* bounded, insertion-ordered caches of metadata, outlines and artwork and *)
(* one request lock per key; each group is looked up by its candidates in  *)
(* order, its outline is read whole or in part, and its artwork is put     *)
(* into the library's cache before the coordinator commits or rejects it.  *)
(*                                                                         *)
(* A title is known by its two normal forms, an artwork source is None, a  *)
(* path (generic or not) or a URL the provider is trusted for or not.      *)
(***************************************************************************)
EXTENDS Integers, Sequences, FiniteSets, SequencesExt

CONSTANTS Workers, Groups,
          Files,      \* per group: what scanning and parsing found
          Answers,    \* what the provider says of a key, None if nothing
          Outlines,   \* the same of a provider id: its episode's artwork
          Untrusted,  \* URLs outside the provider's image hosts
          LookupTitle, CacheTitle,   \* normalize_lookup_title, normalize_metadata_cache_title
          Capacity,   \* of each cache
          MaxFaults   \* bound: failed requests and downloads, rejected commits

None == "none"
ById == -1                                   \* in a key, in place of the year
NoArt == 0
OwnPath == 1
Generic == 2
Kinds == {"metadata", "complete", "outline"}

ASSUME EnrichmentAssumption ==
    Capacity \in Nat \ {0} /\ MaxFaults \in Nat /\ Untrusted \subseteq Nat \ (0 .. 2)

VARIABLES cache,     \* kind -> [order, val]
          memo,      \* artwork results of this scan, of the same form
          locked,    \* requests and cache paths that are locked
          work,      \* what each worker does
          todo, prepared, rejected,
          results,   \* per group, what enrichment ended with
          disk, guards, refs, faults

caches == <<cache, memo, locked>>
enrichVars == <<caches, work, todo, prepared, rejected, results, disk, guards, refs, faults>>

NoAnswer == [id |-> None, art |-> NoArt]
Idle == [pc |-> "idle"]
NoResult == [meta |-> NoAnswer, ok |-> TRUE, asked |-> FALSE, arts |-> <<>>]

-----------------------------------------------------------------------------
\* BoundedCache

EmptyCache == [order |-> <<>>, val |-> <<>>]
Cached(c, k) == k \in DOMAIN c.val

\* A key that is there keeps its place; a full cache gives up its oldest key.
Insert(c, k, v) ==
    LET full == Cardinality(DOMAIN c.val) = Capacity
        out == IF ~Cached(c, k) /\ full THEN {Head(c.order)} ELSE {}
    IN [order |-> IF Cached(c, k) THEN c.order
                  ELSE Append(IF full THEN Tail(c.order) ELSE c.order, k),
        val |-> [x \in (DOMAIN c.val \ out) \cup {k} |-> IF x = k THEN v ELSE c.val[x]]]

-----------------------------------------------------------------------------
\* Candidates

Lookup(id, title, year) == [id |-> id, title |-> title, year |-> year]
same_lookup_title(a, b) == LookupTitle[a] = LookupTitle[b]

push_metadata_lookup_candidate(cs, title, year) ==
    IF title = None \/ \E i \in DOMAIN cs : same_lookup_title(cs[i].title, title) /\ cs[i].year = year
    THEN cs ELSE Append(cs, Lookup(None, title, year))

\* A movie's directory counts if it is a name of its own in the other script.
movie_container_metadata_for_file_path(f) ==
    f.type = "movie" /\ f.container # None /\ ~same_lookup_title(f.title, f.container)

\* An accepted id is the only candidate; else the title of the file, the same with
\* plain punctuation, and the directory.
metadata_lookup_candidates(f) ==
    IF f.hint # None THEN <<Lookup(f.hint, f.title, f.year)>>
    ELSE IF f.id # None THEN <<Lookup(f.id, f.title, f.year)>>
    ELSE LET one == push_metadata_lookup_candidate(<<>>, f.title, f.year)
             two == push_metadata_lookup_candidate(one, f.plain, f.year)
         IN IF movie_container_metadata_for_file_path(f)
            THEN push_metadata_lookup_candidate(two, f.container, f.containerYear)
            ELSE two

\* Mutant of canonical_metadata_request_key: the year is left out.
key_without_year(type, l) ==
    IF l.id # None THEN <<type, l.id, ById>> ELSE <<type, CacheTitle[l.title], 0>>

canonical_metadata_request_key(type, l) ==
    IF l.id # None THEN <<type, l.id, ById>> ELSE <<type, CacheTitle[l.title], l.year>>

series_outline_request_key(f, meta) == <<f.seasons, meta.id, ById>>

group_needs_remote_metadata(f) ==
    f.forced \/ f.id = None \/ f.text = None \/ f.poster = NoArt
    \/ (f.type = "series" /\ f.poster \notin {OwnPath, Generic})

-----------------------------------------------------------------------------
\* What an answer does to the files

IsUrl(s) == s \notin {NoArt, OwnPath, Generic}
is_allowed_remote_artwork_url(s) == s \notin Untrusted
is_missing_or_external_url(s) == s = NoArt \/ IsUrl(s)
should_replace_episode_artwork(s) == is_missing_or_external_url(s) \/ s = Generic

\* A movie keeps the poster it has; a series takes the provider's.
apply_remote_metadata_to_file(f, meta) ==
    IF meta = NoAnswer THEN f.poster
    ELSE IF f.type = "series"
         THEN IF meta.art # NoArt \/ is_missing_or_external_url(f.poster) THEN meta.art ELSE f.poster
         ELSE IF f.poster = NoArt THEN meta.art ELSE f.poster

apply_remote_episode_outline_to_file(f, outline) ==
    IF outline.art # NoArt /\ should_replace_episode_artwork(f.still) THEN outline.art ELSE f.still

\* The sources of the files, then those of the snapshot, in the order they are cached.
Sources(f, meta, outline) ==
    <<apply_remote_metadata_to_file(f, meta), apply_remote_episode_outline_to_file(f, outline)>>
    \o (IF meta = NoAnswer THEN <<>> ELSE <<meta.art>>)

-----------------------------------------------------------------------------
\* A worker and its group

F(w) == Files[work[w].group]
Candidates(w) == metadata_lookup_candidates(F(w))

\* A group without a title to look up has no candidate and no answer.
StartGroup(w, g) ==
    LET asked == group_needs_remote_metadata(Files[g])
        cs == metadata_lookup_candidates(Files[g])
    IN
    /\ work[w].pc = "idle" /\ g \in todo
    /\ todo' = todo \ {g} /\ guards' = guards \cup {g}
    /\ work' = [work EXCEPT ![w] =
          IF asked /\ cs # <<>>
          THEN [pc |-> "check", group |-> g, kind |-> "metadata", i |-> 1,
                key |-> canonical_metadata_request_key(Files[g].type, cs[1]),
                meta |-> NoAnswer, asked |-> TRUE, left |-> <<>>, got |-> <<>>]
          ELSE [pc |-> "art", group |-> g, kind |-> "metadata", i |-> 1, key |-> <<>>,
                meta |-> NoAnswer, asked |-> asked, left |-> Sources(Files[g], NoAnswer, NoAnswer), got |-> <<>>]]
    /\ UNCHANGED <<caches, prepared, rejected, results, disk, refs, faults>>

Artwork(w, meta, outline) ==
    [work[w] EXCEPT !.pc = "art", !.meta = meta, !.left = Sources(F(w), meta, outline)]

\* Where an answer takes the worker next: the next candidate, the outline, the artwork.
Resolved(w, v) ==
    IF work[w].kind # "metadata" THEN Artwork(w, work[w].meta, v)
    ELSE IF v = NoAnswer
    THEN IF work[w].i < Len(Candidates(w))
         THEN [work[w] EXCEPT !.pc = "check", !.i = @ + 1,
                 !.key = canonical_metadata_request_key(F(w).type, Candidates(w)[work[w].i + 1])]
         ELSE Artwork(w, NoAnswer, NoAnswer)
    ELSE IF F(w).type = "series"
         THEN [work[w] EXCEPT !.pc = "check", !.kind = "complete", !.meta = v,
                 !.key = series_outline_request_key(F(w), v)]
         ELSE Artwork(w, v, NoAnswer)

\* lookup_remote_metadata_cached and the two outlines: look, lock, look again, ask.
CheckCache(w) ==
    LET c == cache[work[w].kind] k == work[w].key IN
    /\ work[w].pc = "check"
    /\ work' = [work EXCEPT ![w] = IF Cached(c, k) THEN Resolved(w, c.val[k]) ELSE [@ EXCEPT !.pc = "wait"]]
    /\ UNCHANGED <<caches, todo, prepared, rejected, results, disk, guards, refs, faults>>

Request(w) == <<work[w].kind, work[w].key>>

\* Mutant of lock_shared_request: nobody waits.
no_shared_lock(w) ==
    LET c == cache[work[w].kind] k == work[w].key IN
    /\ work[w].pc = "wait"
    /\ IF Cached(c, k)
       THEN work' = [work EXCEPT ![w] = Resolved(w, c.val[k])] /\ UNCHANGED locked
       ELSE work' = [work EXCEPT ![w].pc = "request"] /\ locked' = locked \cup {Request(w)}
    /\ UNCHANGED <<cache, memo, todo, prepared, rejected, results, disk, guards, refs, faults>>

lock_shared_request(w) ==
    LET c == cache[work[w].kind] k == work[w].key IN
    /\ work[w].pc = "wait" /\ Request(w) \notin locked
    /\ IF Cached(c, k)
       THEN work' = [work EXCEPT ![w] = Resolved(w, c.val[k])] /\ UNCHANGED locked
       ELSE work' = [work EXCEPT ![w].pc = "request"] /\ locked' = locked \cup {Request(w)}
    /\ UNCHANGED <<cache, memo, todo, prepared, rejected, results, disk, guards, refs, faults>>

\* An answer is asked for with the lookup itself, whatever it is cached under.
Asked(l) == IF l.id # None THEN Answers[<<l.id, ById>>] ELSE Answers[<<CacheTitle[l.title], l.year>>]

Answer(w) ==
    IF work[w].kind = "metadata"
    THEN Asked(Candidates(w)[work[w].i])
    ELSE Outlines[work[w].meta.id]

ProviderAnswers(w) ==
    /\ work[w].pc = "request"
    /\ cache' = [cache EXCEPT ![work[w].kind] = Insert(@, work[w].key, Answer(w))]
    /\ locked' = locked \ {Request(w)}
    /\ work' = [work EXCEPT ![w] = Resolved(w, Answer(w))]
    /\ UNCHANGED <<memo, todo, prepared, rejected, results, disk, guards, refs, faults>>

Ends(w, ok) ==
    /\ work' = [work EXCEPT ![w] = Idle]
    /\ prepared' = prepared \cup {work[w].group}
    /\ results' = [results EXCEPT ![work[w].group] =
          [meta |-> work[w].meta, ok |-> ok, asked |-> work[w].asked, arts |-> work[w].got]]

\* Mutant of ProviderFails: the lock outlives the request.
failure_keeps_lock(w, notFound) ==
    /\ work[w].pc = "request" /\ faults < MaxFaults /\ faults' = faults + 1
    /\ Ends(w, FALSE)
    /\ UNCHANGED <<caches, todo, rejected, disk, guards, refs>>

\* An error is not cached.  Without the whole outline the part that can be had is
\* asked for; any other error ends the group, unless a hinted id is unknown.
ProviderFails(w, notFound) ==
    /\ work[w].pc = "request" /\ faults < MaxFaults /\ faults' = faults + 1
    /\ locked' = locked \ {Request(w)}
    /\ IF work[w].kind = "complete"
       THEN work' = [work EXCEPT ![w].pc = "check", ![w].kind = "outline"] /\ UNCHANGED <<prepared, results>>
       ELSE IF work[w].kind = "metadata" /\ notFound /\ F(w).hint # None
       THEN work' = [work EXCEPT ![w] = Artwork(w, NoAnswer, NoAnswer)] /\ UNCHANGED <<prepared, results>>
       ELSE Ends(w, FALSE)
    /\ UNCHANGED <<cache, memo, todo, rejected, disk, guards, refs>>

-----------------------------------------------------------------------------
\* Artwork

Source(w) == Head(work[w].left)
Keeps(w, s) == [work[w] EXCEPT !.pc = "art", !.left = Tail(@), !.got = Append(@, s)]

\* What a URL became: its file, or itself if it cannot be had.
FileOf(u) == [source |-> u, file |-> TRUE]
ArtResult(u, found) == [source |-> u, file |-> found]

\* No source, a path or an untrusted URL needs no download; nor does a URL whose
\* result this scan remembers.
cache_artwork_source(w) ==
    /\ work[w].pc = "art" /\ work[w].left # <<>>
    /\ LET s == Source(w) IN
       work' = [work EXCEPT ![w] =
          IF ~IsUrl(s) THEN Keeps(w, ArtResult(s, FALSE))
          ELSE IF ~is_allowed_remote_artwork_url(s) THEN Keeps(w, ArtResult(NoArt, FALSE))
          ELSE IF Cached(memo, s) THEN Keeps(w, ArtResult(s, memo.val[s]))
          ELSE [@ EXCEPT !.pc = "artwait"]]
    /\ UNCHANGED <<caches, todo, prepared, rejected, results, disk, guards, refs, faults>>

PathLock(s) == <<"path", <<{}, "", s>>>>

\* lock_cache_path, and the file may be there by now.
lock_cache_path(w) ==
    LET s == Source(w) IN
    /\ work[w].pc = "artwait" /\ PathLock(s) \notin locked
    /\ IF s \in disk
       THEN memo' = Insert(memo, s, TRUE) /\ work' = [work EXCEPT ![w] = Keeps(w, FileOf(s))] /\ UNCHANGED locked
       ELSE locked' = locked \cup {PathLock(s)} /\ work' = [work EXCEPT ![w].pc = "download"] /\ UNCHANGED memo
    /\ UNCHANGED <<cache, todo, prepared, rejected, results, disk, guards, refs, faults>>

\* A response of the wrong kind or size, or a failed write, counts as a failure.
Download(w, found) ==
    LET s == Source(w) IN
    /\ work[w].pc = "download"
    /\ IF found THEN UNCHANGED faults ELSE faults < MaxFaults /\ faults' = faults + 1
    /\ disk' = IF found THEN disk \cup {s} ELSE disk
    /\ memo' = Insert(memo, s, found)
    /\ locked' = locked \ {PathLock(s)}
    /\ work' = [work EXCEPT ![w] = Keeps(w, ArtResult(s, found))]
    /\ UNCHANGED <<cache, todo, prepared, rejected, results, guards, refs>>

GroupEnriched(w) ==
    /\ work[w].pc = "art" /\ work[w].left = <<>>
    /\ Ends(w, TRUE)
    /\ UNCHANGED <<caches, todo, rejected, disk, guards, refs, faults>>

-----------------------------------------------------------------------------
\* The coordinator: it commits or rejects, releases the group's publication lock
\* and removes what a rejected group left.

FilesOf(g) == {x.source : x \in {y \in Range(results[g].arts) : y.file}}

Commit(g) ==
    /\ g \in prepared /\ results[g].ok
    /\ prepared' = prepared \ {g} /\ guards' = guards \ {g}
    /\ refs' = refs \cup FilesOf(g)
    /\ UNCHANGED <<caches, work, todo, rejected, results, disk, faults>>

Reject(g) ==
    /\ g \in prepared
    /\ IF results[g].ok THEN faults < MaxFaults /\ faults' = faults + 1 ELSE UNCHANGED faults
    /\ prepared' = prepared \ {g} /\ guards' = guards \ {g} /\ rejected' = rejected \cup {g}
    /\ UNCHANGED <<caches, work, todo, results, disk, refs>>

CleanUp(g) ==
    /\ g \in rejected /\ guards = {}
    /\ disk' = disk \ (FilesOf(g) \ refs) /\ rejected' = rejected \ {g}
    /\ UNCHANGED <<caches, work, todo, prepared, results, guards, refs, faults>>

-----------------------------------------------------------------------------

EnrichInit ==
    /\ cache = [k \in Kinds |-> EmptyCache] /\ memo = EmptyCache /\ locked = {}
    /\ work = [w \in Workers |-> Idle] /\ todo = Groups /\ prepared = {} /\ rejected = {}
    /\ results = [g \in Groups |-> NoResult]
    /\ disk = {} /\ guards = {} /\ refs = {} /\ faults = 0

Proceed(w) ==
    \/ (\E g \in todo : StartGroup(w, g)) \/ CheckCache(w) \/ lock_shared_request(w)
    \/ ProviderAnswers(w) \/ (\E n \in BOOLEAN : ProviderFails(w, n))
    \/ cache_artwork_source(w) \/ lock_cache_path(w) \/ (\E b \in BOOLEAN : Download(w, b))
    \/ GroupEnriched(w)

Coordinate == \E g \in Groups : Commit(g) \/ Reject(g) \/ CleanUp(g)

EnrichNext == (\E w \in Workers : Proceed(w)) \/ Coordinate

EnrichSpec == EnrichInit /\ [][EnrichNext]_enrichVars

\* Workers go on, requests and downloads have timeouts, locks are handed on.
EnrichFairness == (\A w \in Workers : WF_enrichVars(Proceed(w))) /\ WF_enrichVars(Coordinate)

EnrichFairSpec == EnrichSpec /\ EnrichFairness

-----------------------------------------------------------------------------
\* Properties

\* The cache holds exactly the keys it would give up, each once, and never more
\* than its capacity, though several workers insert the same key.
Consistent(c) ==
    /\ Range(c.order) = DOMAIN c.val /\ Len(c.order) <= Capacity
    /\ \A i, j \in DOMAIN c.order : c.order[i] = c.order[j] => i = j
CachesStayBounded == (\A k \in Kinds : Consistent(cache[k])) /\ Consistent(memo)

\* Workers that need the same answer at the same time ask once, and none asks
\* for what is cached; the caches stay within their capacity meanwhile.
RequestsCollapse ==
    /\ CachesStayBounded
    /\ \A v, w \in Workers :
         /\ v # w /\ work[v].pc = "request" /\ work[w].pc = "request" => Request(v) # Request(w)
         /\ work[w].pc = "request" => ~Cached(cache[work[w].kind], work[w].key)

\* What a group was enriched with is what the provider knows of its first candidate
\* that it knows, whoever asked, whatever was cached, evicted or failed meanwhile.
FirstAnswer(g) ==
    LET f == Files[g]
        cs == metadata_lookup_candidates(f)
        known == {i \in DOMAIN cs : Asked(cs[i]) # NoAnswer}
    IN IF known = {} THEN NoAnswer ELSE Asked(cs[CHOOSE i \in known : \A j \in known : i <= j])

AnswersBelongToTheGroup ==
    \A g \in Groups : g \notin todo /\ results[g].ok /\ results[g].asked =>
        \/ results[g].meta = FirstAnswer(g)
        \/ results[g].meta = NoAnswer /\ Files[g].hint # None

\* Every group is enriched, committed or rejected: no worker waits for ever.
EveryGroupEnds == <>(todo = {} /\ prepared = {} /\ \A w \in Workers : work[w].pc = "idle")

=============================================================================
