--------------------------- MODULE CatalogQueries ---------------------------
(***************************************************************************)
(* What the catalog answers: the listings of a library and their pages,    *)
(* the home page, search, the detail pages with their access checks, the   *)
(* seasons and the episode outline of a series, and the form in which the  *)
(* interface publishes a row.  The rows themselves are written by Catalog  *)
(* and TmdbMetadata; here a writer puts any row the schema admits in place *)
(* of another, and every answer is taken from one state of the tables.     *)
(*                                                                         *)
(* Texts are numbers in their collation order, 0 the empty one; Hit says   *)
(* how a text meets a search term.  A stored artwork path is known by its  *)
(* kind.                                                                   *)
(***************************************************************************)
EXTENDS Integers, FiniteSets, FiniteSetsExt

CONSTANTS Ids, Libraries, Rows, Queries, Hit, Outlines, Limit, NoQuery, PageSize

ASSUME QueriesAssumption ==
    /\ Ids \subseteq Nat \ {0} /\ NoQuery \notin Queries
    /\ Limit \in Nat \ {0} /\ PageSize \in Nat \ {0}

VARIABLES items,    \* id -> row of media_items with what its joins add, or NoRow
          outline   \* the remote outline cached for the series: <<season, episode>>s

queryVars == <<items, outline>>

NoRow == [type |-> "none"]
None == 0

Row(i) == items[i]
Existing == {i \in Ids : Row(i) # NoRow}
Titled == {i \in Existing : Row(i).type \in {"movie", "series"}}
InLibrary(l) == {i \in Titled : Row(i).lib = l}

\* The keys of the schema: an episode hangs below a series of its library.
Sound(t) == \A i \in Ids : t[i] # NoRow /\ t[i].type = "episode" =>
                /\ t[t[i].series] # NoRow /\ t[t[i].series].type = "series"
                /\ t[t[i].series].lib = t[i].lib
                /\ \A j \in Ids \ {i} : t[j] # NoRow /\ t[j].type = "episode" =>
                      <<t[j].series, t[j].at>> # <<t[i].series, t[i].at>>

-----------------------------------------------------------------------------
\* Listings

media_item_title_sort(i) ==
    IF Row(i).sort # 0 THEN Row(i).sort ELSE IF Row(i).title # 0 THEN Row(i).title ELSE Row(i).source

needs_review(i) ==
    \/ Row(i).status \in {"skipped", "unmatched", "failed"}
    \/ Row(i).remote \notin {"none", Row(i).type}

library_media_category_clause(category, i) ==
    CASE category = "all" -> TRUE
      [] category \in {"movie", "series"} -> Row(i).type = category /\ ~needs_review(i)
      [] category = "needs_review" -> needs_review(i)

Less(a, b, order) == IF order = "asc" THEN a < b ELSE b < a

\* nulls last in either direction
NullsLast(a, b, order) == a # None /\ (b = None \/ Less(a, b, order))

\* Mutant of media_item_order_by_clause: years and ratings leave ties.
order_with_ties(sort, order, i, j) ==
    LET key(k) == CASE sort = "title" -> media_item_title_sort(k)
                    [] sort = "year" -> Row(k).year [] sort = "rating" -> Row(k).rating
    IN IF sort = "title"
       THEN Less(key(i), key(j), order) \/ (key(i) = key(j) /\ Less(i, j, order))
       ELSE NullsLast(key(i), key(j), order)

media_item_order_by_clause(sort, order, i, j) ==
    LET key(k) == CASE sort = "title" -> media_item_title_sort(k)
                    [] sort = "year" -> Row(k).year [] sort = "rating" -> Row(k).rating
        t(k) == media_item_title_sort(k)
    IN IF sort = "title"
       THEN Less(t(i), t(j), order) \/ (t(i) = t(j) /\ Less(i, j, order))
       ELSE \/ NullsLast(key(i), key(j), order)
            \/ key(i) = key(j) /\ (t(i) < t(j) \/ (t(i) = t(j) /\ i < j))

Matches(q, text) == text # 0 /\ Hit[q][text] \in {"exact", "prefix", "inside"}
Starts(q, text) == text # 0 /\ Hit[q][text] \in {"exact", "prefix"}
Named(q, i) == \E text \in {Row(i).title, Row(i).source, Row(i).original} : Matches(q, text)

Listed(l, category, q, year) ==
    {i \in InLibrary(l) : /\ library_media_category_clause(category, i)
                          /\ q = NoQuery \/ Named(q, i)
                          /\ year = None \/ Row(i).year = year}

\* The rows of S that an order puts at places offset + 1 .. offset + limit.
Slice(S, Before(_, _), limit, offset) ==
    {i \in S : LET n == Cardinality({j \in S : Before(j, i)}) IN offset <= n /\ n < offset + limit}

\* Numbers below one are refused, sizes above the largest are cut to it.
Refused == [total |-> None, items |-> {}, page_size |-> None]
normalize_page_size(asked) == Min({asked, PageSize})

list_media_items_for_library(l, category, q, year, sort, order, page, asked) ==
    LET S == Listed(l, category, q, year)
        Before(i, j) == media_item_order_by_clause(sort, order, i, j)
        size == normalize_page_size(asked)
    IN IF page <= 0 \/ asked <= 0 THEN Refused
       ELSE [total |-> Cardinality(S), items |-> Slice(S, Before, size, (page - 1) * size),
             page_size |-> size]

list_media_item_previews_by_library(l, limit) ==
    LET Before(i, j) == \/ media_item_title_sort(i) < media_item_title_sort(j)
                        \/ media_item_title_sort(i) = media_item_title_sort(j) /\ i < j
    IN Slice(InLibrary(l), Before, Max({1, limit}), 0)

Newer(i, j) == Row(i).created > Row(j).created \/ (Row(i).created = Row(j).created /\ i > j)

\* The libraries of the home page with something new, each with its newest
\* titles and how many there are.
list_recently_added_media_items_by_library(visible, limit, since) ==
    [l \in {k \in visible : \E i \in InLibrary(k) : Row(i).created >= since} |->
       LET S == {i \in InLibrary(l) : Row(i).created >= since} IN
       [total |-> Cardinality(S), items |-> Slice(S, Newer, limit, 0)]]

count_media_items_for_library(l) == Cardinality(InLibrary(l))

get_library_media_type_counts(l) ==
    [movie |-> Cardinality({i \in InLibrary(l) : Row(i).type = "movie"}),
     series |-> Cardinality({i \in InLibrary(l) : Row(i).type = "series"})]

-----------------------------------------------------------------------------
\* Search

\* Mutant of Searched: episodes of every library are searched.
SearchedAll(q, visible) ==
    {i \in Titled : Row(i).lib \in visible /\ Named(q, i)}
    \cup {i \in Existing \ Titled : Named(q, i) \/ Named(q, Row(i).series)}

Searched(q, visible) ==
    {i \in Titled : Row(i).lib \in visible /\ Named(q, i)}
    \cup {i \in Existing \ Titled :
            Row(i).lib \in visible /\ (Named(q, i) \/ Named(q, Row(i).series))}

result_rank(q, i) ==
    LET second == IF Row(i).type = "episode" THEN Row(Row(i).series).title ELSE Row(i).source IN
    IF Row(i).title # 0 /\ Hit[q][Row(i).title] = "exact" THEN 0
    ELSE IF Starts(q, Row(i).title) THEN 1
    ELSE IF Starts(q, second) THEN 2 ELSE 3

global_search(q, visible, limit) ==
    LET Before(i, j) == \/ result_rank(q, i) < result_rank(q, j)
                        \/ /\ result_rank(q, i) = result_rank(q, j)
                           /\ \/ Row(i).updated > Row(j).updated
                              \/ Row(i).updated = Row(j).updated /\ i < j
    IN IF visible = {} THEN {} ELSE Slice(Searched(q, visible), Before, limit, 0)

-----------------------------------------------------------------------------
\* One row and who may see it

get_media_item_with_library_visibility(i, visible) ==
    IF Row(i) = NoRow THEN "missing" ELSE IF Row(i).lib \in visible THEN "visible" ELSE "forbidden"

get_season_with_library_visibility(s, n, visible) ==
    IF \A i \in Existing : Row(i).type = "episode" => <<Row(i).series, Row(i).at[1]>> # <<s, n>>
    THEN "missing"
    ELSE get_media_item_with_library_visibility(s, visible)

\* A file is known by its item here: versions of one item are in Catalog.
get_media_file_with_library_visibility(i, visible) ==
    IF Row(i) = NoRow \/ ~Row(i).file THEN "missing"
    ELSE get_media_item_with_library_visibility(i, visible)

get_media_item_playback_header(i) ==
    IF Row(i).type = "episode"
    THEN LET s == Row(Row(i).series) IN
         [title |-> IF s.title # 0 THEN s.title ELSE Row(i).title, logo |-> Row(i).series,
          year |-> IF s.year # None THEN s.year ELSE Row(i).year]
    ELSE [title |-> Row(i).title, logo |-> i, year |-> Row(i).year]

-----------------------------------------------------------------------------
\* Seasons and episodes

EpisodesOf(s) == {i \in Existing : Row(i).type = "episode" /\ Row(i).series = s}
list_seasons_for_series(s) == {Row(i).at[1] : i \in EpisodesOf(s)}
list_episodes_for_series(s) == {[item |-> i, at |-> Row(i).at, file |-> Row(i).file] : i \in EpisodesOf(s)}

\* The carriers a refresh of the item reads: its own, or those of its episodes.
list_media_item_metadata_refresh_source_files(i) ==
    {j \in {i} \cup EpisodesOf(i) : Row(j).file}

build_local_outline(s) ==
    {[at |-> e.at, item |-> e.item, available |-> e.file, poster |-> Row(e.item).art]
        : e \in list_episodes_for_series(s)}

\* Seasons without a local episode are left out, those below one are taken from
\* the library only; episodes of the provider and of the library are united.  Of
\* an episode that both have, the image is the provider's and the file the
\* library's.  The provider names an episode once: the code does not look for
\* repetitions in its list.
merge_remote_outline_with_local(s, remote) ==
    LET known == {at \in remote : at[1] >= 1 /\ at[2] >= 1 /\ at[1] \in list_seasons_for_series(s)}
        local == build_local_outline(s)
    IN {IF e.at \in known THEN [e EXCEPT !.poster = "trusted"] ELSE e : e \in local}
       \cup {[at |-> at, item |-> None, available |-> FALSE, poster |-> "trusted"]
                : at \in known \ {e.at : e \in local}}

-----------------------------------------------------------------------------
\* What the interface publishes

\* 0 is published as "Untitled".
display_media_item_title(i) == IF Row(i).title # 0 THEN Row(i).title ELSE Row(i).source

NoArt == [route |-> "none", id |-> None]

\* A stored file is published as a route of the item, a URL only when it is the
\* provider's image server.
public_media_item_asset_path(i, kind) ==
    CASE kind \in {"none", "url"} -> NoArt
      [] kind = "trusted" -> [route |-> kind, id |-> None]
      [] OTHER -> [route |-> "media-items", id |-> i]

MediaItemResponse(i) ==
    [id |-> i, title |-> display_media_item_title(i),
     poster |-> public_media_item_asset_path(i, Row(i).art)]

GlobalSearchResultResponse(i) ==
    [id |-> i, title |-> Row(i).title, poster |-> public_media_item_asset_path(i, Row(i).art)]

\* Of an episode without a row no artwork is published, not even the provider's.
SeriesEpisodeOutlineEpisodeResponse(e) ==
    [at |-> e.at, available |-> e.available,
     poster |-> IF e.item = None THEN NoArt ELSE public_media_item_asset_path(e.item, e.poster)]

LibraryDetailResponse(l) ==
    [media |-> count_media_items_for_library(l),
     movie |-> get_library_media_type_counts(l).movie,
     series |-> get_library_media_type_counts(l).series]

\* Continue watching is Playback's.
get_home_snapshot(visible) ==
    [libraries |-> [l \in visible |->
        [detail |-> LibraryDetailResponse(l),
         preview |-> list_media_item_previews_by_library(l, PageSize)]],
     recent |-> list_recently_added_media_items_by_library(visible, Limit, 0)]

HomeResponse(visible) ==
    LET home == get_home_snapshot(visible)
        Shown(S) == {MediaItemResponse(i) : i \in S}
    IN [libraries |-> [l \in visible |->
          [detail |-> home.libraries[l].detail, preview |-> Shown(home.libraries[l].preview)]],
        recent |-> [l \in DOMAIN home.recent |->
          [total |-> home.recent[l].total, items |-> Shown(home.recent[l].items)]]]

-----------------------------------------------------------------------------
\* Any sequence of writes the schema admits

QueriesInit == items = [i \in Ids |-> NoRow] /\ outline = {}

Write(i, r) ==
    /\ items' = [items EXCEPT ![i] = r] /\ Sound(items')
    /\ UNCHANGED outline

CacheOutline(o) == outline # o /\ outline' = o /\ UNCHANGED items

QueriesNext == \/ \E i \in Ids : \E r \in Rows[i] \cup {NoRow} : r # items[i] /\ Write(i, r)
               \/ \E o \in Outlines : CacheOutline(o)

QueriesSpec == QueriesInit /\ [][QueriesNext]_queryVars

-----------------------------------------------------------------------------
\* Properties

Categories == {"movie", "series", "needs_review"}

\* Whatever is filtered and however it is sorted, the pages 1, 2, ... show every
\* title that matches exactly once: ties on a title, a year, a rating or a
\* missing value never make two pages overlap.
PagesTile ==
    \A l \in {Row(i).lib : i \in Titled}, c \in Categories \cup {"all"}, q \in Queries \cup {NoQuery},
       sort \in {"title", "year", "rating"}, order \in {"asc", "desc"}, asked \in {1, PageSize + 1} :
        LET page(n) == list_media_items_for_library(l, c, q, None, sort, order, n, asked)
            total == page(1).total
            size == page(1).page_size
            pages == 1 .. (total + size - 1) \div size
        IN /\ \A i \in Listed(l, c, q, None) :
                 Cardinality({n \in pages : i \in page(n).items}) = 1
           /\ \A n \in pages : Cardinality(page(n).items) = Min({size, total - (n - 1) * size})

\* The outline of a series has every local episode once, playable exactly when
\* it has a file, and no season the library does not have.
OutlineCoversInventory ==
    \A s \in {i \in Titled : Row(i).type = "series"} :
        LET o == merge_remote_outline_with_local(s, outline) IN
        /\ \A i \in EpisodesOf(s) :
              Cardinality({e \in o : e.item = i /\ e.at = Row(i).at /\ e.available = Row(i).file}) = 1
        /\ \A e \in o : /\ e.at[1] \in list_seasons_for_series(s)
                        /\ e.available => e.item # None
                        /\ Cardinality({f \in o : f.at = e.at}) = 1

\* The artwork of an answer is never a path of the server or the URL of a host that
\* is not the provider's, but a route of a row that exists, or a provider image.
AnswersArePublic ==
    LET Public(p) == p.route \in {"none", "trusted"} \/ (p.route = "media-items" /\ p.id \in Existing) IN
    /\ \A i \in Existing : /\ Public(MediaItemResponse(i).poster)
                           /\ Public(GlobalSearchResultResponse(i).poster)
    /\ \A s \in {i \in Titled : Row(i).type = "series"} :
         \A e \in merge_remote_outline_with_local(s, outline) :
            Public(SeriesEpisodeOutlineEpisodeResponse(e).poster)

\* The answers agree with each other: the three categories divide a library, the
\* counts of its detail page add up to the listing, the home page shows the first
\* page of it, the outline of a series is that of its inventory, and whoever finds a
\* title or an episode by a search can open it, its season and its file.  No answer
\* names anything the caller could not fetch.
AnswersAgree ==
    /\ \A l \in Libraries :
         LET all == list_media_items_for_library(l, "all", NoQuery, None, "title", "asc", 1, PageSize)
             home == HomeResponse({l})
         IN /\ \A i \in InLibrary(l) :
                  Cardinality({c \in Categories : library_media_category_clause(c, i)}) = 1
            /\ LET d == LibraryDetailResponse(l) IN d.media = d.movie + d.series /\ d.media = all.total
            /\ {m.id : m \in home.libraries[l].preview} = all.items
            /\ l \in DOMAIN home.recent => home.recent[l].total = all.total
    /\ \A q \in Queries, visible \in SUBSET Libraries :
         \A i \in global_search(q, visible, Limit) :
            LET episode == Row(i).type = "episode" IN
            /\ get_media_item_with_library_visibility(i, visible) = "visible"
            /\ get_media_item_with_library_visibility(get_media_item_playback_header(i).logo, visible)
                 = "visible"
            /\ episode => get_season_with_library_visibility(Row(i).series, Row(i).at[1], visible)
                 = "visible"
            /\ Row(i).file => /\ get_media_file_with_library_visibility(i, visible) = "visible"
                              /\ i \in list_media_item_metadata_refresh_source_files(
                                         IF episode THEN Row(i).series ELSE i)
    /\ AnswersArePublic
    /\ OutlineCoversInventory
=============================================================================
