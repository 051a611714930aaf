----------------------------- MODULE MCViewing -----------------------------
(***************************************************************************)
(* What a user who browses and plays is served, for TLC: answers computed  *)
(* from the catalog, and audio-track variants from their cache.  The two   *)
(* share no state, so a behaviour moves one of them.                       *)
(*                                                                         *)
(* Three titles in two libraries and two episodes below the second; titles *)
(* and years tie, one title is empty, one status of each kind.  The cache  *)
(* starts with an oversized artifact and another one; one of its variants  *)
(* is too big to be made.                                                  *)
(***************************************************************************)
EXTENDS TLC, CatalogQueries, AudioTrackCache

CONSTANT Large

R(lib, type, title, year, status, created, art) ==
    [lib |-> lib, type |-> type, title |-> title, source |-> 2, sort |-> 0, year |-> year,
     rating |-> year, status |-> status, remote |-> "none", created |-> created, updated |-> 3 - created,
     original |-> year,
     series |-> None, at |-> <<0, 0>>, file |-> type = "movie", art |-> art]
Ep(lib, at, title, file) ==
    [R(lib, "episode", title, 0, "matched", 1, "still") EXCEPT !.series = 2, !.at = at, !.file = file]

MCRows ==
    <<{R("l1", "movie", 1, 1, "matched", 1, "file"), R("l1", "movie", 1, 0, "unmatched", 2, "url"),
       [R("l1", "movie", 2, 1, "matched", 1, "file") EXCEPT !.remote = "series"],
       R("l2", "movie", 3, 1, "pending", 1, "none")},
      {R("l1", "series", 1, 1, "matched", 1, "trusted"), R("l1", "series", 0, 0, "failed", 1, "file"),
       R("l2", "series", 3, 2, "matched", 2, "file")},
      {R("l1", "movie", 1, 1, "matched", 1, "file"),
       [R("l1", "series", 3, 0, "skipped", 2, "url") EXCEPT !.sort = 1],
       R("l2", "movie", 1, 2, "pending", 2, "none")},
      {Ep("l1", <<1, 1>>, 3, TRUE), Ep("l2", <<1, 1>>, 1, FALSE), Ep("l1", <<0, 1>>, 3, TRUE)},
      {Ep("l1", <<1, 2>>, 1, TRUE), Ep("l2", <<2, 1>>, 3, TRUE)}>>

MCHit == [q \in {"q"} |-> <<"exact", "prefix", "inside">>]
MCOutlines == {{}, {<<1, 1>>, <<1, 3>>, <<2, 1>>, <<0, 1>>}}

MCSourceSize == [v \in Variants |-> IF v = Large THEN 3 ELSE 2]
Left(v, n) == [path |-> Final(v), size |-> n]
MCLeftovers == {<<Left(v, 4), Left(w, 2)>> : v, w \in Variants \ {Large}}
               \ {<<Left(v, 4), Left(v, 2)>> : v \in Variants}
MCSymmetry == Permutations(Clients) \cup Permutations(Variants \ {Large})

VARIABLE part

Init == QueriesInit /\ AudioInit /\ part \in {"queries", "audio"}

Next ==
    \/ part = "queries" /\ QueriesNext /\ UNCHANGED <<part, audioVars>>
    \/ part = "audio" /\ AudioNext /\ UNCHANGED <<part, queryVars>>

Spec == Init /\ [][Next]_<<part, queryVars, audioVars>>
=============================================================================
