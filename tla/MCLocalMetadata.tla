---------------------------- MODULE MCLocalMetadata ----------------------------
(***************************************************************************)
(* Directories of one movie: one file with its own NFO and a movie.nfo, two *)
(* versions that share movie.nfo, and the first import of two versions with *)
(* an NFO each.                                                             *)
(***************************************************************************)
EXTENDS LocalMetadata

MCOwn == [f1 |-> "f1.nfo", f2 |-> "f2.nfo"]
MCRank == [p \in {"f1.nfo", "f2.nfo", "movie.nfo"} |->
             CASE p = "f1.nfo" -> 1 [] p = "f2.nfo" -> 2 [] p = "movie.nfo" -> 3]
MCOwns == [full |-> Fields, brief |-> {"tagline"}, odd |-> {"overview"}]
MCId == [full |-> "m", brief |-> "none", odd |-> "several"]

Layout(fs, ps, later, n, e, up, stops) ==
    [files |-> fs, paths |-> ps, later |-> later, scans |-> n, edits |-> e, providers |-> up,
     stops |-> stops]

Alone == Layout({"f1"}, {"f1.nfo", "movie.nfo"}, {}, 3, 2, {"up", "failing", "off"}, TRUE)
Shared == Layout({"f1", "f2"}, {"movie.nfo"}, {"f2"}, 3, 2, {"up", "failing"}, FALSE)
Versions == Layout({"f1", "f2"}, {"f1.nfo", "f2.nfo"}, {}, 1, 0, {"up"}, FALSE)
MCLayouts == {Alone, Shared, Versions}

Twice == {[Versions EXCEPT !.scans = 2, !.edits = 1]}
=============================================================================
