----------------------------- MODULE MCCatalog -----------------------------
(***************************************************************************)
(* The catalog for TLC.  A behaviour stays within one scope: movies only,  *)
(* series only, or both over fewer files, each with its bound on watching. *)
(***************************************************************************)
EXTENDS Catalog, TLC

CONSTANTS Special,   \* the one path that is an episode of another season
          Other,     \* a path besides it
          Scopes

MCCoordinates == [p \in Paths |-> IF p = Special THEN <<2, 1>> ELSE <<1, 1>>]

VARIABLE scope

vars == <<catalogVars, scope>>

\* One file at a time, or two.
Batches(paths) == {<<p>> : p \in paths} \cup {<<Special, Other>>}

Scope(types, paths, watches) ==
    [types |-> types, paths |-> paths, watches |-> watches]

MCScopes == {Scope({"movie"}, Paths, 1), Scope({"movie"}, {Special, Other}, 2),
             Scope({"episode"}, Paths, 1), Scope({"movie", "episode"}, {Special, Other}, 1)}

Init == CatalogInit /\ scope \in Scopes

Next ==
    /\ CatalogNext(scope.types, Batches(scope.paths), scope.paths)
    /\ now' <= scope.watches
    /\ UNCHANGED scope

Spec == Init /\ [][Next]_vars

MCSymmetry == Permutations(Keys)

=============================================================================
