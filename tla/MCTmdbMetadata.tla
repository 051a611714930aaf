--------------------------- MODULE MCTmdbMetadata ---------------------------
(***************************************************************************)
(* Two provider ids; the first loses its text and changes its artwork when *)
(* the provider edits it, the second has no artwork for the series.        *)
(***************************************************************************)
EXTENDS TmdbMetadata

MCAnswers ==
    <<<<[title |-> 11, text |-> 11, art |-> 11], [title |-> 12, text |-> 13, art |-> 12]>>,
      <<[title |-> 21, text |-> 0, art |-> 21], [title |-> 21, text |-> 0, art |-> 21]>>>>
MCEditions == {1, 2}
=============================================================================
