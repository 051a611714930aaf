----------------------------- MODULE MCMediaWork -----------------------------
(***************************************************************************)
(* The work on media that workers do besides committing a scan, for TLC:   *)
(* enriching the groups of a scan, and detecting the intro of a season.    *)
(* They share no state, so a behaviour moves one of them while the other   *)
(* has nothing left to do.                                                 *)
(*                                                                         *)
(* A movie, another of the same name and a later year that only its        *)
(* directory gives away, and a series with an accepted id; all three share *)
(* a poster, the second also names an artwork of a foreign host.           *)
(***************************************************************************)
EXTENDS MetadataEnrichment, IntroDetection

MCFile == [type |-> "movie", hint |-> None, id |-> None, title |-> "a", plain |-> "a", year |-> 0,
           container |-> None, containerYear |-> 0, seasons |-> {}, forced |-> FALSE,
           text |-> None, poster |-> NoArt, still |-> NoArt]

MCFiles == <<[MCFile EXCEPT !.plain = "a:"],
             [MCFile EXCEPT !.title = "a:", !.plain = "a:", !.year = 1, !.container = "a", !.poster = 19],
             [MCFile EXCEPT !.type = "series", !.hint = "id7", !.id = "id7", !.seasons = {1},
                            !.poster = Generic, !.still = Generic]>>

MCAnswers ==
    [k \in {<<"id7", ById>>, <<"a", 0>>, <<"a", 1>>} |->
       CASE k = <<"id7", ById>> -> [id |-> "id7", art |-> 11]
         [] k = <<"a", 0>> -> [id |-> "id5", art |-> 11]
         [] OTHER -> NoAnswer]
MCOutlines == [i \in {"id5", "id7"} |-> [id |-> i, art |-> IF i = "id7" THEN 12 ELSE NoArt]]
MCUntrusted == {19}
MCLookupTitle == [t \in {"a", "a:"} |-> t]
MCCacheTitle == [t \in {"a", "a:"} |-> "a"]

\* Every group was enriched before.
EnrichIdle ==
    /\ cache = [k \in Kinds |-> EmptyCache] /\ memo = EmptyCache /\ locked = {}
    /\ work = [w \in Workers |-> Idle] /\ todo = {} /\ prepared = {} /\ rejected = {}
    /\ results = [g \in Groups |-> NoResult]
    /\ disk = {} /\ guards = {} /\ refs = {} /\ faults = 0

\* The season has no intro, and its files are what they will be.
IntroIdle ==
    /\ bytes = MaxVersion /\ rows = MaxVersion /\ refresh = NoRefresh
    /\ analysis = [outcome |-> "no_match", of |-> MaxVersion, read |-> MaxVersion]
    /\ cooling = FALSE /\ markers = NoMarkers
    /\ job = NoJob /\ exec = [w \in Detectors |-> Resting]
    /\ scan = [state |-> "none", locked |-> FALSE, left |-> 0] /\ raced = FALSE

Init == (EnrichInit /\ IntroIdle) \/ (EnrichIdle /\ IntroInit)

Next == (EnrichNext /\ UNCHANGED introVars) \/ (IntroNext /\ UNCHANGED enrichVars)

Spec == Init /\ [][Next]_<<enrichVars, introVars>> /\ EnrichFairness /\ IntroFairness
=============================================================================
