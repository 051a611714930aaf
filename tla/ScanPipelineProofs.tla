------------------------- MODULE ScanPipelineProofs -------------------------
(***************************************************************************)
(* The counters, the report and the artwork of a scan, for any groups, any *)
(* fates of theirs and any size of the two channels.                       *)
(***************************************************************************)
EXTENDS ScanPipeline, FiniteSetTheorems, WellFoundedInduction, TLAPS

-----------------------------------------------------------------------------
(* The inductive invariant.  A group is in one place only, from the list   *)
(* of the planned ones to the hands of the coordinator; what has left the  *)
(* last place is in the report.                                            *)

Active == task \in {"pipeline", "finish"}

Job == [status : {"pending", "running", "success", "cancelled", "failed"},
        phase : {"none", "processing", "finished"}, total : Nat, analyzed : Nat, committed : Nat, remote : Nat,
        percent : Nat, attempts : Nat,
        notified : {"none", "cancelled", "completed", "completed_with_issues"}]

JobFits ==
    /\ job \in Job
    /\ job.status # "success" => job.percent < 100
    /\ job.status = "success" => task = "ended"
    /\ Active => job.status = "running"

Reached(n) == {g \in Groups : cp[g] >= n}

CountersFit ==
    /\ cp \in [Groups -> 0 .. 3]
    /\ Active =>
         /\ job.total = TotalFiles
         /\ job.analyzed = Unchanged + Issues + Files(Reached(1))
         /\ job.committed = Unchanged + Issues + Files(Reached(2))
         /\ job.remote = Unchanged + Issues + Files(Reached(3))

\* The planned groups from a position on.
Ahead(at) ==
    {g \in Groups : \E i \in DOMAIN Pending : \E k \in DOMAIN Pending[i] :
        g = Pending[i][k] /\ (i > at[1] \/ (i = at[1] /\ k >= at[2]))}

AnalysisFits ==
    /\ ana \in [pc : {"none", "pending", "group", "commit", "send", "done"}, at : Nat \X Nat]
    /\ ana.at[1] \in 1 .. Len(Pending) + 1 /\ ana.at[2] >= 1
    /\ ana.pc \in {"none", "pending"} => ana.at[2] = 1
    /\ ana.pc \in {"group", "commit", "send"} =>
         ana.at[1] \in DOMAIN Pending /\ ana.at[2] \in DOMAIN Pending[ana.at[1]]
    /\ ana.pc = "done" => flag \/ ana.at[1] > Len(Pending)

Prepared == [g : Groups, empty : BOOLEAN]
Elements(s) == {s[k] : k \in DOMAIN s}
Names(s) == {s[k].g : k \in DOMAIN s}
Taken == {co.g} \ {0}

PlacesFit ==
    /\ queue \in Seq(Groups) /\ Len(queue) <= QueueCapacity
    /\ DOMAIN busy \subseteq Groups /\ busy = [g \in DOMAIN busy |-> busy[g]]
    /\ Cardinality(DOMAIN busy) <= Concurrency
    /\ sending \in Seq(Prepared) /\ Len(sending) <= 1
    /\ prepared \in Seq(Prepared) /\ Len(prepared) <= QueueCapacity
    /\ co \in [pc : {"none", "recv", "commit", "release", "cleanup", "record", "done"},
               g : Groups \cup {0}]
    /\ co.pc \in {"none", "recv", "done"} <=> co.g = 0

\* The six places: ahead of the analysis, queued, in preparation, waiting for
\* room, prepared, in the coordinator's hands.
Apart(a, q, b, s, p, c) ==
    /\ a \cap (q \cup b \cup s \cup p \cup c) = {}
    /\ q \cap (b \cup s \cup p \cup c) = {}
    /\ b \cap (s \cup p \cup c) = {}
    /\ s \cap (p \cup c) = {}
    /\ p \cap c = {}

GroupsApart ==
    /\ Apart(Ahead(ana.at), Elements(queue), DOMAIN busy, Names(sending), Names(prepared), Taken)
    /\ \A i, j \in DOMAIN queue : queue[i] = queue[j] => i = j
    /\ \A i, j \in DOMAIN prepared : prepared[i].g = prepared[j].g => i = j

Past == Elements(queue) \cup DOMAIN busy \cup Names(sending) \cup Names(prepared) \cup Taken
Underway == Ahead(ana.at) \cup Past

FatesFit ==
    /\ fate \in [Groups -> Fate]
    /\ \A g \in Past : fate[g] \notin {"rejected", "lost"}
    /\ ana.pc = "send" => fate[Current] \notin {"rejected", "lost"}

\* Nothing outlives the pipeline, and nobody is passed over without a cancellation.
Dropped ==
    /\ queue = <<>> /\ DOMAIN busy = {} /\ sending = <<>> /\ prepared = <<>>
    /\ co = Idle /\ guards = {} /\ ana = [pc |-> "none", at |-> <<1, 1>>]

NobodyIsForgotten ==
    /\ task # "pipeline" => Dropped
    /\ \A g \in DOMAIN busy : busy[g] = "empty" => flag
    /\ \A k \in DOMAIN sending : sending[k].empty => flag
    /\ \A k \in DOMAIN prepared : prepared[k].empty => flag
    /\ co.pc = "done" => flag \/ (PreparationEnded /\ prepared = <<>>)

GuardsFit ==
    guards \subseteq DOMAIN busy \cup Names(sending) \cup Names(prepared)
                     \cup (IF co.pc \in {"commit", "release"} THEN {co.g} ELSE {})

\* What is about to refer to artwork has it in the cache.
ArtworkFits ==
    /\ refs \subseteq disk
    /\ \A g \in DOMAIN busy : busy[g] = "ready" /\ fate[g] = "matched" => g \in disk
    /\ \A k \in DOMAIN sending :
          ~sending[k].empty /\ fate[sending[k].g] = "matched" => sending[k].g \in disk
    /\ \A k \in DOMAIN prepared :
          ~prepared[k].empty /\ fate[prepared[k].g] = "matched" => prepared[k].g \in disk
    /\ co.pc = "commit" /\ fate[co.g] = "matched" => co.g \in disk

Reported == report.matched + report.unmatched + report.failed

Report == [matched : Nat, unmatched : Nat, failed : Nat, issues : Nat, listed : Nat]

ReportFits ==
    /\ report \in Report
    /\ task = "pipeline" /\ ~flag => Reported = Files(Groups \ Underway)
    /\ task = "finish" /\ ~flag => Reported = Files(Groups) + Issues
    /\ EveryFileIsReported

PipelineIInv ==
    /\ flag \in BOOLEAN /\ task \in {"idle", "pipeline", "finish", "ended"}
    /\ JobFits /\ CountersFit
    /\ AnalysisFits /\ PlacesFit /\ GroupsApart
    /\ FatesFit /\ NobodyIsForgotten
    /\ GuardsFit /\ ArtworkFits /\ ReportFits

-----------------------------------------------------------------------------

(* Induction over a set of numbers, by its least member.                   *)

LEMMA LeastNumber ==
    ASSUME NEW T, T \subseteq Nat, T # {}
    PROVE  \E n \in T : \A m \in T : n <= m
<1> DEFINE less == OpToRel(<, Nat)
<1>1. \A m, n \in Nat : m < n => <<m, n>> \in less
  BY DEF OpToRel
<1>2. IsWellFoundedOn(less, Nat)
  BY NatLessThanWellFounded
<1> HIDE DEF less
<1>3. PICK n \in T : \A m \in T : ~ (<<m, n>> \in less)
  BY <1>2, WFMin
<1>4. \A m \in T : ~ (m < n)
  BY <1>1, <1>3, Zenon
<1>. QED BY <1>4

LEMMA Induction ==
    ASSUME NEW T, 0 \in T, \A n \in Nat : n \in T => n + 1 \in T
    PROVE  \A n \in Nat : n \in T
<1> SUFFICES ASSUME {n \in Nat : n \notin T} # {} PROVE FALSE
  OBVIOUS
<1>1. PICK n \in Nat : n \notin T /\ \A m \in Nat : m \notin T => n <= m
  BY LeastNumber
<1>. QED BY <1>1

-----------------------------------------------------------------------------
(* The number of files of a set of groups.  The fold is a function on the  *)
(* subsets of the set it starts from: such tables agree where they meet.   *)

Pick(s) == CHOOSE x \in s : TRUE

Adds(h, D) == \A s \in D : h[s] = IF s = {} THEN 0 ELSE Size[Pick(s)] + h[s \ {Pick(s)}]

Table(h, S) == h = [s \in SUBSET S |-> IF s = {} THEN 0
                       ELSE LET x == CHOOSE x \in s : TRUE IN Size[x] + h[s \ {x}]]

LEMMA TableAdds ==
    ASSUME NEW S, NEW h
    PROVE  Table(h, S) <=> h = [s \in SUBSET S |-> h[s]] /\ Adds(h, SUBSET S)
<1>1. ASSUME Table(h, S) PROVE h = [s \in SUBSET S |-> h[s]] /\ Adds(h, SUBSET S)
  BY <1>1 DEF Table, Adds, Pick
<1>2. ASSUME h = [s \in SUBSET S |-> h[s]], Adds(h, SUBSET S) PROVE Table(h, S)
  BY <1>2 DEF Table, Adds, Pick
<1>. QED BY <1>1, <1>2

LEMMA TableExists ==
    ASSUME NEW S, S \subseteq Groups, IsFiniteSet(S)
    PROVE  \E h : Table(h, S)
<1> DEFINE small(n) == {s \in SUBSET S : Cardinality(s) <= n}
           T == {n \in Nat : \E h : h \in [small(n) -> Nat] /\ Adds(h, small(n))}
<1>1. \A s \in SUBSET S : Cardinality(s) \in Nat /\ (Cardinality(s) = 0 => s = {})
  BY FS_Subset, FS_CardinalityType, FS_EmptySet
<1>2. \A s \in SUBSET S : s # {} => /\ Pick(s) \in s /\ Size[Pick(s)] \in Nat
                                     /\ s \ {Pick(s)} \in SUBSET S
                                     /\ Cardinality(s \ {Pick(s)}) = Cardinality(s) - 1
  <2> SUFFICES ASSUME NEW s \in SUBSET S, s # {}
               PROVE  /\ Pick(s) \in s /\ Size[Pick(s)] \in Nat
                      /\ s \ {Pick(s)} \in SUBSET S
                      /\ Cardinality(s \ {Pick(s)}) = Cardinality(s) - 1
    OBVIOUS
  <2>1. Pick(s) \in s
    BY DEF Pick
  <2>2. Cardinality(s \ {Pick(s)}) = Cardinality(s) - 1
    BY <2>1, FS_Subset, FS_RemoveElement
  <2>. QED BY <2>1, <2>2, PipelineAssumption
<1>3. 0 \in T
  <2> DEFINE h == [s \in small(0) |-> 0]
  <2>1. \A s \in small(0) : s = {}
    BY <1>1
  <2>2. h \in [small(0) -> Nat] /\ Adds(h, small(0))
    BY <2>1 DEF Adds
  <2>. QED BY <2>2
<1>4. ASSUME NEW n \in Nat, n \in T PROVE n + 1 \in T
  <2>1. PICK h : h \in [small(n) -> Nat] /\ Adds(h, small(n))
    BY <1>4
  <2> DEFINE k == [s \in small(n + 1) |->
                     IF s \in small(n) THEN h[s] ELSE Size[Pick(s)] + h[s \ {Pick(s)}]]
  <2>2. \A s \in small(n + 1) : s # {} => s \ {Pick(s)} \in small(n)
    <3> SUFFICES ASSUME NEW s \in small(n + 1), s # {} PROVE s \ {Pick(s)} \in small(n)
      OBVIOUS
    <3>1. s \in SUBSET S /\ Cardinality(s) \in Nat /\ Cardinality(s) <= n + 1
      BY <1>1
    <3>2. s \ {Pick(s)} \in SUBSET S /\ Cardinality(s \ {Pick(s)}) = Cardinality(s) - 1
      BY <1>2, <3>1
    <3>. QED BY <3>1, <3>2
  <2>3. \A s \in small(n) : s \in small(n + 1)
    <3> SUFFICES ASSUME NEW s \in small(n) PROVE s \in small(n + 1)
      OBVIOUS
    <3>1. s \in SUBSET S /\ Cardinality(s) \in Nat /\ Cardinality(s) <= n
      BY <1>1
    <3>. QED BY <3>1
  <2>4. \A s \in small(n + 1) : s \notin small(n) => s # {} /\ Size[Pick(s)] \in Nat
    <3>1. {} \in small(n)
      BY FS_EmptySet
    <3>. QED BY <1>2, <3>1
  <2>5. k \in [small(n + 1) -> Nat]
    <3> HIDE DEF small
    <3>1. \A s \in small(n + 1) : k[s] \in Nat
      BY <2>1, <2>2, <2>4
    <3>. QED BY <3>1
  <2>6. ASSUME NEW s \in small(n + 1)
        PROVE  k[s] = IF s = {} THEN 0 ELSE Size[Pick(s)] + k[s \ {Pick(s)}]
    <3>1. CASE s \in small(n)
      <4>1. k[s] = h[s]
        BY <3>1
      <4>2. s # {} => k[s \ {Pick(s)}] = h[s \ {Pick(s)}]
        BY <2>2, <2>3
      <4>. QED BY <2>1, <3>1, <4>1, <4>2 DEF Adds
    <3>2. CASE s \notin small(n)
      <4>1. s # {} /\ k[s] = Size[Pick(s)] + h[s \ {Pick(s)}]
        BY <2>4, <3>2
      <4>2. k[s \ {Pick(s)}] = h[s \ {Pick(s)}]
        BY <2>2, <2>3, <4>1
      <4>. QED BY <4>1, <4>2
    <3>. QED BY <3>1, <3>2
  <2>7. Adds(k, small(n + 1))
    BY <2>6 DEF Adds
  <2> HIDE DEF k, small
  <2>8. \E f : f \in [small(n + 1) -> Nat] /\ Adds(f, small(n + 1))
    BY <2>5, <2>7
  <2>. QED BY <2>8
<1>5. \A n \in Nat : n \in T
  <2> HIDE DEF T
  <2>. QED BY <1>3, <1>4, Induction
<1>6. small(Cardinality(S)) = SUBSET S /\ Cardinality(S) \in Nat
  <2>1. \A s \in SUBSET S : Cardinality(s) <= Cardinality(S)
    BY FS_Subset
  <2>. QED BY <1>1, <2>1
<1>7. PICK h : h \in [SUBSET S -> Nat] /\ Adds(h, SUBSET S)
  <2> HIDE DEF small
  <2>. QED BY <1>5, <1>6
<1>. QED BY <1>7, TableAdds

\* Two tables agree where both are defined, and hold numbers.
LEMMA TablesAgree ==
    ASSUME NEW S, NEW U, S \subseteq Groups, IsFiniteSet(S), U \subseteq S,
           NEW h, Table(h, S), NEW k, Table(k, U)
    PROVE  \A s \in SUBSET U : h[s] = k[s] /\ h[s] \in Nat
<1> DEFINE T == {n \in Nat : \A s \in SUBSET U : Cardinality(s) = n => h[s] = k[s] /\ h[s] \in Nat}
<1>1. Adds(h, SUBSET S) /\ Adds(k, SUBSET U)
  BY TableAdds
<1>2. \A s \in SUBSET U : IsFiniteSet(s) /\ Cardinality(s) \in Nat /\ (Cardinality(s) = 0 <=> s = {})
  BY FS_Subset, FS_CardinalityType, FS_EmptySet
<1>3. 0 \in T
  <2>1. \A s \in SUBSET U : Cardinality(s) = 0 => h[s] = k[s] /\ h[s] \in Nat
    BY <1>1, <1>2 DEF Adds
  <2>. QED BY <2>1
<1>4. ASSUME NEW n \in Nat, n \in T PROVE n + 1 \in T
  <2>1. ASSUME NEW s \in SUBSET U, Cardinality(s) = n + 1
        PROVE  h[s] = k[s] /\ h[s] \in Nat
    <3>1. s # {} /\ s \in SUBSET S /\ IsFiniteSet(s)
      BY <1>2, <2>1
    <3>2. Pick(s) \in s
      BY <3>1 DEF Pick
    <3>3. Cardinality(s \ {Pick(s)}) = n
      <4>1. \A p \in s : Cardinality(s \ {p}) = Cardinality(s) - 1
        BY <3>1, FS_RemoveElement
      <4>. QED BY <2>1, <3>2, <4>1
    <3>4. h[s \ {Pick(s)}] = k[s \ {Pick(s)}] /\ h[s \ {Pick(s)}] \in Nat
      BY <1>4, <3>3
    <3>5. h[s] = Size[Pick(s)] + h[s \ {Pick(s)}] /\ k[s] = Size[Pick(s)] + k[s \ {Pick(s)}]
      BY <1>1, <3>1 DEF Adds
    <3>6. Size[Pick(s)] \in Nat
      BY <3>1, <3>2, PipelineAssumption
    <3>. QED BY <3>4, <3>5, <3>6
  <2>. QED BY <2>1
<1>5. \A n \in Nat : n \in T
  <2> HIDE DEF T
  <2>. QED BY <1>3, <1>4, Induction
<1>. QED BY <1>2, <1>5

LEMMA FilesOfTable ==
    ASSUME NEW S, S \subseteq Groups, IsFiniteSet(S)
    PROVE  \E h : Table(h, S) /\ Files(S) = h[S]
<1> DEFINE h == CHOOSE h : Table(h, S)
<1>1. Table(h, S)
  BY TableExists
<1>2. Files(S) = h[S]
  BY DEF Files, FoldSet, MapThenFoldSet, Table
<1>. QED BY <1>1, <1>2

LEMMA FilesPick ==
    ASSUME NEW S, S \subseteq Groups, IsFiniteSet(S)
    PROVE  /\ Files(S) \in Nat
           /\ S = {} => Files(S) = 0
           /\ S # {} => Pick(S) \in S /\ Files(S) = Size[Pick(S)] + Files(S \ {Pick(S)})
<1>1. PICK h : Table(h, S) /\ Files(S) = h[S]
  BY FilesOfTable
<1>2. Files(S) \in Nat
  <2>1. \A s \in SUBSET S : h[s] = h[s] /\ h[s] \in Nat
    BY <1>1, TablesAgree
  <2>. QED BY <1>1, <2>1
<1>3. Adds(h, SUBSET S)
  BY <1>1, TableAdds
<1>4. S = {} => Files(S) = 0
  BY <1>1, <1>3 DEF Adds
<1>5. ASSUME S # {} PROVE Pick(S) \in S /\ Files(S) = Size[Pick(S)] + Files(S \ {Pick(S)})
  <2> DEFINE U == S \ {Pick(S)}
  <2>1. Pick(S) \in S
    BY <1>5 DEF Pick
  <2>2. U \subseteq S /\ U \subseteq Groups /\ IsFiniteSet(U)
    BY FS_RemoveElement
  <2>3. PICK k : Table(k, U) /\ Files(U) = k[U]
    BY <2>2, FilesOfTable
  <2>4. h[U] = k[U]
    BY <1>1, <2>2, <2>3, TablesAgree
  <2>5. h[S] = Size[Pick(S)] + h[U]
    BY <1>3, <1>5 DEF Adds
  <2>. QED BY <1>1, <2>1, <2>3, <2>4, <2>5
<1>. QED BY <1>2, <1>4, <1>5

\* The order in which the groups are added does not matter.
LEMMA FilesRemove ==
    ASSUME NEW S, S \subseteq Groups, IsFiniteSet(S), NEW g \in S
    PROVE  Files(S) = Size[g] + Files(S \ {g})
<1> DEFINE T == {n \in Nat : \A s \in SUBSET S : Cardinality(s) = n =>
                               \A x \in s : Files(s) = Size[x] + Files(s \ {x})}
<1>1. \A s \in SUBSET S : IsFiniteSet(s) /\ Cardinality(s) \in Nat /\ (Cardinality(s) = 0 <=> s = {})
  BY FS_Subset, FS_CardinalityType, FS_EmptySet
<1>2. 0 \in T
  BY <1>1
<1>3. ASSUME NEW n \in Nat, n \in T PROVE n + 1 \in T
  <2>1. ASSUME NEW s \in SUBSET S, Cardinality(s) = n + 1, NEW x \in s
        PROVE  Files(s) = Size[x] + Files(s \ {x})
    <3> DEFINE p == Pick(s)
    <3>1. p \in s /\ Files(s) = Size[p] + Files(s \ {p})
      BY <1>1, FilesPick
    <3>2. CASE x = p
      BY <3>1, <3>2
    <3>3. CASE x # p
      <4>1. Cardinality(s \ {p}) = n /\ Cardinality(s \ {x}) = n
        BY <1>1, <2>1, <3>1, FS_RemoveElement
      <4>2. Files(s \ {p}) = Size[x] + Files((s \ {p}) \ {x})
        BY <1>3, <3>3, <4>1
      <4>3. Files(s \ {x}) = Size[p] + Files((s \ {x}) \ {p})
        BY <1>3, <3>1, <3>3, <4>1
      <4> DEFINE rest == (s \ {x}) \ {p}
      <4>4. (s \ {p}) \ {x} = rest
        OBVIOUS
      <4>5. Files(rest) \in Nat
        <5>1. IsFiniteSet(rest) /\ rest \subseteq Groups
          BY <1>1
        <5>. QED BY <5>1, FilesPick
      <4>6. Size[x] \in Nat /\ Size[p] \in Nat
        BY <3>1, PipelineAssumption
      <4>7. Files(s \ {p}) = Size[x] + Files(rest) /\ Files(s \ {x}) = Size[p] + Files(rest)
        BY <4>2, <4>3, <4>4
      <4> HIDE DEF p, rest
      <4>8. Files(s) = Size[p] + (Size[x] + Files(rest))
        BY <3>1, <4>7
      <4>. QED BY <4>5, <4>6, <4>7, <4>8
    <3>. QED BY <3>2, <3>3
  <2>. QED BY <2>1
<1>4. \A n \in Nat : n \in T
  <2> HIDE DEF T
  <2>. QED BY <1>2, <1>3, Induction
<1>. QED BY <1>1, <1>4

LEMMA RangesAreFinite ==
    ASSUME NEW n \in Nat, NEW f, DOMAIN f = 1 .. n
    PROVE  IsFiniteSet({f[i] : i \in DOMAIN f})
<1> DEFINE values == {f[i] : i \in DOMAIN f}
           onto == [i \in 1 .. n |-> f[i]]
<1>1. onto \in Surjection(1 .. n, values)
  BY DEF Surjection
<1>2. IsFiniteSet(1 .. n)
  BY FS_Interval
<1> HIDE DEF onto
<1>. QED BY <1>1, <1>2, FS_Surjection

LEMMA GroupsAreFinite == IsFiniteSet(Groups)
<1> DEFINE split == [i \in DOMAIN Pending |-> {Pending[i][k] : k \in DOMAIN Pending[i]}]
<1>1. ASSUME NEW i \in DOMAIN Pending
      PROVE  IsFiniteSet(split[i])
  <2>1. Pending[i] \in Seq(Nat \ {0})
    BY PipelineAssumption
  <2>2. Len(Pending[i]) \in Nat /\ DOMAIN Pending[i] = 1 .. Len(Pending[i])
    BY <2>1
  <2>3. IsFiniteSet({Pending[i][k] : k \in DOMAIN Pending[i]})
    BY <2>2, RangesAreFinite
  <2>. QED BY <2>3
<1>2. Len(Pending) \in Nat /\ DOMAIN split = 1 .. Len(Pending)
  BY PipelineAssumption
<1>3. IsFiniteSet({split[i] : i \in DOMAIN split})
  <2> HIDE DEF split
  <2>. QED BY <1>2, RangesAreFinite
<1>4. IsFiniteSet(UNION {split[i] : i \in DOMAIN split})
  <2>1. \A P \in {split[i] : i \in DOMAIN split} : IsFiniteSet(P)
    BY <1>1
  <2> HIDE DEF split
  <2>. QED BY <1>3, <2>1, FS_UNION
<1>. QED BY <1>4 DEF Groups

LEMMA FilesAdd ==
    ASSUME NEW S, S \subseteq Groups, NEW g \in Groups, g \notin S
    PROVE  Files(S \union {g}) = Size[g] + Files(S)
<1> DEFINE both == S \union {g}
<1>1. both \subseteq Groups /\ IsFiniteSet(both) /\ g \in both
  BY GroupsAreFinite, FS_Subset
<1>2. Files(both) = Size[g] + Files(both \ {g})
  BY <1>1, FilesRemove
<1>3. both \ {g} = S
  OBVIOUS
<1>. QED BY <1>2, <1>3

LEMMA FilesOfSubset ==
    ASSUME NEW S, S \subseteq Groups, NEW U, U \subseteq S
    PROVE  Files(S) \in Nat /\ Files(U) \in Nat /\ Files(U) <= Files(S)
<1> DEFINE T == {n \in Nat : \A s \in SUBSET S : Cardinality(s) = n =>
                    Files(U) <= Files(U \union s)}
<1>1. \A s \in SUBSET S : IsFiniteSet(s) /\ Cardinality(s) \in Nat /\ (Cardinality(s) = 0 <=> s = {})
  BY GroupsAreFinite, FS_Subset, FS_CardinalityType, FS_EmptySet
<1>2. \A s \in SUBSET S : Files(s) \in Nat
  <2> SUFFICES ASSUME NEW s \in SUBSET S PROVE Files(s) \in Nat
    OBVIOUS
  <2>1. s \subseteq Groups /\ IsFiniteSet(s)
    BY <1>1
  <2>. QED BY <2>1, FilesPick
<1>3. 0 \in T
  <2>1. U \union {} = U /\ Files(U) \in Nat
    BY <1>2
  <2>2. \A s \in SUBSET S : Cardinality(s) = 0 => Files(U) <= Files(U \union s)
    BY <1>1, <2>1
  <2>. QED BY <2>2
<1>4. ASSUME NEW n \in Nat, n \in T PROVE n + 1 \in T
  <2>1. ASSUME NEW s \in SUBSET S, Cardinality(s) = n + 1
        PROVE  Files(U) <= Files(U \union s)
    <3>1. IsFiniteSet(s) /\ s # {}
      BY <1>1, <2>1
    <3>2. PICK g \in s : TRUE
      BY <3>1
    <3> DEFINE rest == s \ {g}
               less == U \union rest
    <3>3. Cardinality(rest) = n
      <4>1. Cardinality(s \ {g}) = Cardinality(s) - 1
        BY <3>1, <3>2, FS_RemoveElement
      <4>. QED BY <2>1, <4>1
    <3>4. Files(U) <= Files(less) /\ Files(U) \in Nat /\ Files(less) \in Nat
      BY <1>2, <1>4, <3>3
    <3>5. less \subseteq Groups /\ g \in Groups
      OBVIOUS
    <3>6. CASE g \in less
      <4>1. U \union s = less
        BY <3>6
      <4>. QED BY <3>4, <4>1
    <3>7. CASE g \notin less
      <4>1. U \union s = less \union {g}
        OBVIOUS
      <4>2. Files(less \union {g}) = Size[g] + Files(less)
        BY <3>5, <3>7, FilesAdd
      <4>3. Size[g] \in Nat
        BY <3>5, PipelineAssumption
      <4>4. Files(U \union s) = Size[g] + Files(less)
        BY <4>1, <4>2
      <4> HIDE DEF less
      <4>. QED BY <3>4, <4>3, <4>4
    <3>. QED BY <3>6, <3>7
  <2>. QED BY <2>1
<1>5. \A n \in Nat : n \in T
  <2> HIDE DEF T
  <2>. QED BY <1>3, <1>4, Induction
<1>6. U \union S = S /\ U \in SUBSET S /\ S \in SUBSET S
  OBVIOUS
<1>7. Files(U) <= Files(U \union S)
  BY <1>1, <1>5, <1>6
<1>. QED BY <1>2, <1>6, <1>7

-----------------------------------------------------------------------------
(* Sequences of groups, the list of the analysis, the counters.            *)

LEMMA MinOfTwo ==
    ASSUME NEW a \in Int, NEW b \in Int
    PROVE  Min({a, b}) = IF a <= b THEN a ELSE b
BY DEF Min

LEMMA MaxOfTwo ==
    ASSUME NEW a \in Int, NEW b \in Int
    PROVE  Max({a, b}) = IF a >= b THEN a ELSE b
BY DEF Max

LEMMA QueueTail ==
    ASSUME NEW T, NEW s \in Seq(T), s # <<>>,
           \A i, j \in DOMAIN s : s[i] = s[j] => i = j
    PROVE  /\ Tail(s) \in Seq(T) /\ Head(s) \in T /\ Len(Tail(s)) = Len(s) - 1
           /\ Elements(s) = Elements(Tail(s)) \cup {Head(s)}
           /\ Head(s) \notin Elements(Tail(s))
           /\ \A i, j \in DOMAIN Tail(s) : Tail(s)[i] = Tail(s)[j] => i = j
<1>1. Len(s) \in Nat /\ Len(s) > 0 /\ DOMAIN s = 1 .. Len(s) /\ Head(s) = s[1]
  OBVIOUS
<1>2. Tail(s) \in Seq(T) /\ Len(Tail(s)) = Len(s) - 1 /\ DOMAIN Tail(s) = 1 .. Len(s) - 1
  BY <1>1
<1>3. \A k \in DOMAIN Tail(s) : Tail(s)[k] = s[k + 1] /\ k + 1 \in DOMAIN s /\ k + 1 # 1
  BY <1>1, <1>2
<1>4. \A k \in DOMAIN s : k = 1 \/ (k - 1 \in DOMAIN Tail(s) /\ s[k] = Tail(s)[k - 1])
  BY <1>1, <1>2
<1>5. Elements(s) = Elements(Tail(s)) \cup {Head(s)}
  BY <1>1, <1>3, <1>4 DEF Elements
<1>6. Head(s) \notin Elements(Tail(s))
  BY <1>1, <1>3 DEF Elements
<1>7. \A i, j \in DOMAIN Tail(s) : Tail(s)[i] = Tail(s)[j] => i = j
  BY <1>2, <1>3
<1>. QED BY <1>1, <1>2, <1>5, <1>6, <1>7

LEMMA QueueAppend ==
    ASSUME NEW T, NEW s \in Seq(T), NEW x \in T, x \notin Elements(s),
           \A i, j \in DOMAIN s : s[i] = s[j] => i = j
    PROVE  /\ Append(s, x) \in Seq(T) /\ Len(Append(s, x)) = Len(s) + 1
           /\ Elements(Append(s, x)) = Elements(s) \cup {x}
           /\ \A i, j \in DOMAIN Append(s, x) : Append(s, x)[i] = Append(s, x)[j] => i = j
<1> DEFINE t == Append(s, x)
<1>1. Len(s) \in Nat /\ DOMAIN s = 1 .. Len(s) /\ DOMAIN t = 1 .. Len(s) + 1
  OBVIOUS
<1>2. t \in Seq(T) /\ Len(t) = Len(s) + 1 /\ t[Len(s) + 1] = x
  OBVIOUS
<1>3. \A k \in DOMAIN s : t[k] = s[k] /\ k \in DOMAIN t /\ s[k] # x
  BY <1>1 DEF Elements
<1>4. \A k \in DOMAIN t : k = Len(s) + 1 \/ k \in DOMAIN s
  BY <1>1
<1> HIDE DEF t
<1>5. Elements(t) = Elements(s) \cup {x}
  BY <1>1, <1>2, <1>3, <1>4 DEF Elements
<1>6. \A i, j \in DOMAIN t : t[i] = t[j] => i = j
  BY <1>2, <1>3, <1>4
<1>. QED BY <1>2, <1>5, <1>6 DEF t

LEMMA ReadyTail ==
    ASSUME NEW s \in Seq(Prepared), s # <<>>,
           \A i, j \in DOMAIN s : s[i].g = s[j].g => i = j
    PROVE  /\ Tail(s) \in Seq(Prepared) /\ Head(s) \in Prepared /\ Len(Tail(s)) = Len(s) - 1
           /\ Head(s) = s[1] /\ 1 \in DOMAIN s
           /\ Names(s) = Names(Tail(s)) \cup {Head(s).g}
           /\ Head(s).g \notin Names(Tail(s))
           /\ \A i, j \in DOMAIN Tail(s) : Tail(s)[i].g = Tail(s)[j].g => i = j
           /\ \A k \in DOMAIN Tail(s) : k + 1 \in DOMAIN s /\ Tail(s)[k] = s[k + 1]
<1>1. Len(s) \in Nat /\ Len(s) > 0 /\ DOMAIN s = 1 .. Len(s) /\ Head(s) = s[1]
  OBVIOUS
<1>2. Tail(s) \in Seq(Prepared) /\ Len(Tail(s)) = Len(s) - 1 /\ DOMAIN Tail(s) = 1 .. Len(s) - 1
  BY <1>1
<1>3. \A k \in DOMAIN Tail(s) : Tail(s)[k] = s[k + 1] /\ k + 1 \in DOMAIN s /\ k + 1 # 1
  BY <1>1, <1>2
<1>4. \A k \in DOMAIN s : k = 1 \/ (k - 1 \in DOMAIN Tail(s) /\ s[k] = Tail(s)[k - 1])
  BY <1>1, <1>2
<1>5. Names(s) = Names(Tail(s)) \cup {Head(s).g}
  <2>1. \A k \in DOMAIN s : s[k].g \in Names(Tail(s)) \cup {Head(s).g}
    BY <1>1, <1>4 DEF Names
  <2>2. \A k \in DOMAIN Tail(s) : Tail(s)[k].g \in Names(s)
    BY <1>3 DEF Names
  <2>3. Head(s).g \in Names(s)
    BY <1>1 DEF Names
  <2>. QED BY <2>1, <2>2, <2>3 DEF Names
<1>6. Head(s).g \notin Names(Tail(s))
  BY <1>1, <1>3 DEF Names
<1>7. \A i, j \in DOMAIN Tail(s) : Tail(s)[i].g = Tail(s)[j].g => i = j
  BY <1>2, <1>3
<1>8. Head(s) \in Prepared /\ 1 \in DOMAIN s
  BY <1>1
<1>. QED BY <1>1, <1>2, <1>3, <1>5, <1>6, <1>7, <1>8

LEMMA ReadyAppend ==
    ASSUME NEW s \in Seq(Prepared), NEW x \in Prepared, x.g \notin Names(s),
           \A i, j \in DOMAIN s : s[i].g = s[j].g => i = j
    PROVE  /\ Append(s, x) \in Seq(Prepared) /\ Len(Append(s, x)) = Len(s) + 1
           /\ Names(Append(s, x)) = Names(s) \cup {x.g}
           /\ \A i, j \in DOMAIN Append(s, x) : Append(s, x)[i].g = Append(s, x)[j].g => i = j
           /\ \A k \in DOMAIN Append(s, x) :
                 Append(s, x)[k] = x \/ (k \in DOMAIN s /\ Append(s, x)[k] = s[k])
<1> DEFINE t == Append(s, x)
<1>1. Len(s) \in Nat /\ DOMAIN s = 1 .. Len(s) /\ DOMAIN t = 1 .. Len(s) + 1
  OBVIOUS
<1>2. t \in Seq(Prepared) /\ Len(t) = Len(s) + 1 /\ t[Len(s) + 1] = x
  OBVIOUS
<1>3. \A k \in DOMAIN s : t[k] = s[k] /\ k \in DOMAIN t /\ s[k].g # x.g
  BY <1>1 DEF Names
<1>4. \A k \in DOMAIN t : k = Len(s) + 1 \/ k \in DOMAIN s
  BY <1>1
<1> HIDE DEF t
<1>5. Names(t) = Names(s) \cup {x.g}
  BY <1>1, <1>2, <1>3, <1>4 DEF Names
<1>6. \A i, j \in DOMAIN t : t[i].g = t[j].g => i = j
  BY <1>2, <1>3, <1>4
<1>. QED BY <1>2, <1>3, <1>4, <1>5, <1>6 DEF t

LEMMA OneElement ==
    ASSUME NEW s \in Seq(Prepared), s # <<>>, Len(s) <= 1
    PROVE  DOMAIN s = {1} /\ s[1] \in Prepared
<1>1. Len(s) \in Nat /\ Len(s) > 0 /\ DOMAIN s = 1 .. Len(s)
  OBVIOUS
<1>2. DOMAIN s = {1}
  BY <1>1
<1>. QED BY <1>2

LEMMA PlannedGroups ==
    /\ Pending \in Seq(Seq(Nat))
    /\ \A i \in DOMAIN Pending : /\ Len(Pending[i]) \in Nat /\ Len(Pending[i]) > 0
                                /\ DOMAIN Pending[i] = 1 .. Len(Pending[i])
    /\ DOMAIN Pending = 1 .. Len(Pending) /\ Len(Pending) \in Nat
    /\ Groups \subseteq Nat \ {0}
<1>1. \A i \in DOMAIN Pending : Pending[i] \in Seq(Nat \ {0}) /\ Pending[i] # <<>>
  BY PipelineAssumption
<1>2. \A i \in DOMAIN Pending : /\ Len(Pending[i]) \in Nat /\ Len(Pending[i]) > 0
                                /\ DOMAIN Pending[i] = 1 .. Len(Pending[i])
                                /\ Pending[i] \in Seq(Nat)
                                /\ \A k \in DOMAIN Pending[i] : Pending[i][k] \in Nat \ {0}
  BY <1>1
<1>3. DOMAIN Pending = 1 .. Len(Pending) /\ Len(Pending) \in Nat
  BY PipelineAssumption
<1>4. Pending = [i \in 1 .. Len(Pending) |-> Pending[i]]
  BY PipelineAssumption
<1>5. Pending \in [1 .. Len(Pending) -> Seq(Nat)]
  BY <1>2, <1>3, <1>4
<1>6. Pending \in Seq(Seq(Nat))
  BY <1>3, <1>5
<1>. QED BY <1>2, <1>3, <1>6 DEF Groups

LEMMA AheadOfTheStart == Ahead(<<1, 1>>) = Groups
BY PlannedGroups DEF Ahead, Groups

LEMMA AheadOfTheEnd ==
    ASSUME NEW at \in Nat \X Nat, at[1] > Len(Pending)
    PROVE  Ahead(at) = {}
BY PlannedGroups DEF Ahead

LEMMA AheadInGroups ==
    ASSUME NEW at
    PROVE  Ahead(at) \subseteq Groups
BY DEF Ahead, Groups

LEMMA AheadNext ==
    ASSUME AnalysisFits, ana.pc \in {"group", "commit", "send"}
    PROVE  /\ Current \in Groups
           /\ Ahead(ana.at) = Ahead(NextAt.at) \cup {Current}
           /\ Current \notin Ahead(NextAt.at)
           /\ NextAt.at \in Nat \X Nat
           /\ NextAt.at[1] \in 1 .. Len(Pending) + 1 /\ NextAt.at[2] >= 1
           /\ NextAt.pc = "pending" => NextAt.at[2] = 1
           /\ NextAt.pc = "group" =>
                NextAt.at[1] \in DOMAIN Pending /\ NextAt.at[2] \in DOMAIN Pending[NextAt.at[1]]
           /\ NextAt.pc \in {"pending", "group"}
           /\ NextAt = [pc |-> NextAt.pc, at |-> NextAt.at]
<1> DEFINE i == ana.at[1]
           k == ana.at[2]
           last == Len(Pending[i])
<1>1. /\ i \in DOMAIN Pending /\ i \in Nat /\ k \in Nat /\ last \in Nat /\ k \in 1 .. last
      /\ Current = Pending[i][k] /\ ana.at = <<i, k>> /\ i \in 1 .. Len(Pending)
  BY PlannedGroups DEF AnalysisFits, Current
<1>2. NextAt = IF k < last THEN [pc |-> "group", at |-> <<i, k + 1>>]
               ELSE [pc |-> "pending", at |-> <<i + 1, 1>>]
  BY DEF NextAt
<1>3. Current \in Groups
  BY <1>1, PlannedGroups DEF Groups
<1>4. Ahead(ana.at) = {g \in Groups : \E j \in DOMAIN Pending : \E l \in DOMAIN Pending[j] :
          g = Pending[j][l] /\ (j > i \/ (j = i /\ l >= k))}
  BY <1>1 DEF Ahead
<1>5. Ahead(NextAt.at) = {g \in Groups : \E j \in DOMAIN Pending : \E l \in DOMAIN Pending[j] :
          g = Pending[j][l] /\ (j > i \/ (j = i /\ l > k))}
  <2>1. CASE k < last
    <3>1. NextAt.at[1] = i /\ NextAt.at[2] = k + 1
      BY <1>2, <2>1
    <3> HIDE DEF i, k
    <3>. QED BY <1>1, <3>1, PlannedGroups DEF Ahead
  <2>2. CASE ~ (k < last)
    <3>1. NextAt.at[1] = i + 1 /\ NextAt.at[2] = 1
      BY <1>2, <2>2
    <3> HIDE DEF i, k
    <3>2. \A j \in DOMAIN Pending : \A l \in DOMAIN Pending[j] :
             (j > i + 1 \/ (j = i + 1 /\ l >= 1)) <=> (j > i \/ (j = i /\ l > k))
      <4> SUFFICES ASSUME NEW j \in DOMAIN Pending, NEW l \in DOMAIN Pending[j]
                   PROVE  (j > i + 1 \/ (j = i + 1 /\ l >= 1)) <=> (j > i \/ (j = i /\ l > k))
        OBVIOUS
      <4>1. j \in Nat /\ l \in Nat /\ l >= 1 /\ (j = i => l <= last)
        BY PlannedGroups
      <4>. QED BY <1>1, <2>2, <4>1
    <3>. QED BY <3>1, <3>2 DEF Ahead
  <2>. QED BY <2>1, <2>2
<1> HIDE DEF i, k
<1>6. Ahead(ana.at) = Ahead(NextAt.at) \cup {Current}
  <2>1. \A j \in DOMAIN Pending : \A l \in DOMAIN Pending[j] :
           (j > i \/ (j = i /\ l >= k)) <=> (j > i \/ (j = i /\ l > k) \/ (j = i /\ l = k))
    <3> SUFFICES ASSUME NEW j \in DOMAIN Pending, NEW l \in DOMAIN Pending[j]
                 PROVE  (j > i \/ (j = i /\ l >= k)) <=> (j > i \/ (j = i /\ l > k) \/ (j = i /\ l = k))
      OBVIOUS
    <3>. QED BY <1>1, PlannedGroups
  <2>2. i \in DOMAIN Pending /\ k \in DOMAIN Pending[i] /\ Current = Pending[i][k]
    BY <1>1, PlannedGroups
  <2>. QED BY <1>3, <1>4, <1>5, <2>1, <2>2
<1>7. Current \notin Ahead(NextAt.at)
  <2>1. i \in DOMAIN Pending /\ k \in DOMAIN Pending[i] /\ Current = Pending[i][k]
    BY <1>1, PlannedGroups
  <2>2. \A j \in DOMAIN Pending : \A l \in DOMAIN Pending[j] :
           Pending[j][l] = Current => j = i /\ l = k
    BY <2>1, PipelineAssumption
  <2>3. ~ (i > i) /\ ~ (k > k)
    BY <1>1
  <2>. QED BY <1>5, <2>2, <2>3
<1>8. /\ NextAt.at \in Nat \X Nat
      /\ NextAt.at[1] \in 1 .. Len(Pending) + 1 /\ NextAt.at[2] >= 1
      /\ NextAt.pc = "pending" => NextAt.at[2] = 1
      /\ NextAt.pc = "group" =>
           NextAt.at[1] \in DOMAIN Pending /\ NextAt.at[2] \in DOMAIN Pending[NextAt.at[1]]
      /\ NextAt.pc \in {"pending", "group"}
      /\ NextAt = [pc |-> NextAt.pc, at |-> NextAt.at]
  <2>1. CASE k < last
    BY <1>1, <1>2, <2>1, PlannedGroups DEF i, k
  <2>2. CASE ~ (k < last)
    BY <1>1, <1>2, <2>2, PlannedGroups DEF i, k
  <2>. QED BY <2>1, <2>2
<1>. QED BY <1>3, <1>6, <1>7, <1>8

LEMMA FilesAreNumbers ==
    /\ TotalFiles \in Nat /\ Unchanged \in Nat /\ Issues \in Nat /\ Files(Groups) \in Nat
    /\ TotalFiles = Unchanged + Issues + Files(Groups)
    /\ Files({}) = 0
    /\ \A g \in Groups : Size[g] \in Nat
<1>1. Files(Groups) \in Nat
  BY FilesOfSubset
<1>2. Files({}) = 0
  <2>1. {} \subseteq Groups /\ IsFiniteSet({})
    BY FS_EmptySet
  <2>. QED BY <2>1, FilesPick
<1>. QED BY <1>1, <1>2, PipelineAssumption DEF TotalFiles

LEMMA PercentIsBelow100 ==
    ASSUME NEW total \in Nat, NEW a \in Nat, NEW c \in Nat, NEW r \in Nat
    PROVE  Percent(total, a, c, r) \in Nat /\ Percent(total, a, c, r) < 100
<1>1. CASE total = 0
  BY <1>1 DEF Percent
<1>2. CASE total # 0
  <2> DEFINE weight == 10 * total + 20 * a + 20 * c + 49 * r
             share == weight \div total
  <2>1. weight \in Nat
    OBVIOUS
  <2> HIDE DEF weight
  <2>2. share \in Nat
    BY <1>2, <2>1
  <2>3. Percent(total, a, c, r) = Min({99, share})
    BY <1>2 DEF Percent, weight
  <2> HIDE DEF share
  <2>. QED BY <2>2, <2>3, MinOfTwo
<1>. QED BY <1>1, <1>2

\* What a checkpoint adds never takes a counter beyond the total.
LEMMA AdvancedRow ==
    ASSUME NEW row \in Job, NEW a \in Nat, NEW c \in Nat, NEW r \in Nat,
           row.analyzed + a <= row.total, row.committed + c <= row.total,
           row.remote + r <= row.total
    PROVE  LET new == Advanced(row, a, c, r) IN
           /\ new \in Job /\ new.status = row.status /\ new.total = row.total
           /\ new.analyzed = row.analyzed + a /\ new.committed = row.committed + c
           /\ new.remote = row.remote + r
           /\ row.percent < 100 => new.percent < 100
<1> DEFINE na == row.analyzed + a
           nc == row.committed + c
           nr == row.remote + r
           new == Advanced(row, a, c, r)
<1>1. na \in Nat /\ nc \in Nat /\ nr \in Nat /\ row.total \in Nat /\ row.percent \in Nat
  BY DEF Job
<1>2. Min({row.total, na}) = na /\ Min({row.total, nc}) = nc /\ Min({row.total, nr}) = nr
  BY <1>1, MinOfTwo
<1> DEFINE pct == Percent(row.total, na, nc, nr)
<1>3. pct \in Nat /\ pct < 100
  BY <1>1, PercentIsBelow100
<1>4. new = [row EXCEPT !.phase = "processing", !.analyzed = na, !.committed = nc, !.remote = nr,
                        !.percent = Max({row.percent, pct})]
  BY <1>2 DEF Advanced
<1> HIDE DEF pct, na, nc, nr, new
<1>5. Max({row.percent, pct}) \in Nat /\ (row.percent < 100 => Max({row.percent, pct}) < 100)
  BY <1>1, <1>3, MaxOfTwo
<1>6. na \in Nat /\ nc \in Nat /\ nr \in Nat
  BY <1>1 DEF na, nc, nr
<1> DEFINE most == Max({row.percent, pct})
<1>7. new = [row EXCEPT !.phase = "processing", !.analyzed = na, !.committed = nc, !.remote = nr,
                        !.percent = most]
  BY <1>4
<1>11. most \in Nat
  BY <1>5
<1> HIDE DEF most
<1>8. /\ new \in Job /\ new.status = row.status /\ new.total = row.total
      /\ new.analyzed = na /\ new.committed = nc /\ new.remote = nr /\ new.percent = most
  BY <1>6, <1>7, <1>11 DEF Job
<1>9. row.percent < 100 => new.percent < 100
  BY <1>5, <1>8 DEF most
<1>10. new = Advanced(row, a, c, r) /\ na = row.analyzed + a /\ nc = row.committed + c
       /\ nr = row.remote + r
  BY DEF new, na, nc, nr
<1>. QED BY <1>8, <1>9, <1>10

LEMMA CheckpointAdds ==
    ASSUME CountersFit, NEW g \in Groups, NEW n \in 1 .. 3,
           cp' = [cp EXCEPT ![g] = Max({@, n})]
    PROVE  /\ cp' \in [Groups -> 0 .. 3]
           /\ \A m \in 1 .. 3 :
                /\ Files(Reached(m)) \in Nat
                /\ Files(Reached(m)') = Files(Reached(m)) + IF m <= n /\ cp[g] < m THEN Size[g] ELSE 0
                /\ Files(Reached(m)') <= Files(Groups)
<1>1. cp \in [Groups -> 0 .. 3] /\ cp[g] \in 0 .. 3
  BY DEF CountersFit
<1>2. Max({cp[g], n}) = IF cp[g] >= n THEN cp[g] ELSE n
  BY <1>1, MaxOfTwo
<1>3. cp' = [cp EXCEPT ![g] = IF cp[g] >= n THEN cp[g] ELSE n]
  BY <1>1, <1>2
<1>4. cp' \in [Groups -> 0 .. 3]
  BY <1>1, <1>3
<1>5. ASSUME NEW m \in 1 .. 3
      PROVE  /\ Files(Reached(m)) \in Nat
             /\ Files(Reached(m)') = Files(Reached(m)) + IF m <= n /\ cp[g] < m THEN Size[g] ELSE 0
             /\ Files(Reached(m)') <= Files(Groups)
  <2> DEFINE old == Reached(m)
             new == Reached(m)'
  <2>1. old \subseteq Groups /\ new \subseteq Groups
    BY DEF Reached
  <2>2. Files(old) \in Nat /\ Files(new) <= Files(Groups)
    BY <2>1, FilesOfSubset
  <2>3. IF m <= n /\ cp[g] < m THEN g \notin old /\ new = old \cup {g} ELSE new = old
    <3>1. \A h \in Groups : h # g => cp'[h] = cp[h]
      BY <1>1, <1>3
    <3>2. cp'[g] = IF cp[g] >= n THEN cp[g] ELSE n
      BY <1>1, <1>3
    <3>3. \A h : h \in new <=> h \in Groups /\ cp'[h] >= m
      BY DEF Reached
    <3>4. \A h : h \in old <=> h \in Groups /\ cp[h] >= m
      BY DEF Reached
    <3> HIDE DEF old, new
    <3>5. g \in new <=> g \in old \/ m <= n
      BY <1>1, <3>2, <3>3, <3>4
    <3>6. g \in old <=> ~ (cp[g] < m)
      BY <1>1, <3>4
    <3>. QED BY <3>1, <3>3, <3>4, <3>5, <3>6
  <2> HIDE DEF old, new
  <2>4. m <= n /\ cp[g] < m => Files(new) = Size[g] + Files(old)
    BY <2>1, <2>3, FilesAdd
  <2>. QED BY <2>2, <2>3, <2>4, FilesAreNumbers DEF old, new
<1>. QED BY <1>4, <1>5

LEMMA CheckpointStep ==
    ASSUME JobFits, CountersFit, Active, NEW g \in Groups, task' = task,
           \/ mark_scan_group_analyzed(g)
           \/ advance_scan_group_progress(g, 2) \/ advance_scan_group_progress(g, 3)
    PROVE  JobFits' /\ CountersFit'
<1> DEFINE Row(n) == Advanced(job, IF 1 <= n /\ cp[g] < 1 THEN Size[g] ELSE 0,
                                   IF 2 <= n /\ cp[g] < 2 THEN Size[g] ELSE 0,
                                   IF 3 <= n /\ cp[g] < 3 THEN Size[g] ELSE 0)
<1>1. PICK n \in 1 .. 3 : job' = Row(n) /\ cp' = [cp EXCEPT ![g] = Max({@, n})]
  <2>1. cp[g] \in 0 .. 3
    BY DEF CountersFit
  <2>2. CASE mark_scan_group_analyzed(g)
    <3>1. job' = Row(1) /\ cp' = [cp EXCEPT ![g] = Max({@, 1})]
      BY <2>1, <2>2 DEF mark_scan_group_analyzed
    <3> HIDE DEF Row
    <3>. QED BY <3>1
  <2>3. CASE advance_scan_group_progress(g, 2)
    <3>1. job' = Row(2) /\ cp' = [cp EXCEPT ![g] = Max({@, 2})]
      BY <2>1, <2>3 DEF advance_scan_group_progress
    <3> HIDE DEF Row
    <3>. QED BY <3>1
  <2>4. CASE advance_scan_group_progress(g, 3)
    <3>1. job' = Row(3) /\ cp' = [cp EXCEPT ![g] = Max({@, 3})]
      BY <2>1, <2>4 DEF advance_scan_group_progress
    <3> HIDE DEF Row
    <3>. QED BY <3>1
  <2>. QED BY <2>2, <2>3, <2>4
<1> DEFINE plus(m) == IF m <= n /\ cp[g] < m THEN Size[g] ELSE 0
<1>2. /\ cp' \in [Groups -> 0 .. 3]
      /\ \A m \in 1 .. 3 : /\ Files(Reached(m)) \in Nat
                            /\ Files(Reached(m)') = Files(Reached(m)) + plus(m)
                            /\ Files(Reached(m)') <= Files(Groups)
  BY <1>1, CheckpointAdds
<1>3. \A m \in 1 .. 3 : plus(m) \in Nat
  BY FilesAreNumbers
<1>4. job' = Advanced(job, plus(1), plus(2), plus(3))
  BY <1>1
<1> HIDE DEF plus, Row
<1>5. /\ job \in Job /\ job.percent < 100 /\ job.status = "running"
      /\ job.total = TotalFiles
      /\ job.analyzed = Unchanged + Issues + Files(Reached(1))
      /\ job.committed = Unchanged + Issues + Files(Reached(2))
      /\ job.remote = Unchanged + Issues + Files(Reached(3))
  BY DEF JobFits, CountersFit
<1>6. /\ job.analyzed + plus(1) <= job.total /\ job.committed + plus(2) <= job.total
      /\ job.remote + plus(3) <= job.total
  BY <1>2, <1>3, <1>5, FilesAreNumbers
<1>7. /\ job' \in Job /\ job'.status = "running" /\ job'.total = TotalFiles /\ job'.percent < 100
      /\ job'.analyzed = job.analyzed + plus(1) /\ job'.committed = job.committed + plus(2)
      /\ job'.remote = job.remote + plus(3)
  BY <1>3, <1>4, <1>5, <1>6, AdvancedRow
<1>8. /\ job'.analyzed = Unchanged + Issues + Files(Reached(1)')
      /\ job'.committed = Unchanged + Issues + Files(Reached(2)')
      /\ job'.remote = Unchanged + Issues + Files(Reached(3)')
  BY <1>2, <1>3, <1>5, <1>7, FilesAreNumbers
<1>9. JobFits'
  BY <1>7 DEF JobFits
<1>10. CountersFit'
  BY <1>2, <1>7, <1>8 DEF CountersFit
<1>. QED BY <1>9, <1>10

-----------------------------------------------------------------------------
(* The attempt: its start, its end and what cuts it short.                 *)

LEMMA NothingInThePlaces ==
    /\ Elements(<<>>) = {} /\ Names(<<>>) = {}
    /\ DOMAIN [g \in {} |-> "new"] = {}
BY DEF Elements, Names

LEMMA InitFits == PipelineInit => PipelineIInv
<1> SUFFICES ASSUME PipelineInit PROVE PipelineIInv
  OBVIOUS
<1>1. /\ queue = <<>> /\ DOMAIN busy = {} /\ busy = [g \in DOMAIN busy |-> busy[g]]
      /\ sending = <<>> /\ prepared = <<>> /\ co = [pc |-> "none", g |-> 0] /\ guards = {}
      /\ ana = [pc |-> "none", at |-> <<1, 1>>] /\ refs = disk /\ task = "idle"
  BY DEF PipelineInit, Idle
<1>2. Elements(queue) = {} /\ Names(sending) = {} /\ Names(prepared) = {} /\ Taken = {}
  BY <1>1, NothingInThePlaces DEF Taken
<1>3. Len(queue) = 0 /\ Len(sending) = 0 /\ Len(prepared) = 0 /\ Cardinality(DOMAIN busy) = 0
  BY <1>1, FS_EmptySet
<1>4. AnalysisFits
  BY <1>1, PlannedGroups DEF AnalysisFits
<1>5. PlacesFit
  BY <1>1, <1>3, PipelineAssumption DEF PlacesFit
<1>6. GroupsApart
  BY <1>1, <1>2 DEF GroupsApart, Apart
<1>7. FatesFit
  BY <1>1, <1>2, PipelineAssumption DEF FatesFit, Past, PipelineInit
<1>8. NobodyIsForgotten /\ GuardsFit /\ ArtworkFits
  BY <1>1 DEF NobodyIsForgotten, Dropped, GuardsFit, ArtworkFits, Idle
<1>9. JobFits
  BY DEF PipelineInit, JobFits, Job, Active
<1>10. CountersFit
  BY DEF PipelineInit, CountersFit, Active
<1>11. ReportFits
  BY DEF PipelineInit, ReportFits, Report, EveryFileIsReported, EmptyReport
<1>. QED BY <1>4, <1>5, <1>6, <1>7, <1>8, <1>9, <1>10, <1>11 DEF PipelineIInv, PipelineInit

\* Empty channels and idle futures fit, whatever the groups' fates are.
LEMMA EmptyPlacesFit ==
    ASSUME queue' = <<>>, DOMAIN busy' = {}, busy' = [g \in DOMAIN busy' |-> busy'[g]],
           sending' = <<>>, prepared' = <<>>, co' = [pc |-> co'.pc, g |-> 0],
           co'.pc \in {"none", "recv"}, guards' = {}, refs' \subseteq disk',
           ana' = [pc |-> ana'.pc, at |-> <<1, 1>>], ana'.pc \in {"none", "pending"},
           fate' \in [Groups -> Fate], task' = "pipeline" \/ Dropped'
    PROVE  /\ AnalysisFits' /\ PlacesFit' /\ GroupsApart' /\ FatesFit'
           /\ NobodyIsForgotten' /\ GuardsFit' /\ ArtworkFits'
           /\ Underway' = Groups
<1>1. Elements(queue)' = {} /\ Names(sending)' = {} /\ Names(prepared)' = {} /\ Taken' = {}
  BY NothingInThePlaces DEF Taken
<1>2. Len(queue') = 0 /\ Len(sending') = 0 /\ Len(prepared') = 0 /\ Cardinality(DOMAIN busy') = 0
  BY FS_EmptySet
<1>3. AnalysisFits'
  BY PlannedGroups DEF AnalysisFits
<1>4. PlacesFit'
  BY <1>2, PipelineAssumption DEF PlacesFit
<1>5. GroupsApart'
  BY <1>1 DEF GroupsApart, Apart
<1>6. FatesFit'
  BY <1>1 DEF FatesFit, Past
<1>7. NobodyIsForgotten'
  BY DEF NobodyIsForgotten
<1>8. GuardsFit' /\ ArtworkFits'
  BY DEF GuardsFit, ArtworkFits
<1>9. Underway' = Groups
  BY <1>1, AheadOfTheStart DEF Underway, Past
<1>. QED BY <1>3, <1>4, <1>5, <1>6, <1>7, <1>8, <1>9

LEMMA DropKeeps ==
    ASSUME PipelineIInv, DropPipeline, task' # "pipeline", UNCHANGED <<fate, refs, disk>>
    PROVE  /\ AnalysisFits' /\ PlacesFit' /\ GroupsApart' /\ FatesFit'
           /\ NobodyIsForgotten' /\ GuardsFit' /\ ArtworkFits'
<1>1. /\ queue' = <<>> /\ DOMAIN busy' = {} /\ busy' = [g \in DOMAIN busy' |-> busy'[g]]
      /\ sending' = <<>> /\ prepared' = <<>> /\ co' = Idle /\ guards' = {}
      /\ ana' = [pc |-> "none", at |-> <<1, 1>>]
  BY DEF DropPipeline
<1>2. Dropped'
  BY <1>1 DEF Dropped
<1>3. fate' \in [Groups -> Fate] /\ refs' \subseteq disk'
  BY DEF PipelineIInv, FatesFit, ArtworkFits
<1>. QED BY <1>1, <1>2, <1>3, EmptyPlacesFit DEF Idle

LEMMA AbortKeeps ==
    ASSUME PipelineIInv, Active, Abort
    PROVE  PipelineIInv'
<1>1. /\ job' = FailedAttempt(job) /\ flag' = FALSE /\ DropPipeline
      /\ task' \in {"idle", "ended"}
      /\ UNCHANGED <<cp, fate, requested, refs, disk, out, report>>
  BY DEF Abort
<1>2. /\ AnalysisFits' /\ PlacesFit' /\ GroupsApart' /\ FatesFit'
      /\ NobodyIsForgotten' /\ GuardsFit' /\ ArtworkFits'
  BY <1>1, DropKeeps
<1>3. JobFits' /\ job'.status # "success"
  <2>1. job \in Job /\ job.percent < 100
    BY DEF PipelineIInv, JobFits
  <2>2. job' \in Job /\ job'.status # "success" /\ job'.percent < 100
    BY <1>1, <2>1 DEF FailedAttempt, Job
  <2>. QED BY <1>1, <2>2 DEF JobFits, Active
<1>4. CountersFit'
  BY <1>1 DEF PipelineIInv, CountersFit, Active
<1>5. ReportFits'
  BY <1>1, <1>3 DEF PipelineIInv, ReportFits, EveryFileIsReported
<1>. QED BY <1>1, <1>2, <1>3, <1>4, <1>5 DEF PipelineIInv

LEMMA StartAttemptKeeps ==
    ASSUME PipelineIInv, StartAttempt
    PROVE  PipelineIInv'
<1>1. Dropped /\ job \in Job /\ job.percent < 100 /\ job.status = "pending"
  BY DEF PipelineIInv, StartAttempt, NobodyIsForgotten, JobFits, Dropped
<1>2. /\ AnalysisFits' /\ PlacesFit' /\ GroupsApart' /\ FatesFit'
      /\ NobodyIsForgotten' /\ GuardsFit' /\ ArtworkFits' /\ Underway' = Groups
  <2>1. /\ queue' = <<>> /\ sending' = <<>> /\ prepared' = <<>> /\ guards' = {}
        /\ DOMAIN busy' = {} /\ busy' = [g \in DOMAIN busy' |-> busy'[g]]
        /\ co' = [pc |-> "recv", g |-> 0] /\ ana' = [pc |-> "pending", at |-> <<1, 1>>]
        /\ task' = "pipeline" /\ fate' \in [Groups -> Fate] /\ refs' \subseteq disk'
    BY <1>1, PipelineAssumption
       DEF Dropped, StartAttempt, PipelineIInv, PlacesFit, ArtworkFits
  <2>. QED BY <2>1, EmptyPlacesFit
<1>3. JobFits' /\ CountersFit'
  <2> DEFINE first == Max({job.percent, 1})
             row == [job EXCEPT !.status = "running", !.attempts = @ + 1, !.percent = first]
             done == TotalFiles - Files(Groups)
             pct == Percent(TotalFiles, done, done, done)
  <2>1. first \in Nat /\ first < 100
    BY <1>1, MaxOfTwo DEF Job
  <2>5. job' = [row EXCEPT !.phase = "processing", !.total = TotalFiles,
                           !.analyzed = done, !.committed = done, !.remote = done,
                           !.percent = Max({@, pct})]
    BY DEF StartAttempt, initialize_scan_job_work
  <2> HIDE DEF first
  <2>2. row \in Job /\ row.percent < 100 /\ row.status = "running"
    <3>1. job \in Job /\ job.attempts + 1 \in Nat
      BY <1>1 DEF Job
    <3>2. row \in Job
      BY <2>1, <3>1 DEF Job
    <3>3. row.percent = first /\ row.status = "running"
      BY <3>1 DEF Job
    <3>. QED BY <2>1, <3>2, <3>3
  <2>3. done \in Nat /\ done = Unchanged + Issues /\ TotalFiles \in Nat
    BY FilesAreNumbers
  <2>4. pct \in Nat /\ pct < 100
    BY <2>3, PercentIsBelow100
  <2> HIDE DEF row, done, pct
  <2>6. Max({row.percent, pct}) \in Nat /\ Max({row.percent, pct}) < 100
    BY <2>2, <2>4, MaxOfTwo DEF Job
  <2>7. /\ job' \in Job /\ job'.status = "running" /\ job'.percent < 100
        /\ job'.total = TotalFiles /\ job'.analyzed = done /\ job'.committed = done
        /\ job'.remote = done
    BY <2>2, <2>3, <2>5, <2>6 DEF Job
  <2>8. JobFits'
    BY <2>7 DEF JobFits
  <2>9. cp' = [g \in Groups |-> 0] /\ cp' \in [Groups -> 0 .. 3]
    BY DEF StartAttempt
  <2>10. Reached(1)' = {} /\ Reached(2)' = {} /\ Reached(3)' = {}
    BY <2>9 DEF Reached
  <2>11. CountersFit'
    <3>1. done = Unchanged + Issues + 0
      BY <2>3, FilesAreNumbers
    <3>2. Files(Reached(1)') = 0 /\ Files(Reached(2)') = 0 /\ Files(Reached(3)') = 0
      BY <2>10, FilesAreNumbers
    <3>. QED BY <2>7, <2>9, <3>1, <3>2 DEF CountersFit
  <2>. QED BY <2>8, <2>11
<1>4. ReportFits'
  <2>1. report' = EmptyReport /\ task' = "pipeline" /\ job'.status # "success"
    BY <1>3 DEF StartAttempt, JobFits
  <2>2. Groups \ Groups = {}
    OBVIOUS
  <2>. QED BY <1>2, <2>1, <2>2, FilesAreNumbers
          DEF ReportFits, Report, Reported, EveryFileIsReported, EmptyReport
<1>. QED BY <1>2, <1>3, <1>4 DEF PipelineIInv, StartAttempt

LEMMA JobKept ==
    ASSUME PipelineIInv, UNCHANGED <<job, cp, task>>
    PROVE  JobFits' /\ CountersFit'
BY DEF PipelineIInv, JobFits, CountersFit, Active, Reached

LEMMA PlacesKept ==
    ASSUME PipelineIInv, UNCHANGED <<queue, busy, sending, prepared, co>>,
           Ahead(ana.at)' = Ahead(ana.at)
    PROVE  PlacesFit' /\ GroupsApart' /\ Past' = Past /\ Underway' = Underway
<1>1. PlacesFit'
  BY DEF PipelineIInv, PlacesFit
<1>2. /\ Elements(queue)' = Elements(queue) /\ Names(sending)' = Names(sending)
      /\ Names(prepared)' = Names(prepared) /\ Taken' = Taken
  BY DEF Elements, Names, Taken
<1>3. GroupsApart'
  BY <1>2 DEF PipelineIInv, GroupsApart
<1>. QED BY <1>1, <1>2, <1>3 DEF Past, Underway

LEMMA UnderwayInGroups ==
    ASSUME PipelineIInv
    PROVE  Underway \subseteq Groups
<1>1. Elements(queue) \subseteq Groups
  BY DEF PipelineIInv, PlacesFit, Elements
<1>2. Names(sending) \subseteq Groups /\ Names(prepared) \subseteq Groups
  <2>1. sending \in Seq(Prepared) /\ prepared \in Seq(Prepared)
    BY DEF PipelineIInv, PlacesFit
  <2>2. /\ \A k \in DOMAIN sending : sending[k] \in Prepared
        /\ \A k \in DOMAIN prepared : prepared[k] \in Prepared
    BY <2>1
  <2>. QED BY <2>2 DEF Names, Prepared
<1>3. DOMAIN busy \subseteq Groups /\ Taken \subseteq Groups
  BY DEF PipelineIInv, PlacesFit, Taken
<1>. QED BY <1>1, <1>2, <1>3, AheadInGroups DEF Underway, Past

\* The report of a running pipeline: nothing leaves, or one group leaves and is counted.
LEMMA ReportKept ==
    ASSUME PipelineIInv, task = "pipeline", JobFits', UNCHANGED <<report, flag, task>>,
           flag \/ Underway' = Underway
    PROVE  ReportFits'
BY DEF PipelineIInv, ReportFits, EveryFileIsReported, JobFits, Reported

LEMMA ReportGrows ==
    ASSUME PipelineIInv, task = "pipeline", JobFits', UNCHANGED <<flag, task>>,
           NEW g \in Underway, Underway' = Underway \ {g},
           report' \in Report, Reported' = Reported + Size[g]
    PROVE  ReportFits'
<1>1. ASSUME ~flag PROVE Reported' = Files(Groups \ Underway')
  <2> DEFINE done == Groups \ Underway
  <2>1. Reported = Files(done)
    BY <1>1 DEF PipelineIInv, ReportFits
  <2>2. g \in Groups /\ g \notin done /\ done \subseteq Groups
    BY UnderwayInGroups
  <2> DEFINE more == Groups \ Underway'
  <2>3. more = done \cup {g}
    BY <2>2
  <2> HIDE DEF done, more
  <2>4. Files(done \cup {g}) = Size[g] + Files(done) /\ Files(done) \in Nat /\ Size[g] \in Nat
    BY <2>2, FilesAdd, FilesOfSubset, FilesAreNumbers
  <2>5. Files(more) = Files(done) + Size[g]
    BY <2>3, <2>4
  <2>6. Reported' = Files(more)
    BY <2>1, <2>5
  <2>. QED BY <2>6 DEF more
<1>. QED BY <1>1 DEF ReportFits, EveryFileIsReported, JobFits

LEMMA CountedFailure ==
    ASSUME NEW r \in Report, NEW g \in Groups
    PROVE  LET new == record_scan_group_commit_failure(r, g) IN
           /\ new \in Report
           /\ new.matched + new.unmatched + new.failed
                = r.matched + r.unmatched + r.failed + Size[g]
<1> DEFINE more == listed(r)
           new == record_scan_group_commit_failure(r, g)
<1>1. more \in Nat /\ Size[g] \in Nat
  <2>1. r.listed + 1 \in Nat /\ MaxIssues \in Nat
    BY PipelineAssumption DEF Report
  <2>. QED BY <2>1, MinOfTwo, PipelineAssumption DEF listed
<1>2. new = [r EXCEPT !.failed = @ + Size[g], !.issues = @ + 1, !.listed = more]
  BY DEF record_scan_group_commit_failure
<1> HIDE DEF more, new
<1>3. r.failed + Size[g] \in Nat /\ r.issues + 1 \in Nat
  BY <1>1 DEF Report
<1>4. new \in Report
  BY <1>1, <1>2, <1>3 DEF Report
<1>5. new.matched = r.matched /\ new.unmatched = r.unmatched /\ new.failed = r.failed + Size[g]
  BY <1>2 DEF Report
<1>. QED BY <1>1, <1>4, <1>5 DEF new, Report

LEMMA CountedGroup ==
    ASSUME NEW r \in Report, NEW g \in Groups,
           fate[g] \in {"matched", "nothing", "review", "outage"}
    PROVE  LET new == record_scan_notification_group(r, g) IN
           /\ new \in Report
           /\ new.matched + new.unmatched + new.failed
                = r.matched + r.unmatched + r.failed + Size[g]
<1> DEFINE more == listed(r)
           status == finalize_file_metadata_status(g)
           counted == CASE status = "matched" -> [r EXCEPT !.matched = @ + Size[g]]
                        [] status = "unmatched" -> [r EXCEPT !.unmatched = @ + Size[g]]
                        [] status = "failed" -> [r EXCEPT !.failed = @ + Size[g]]
           noted == [counted EXCEPT !.issues = @ + 1, !.listed = more]
           new == record_scan_notification_group(r, g)
<1>1. more \in Nat /\ Size[g] \in Nat
  <2>1. r.listed + 1 \in Nat /\ MaxIssues \in Nat
    BY PipelineAssumption DEF Report
  <2>. QED BY <2>1, MinOfTwo, PipelineAssumption DEF listed
<1>2. status \in {"matched", "unmatched", "failed"}
  BY DEF finalize_file_metadata_status
<1>3. new = counted \/ new = noted
  BY DEF record_scan_notification_group
<1> HIDE DEF more, status, new
<1>4. /\ counted \in Report
      /\ counted.matched + counted.unmatched + counted.failed
            = r.matched + r.unmatched + r.failed + Size[g]
  <2>1. CASE status = "matched"
    BY <1>1, <2>1 DEF Report
  <2>2. CASE status = "unmatched"
    BY <1>1, <2>2 DEF Report
  <2>3. CASE status = "failed"
    BY <1>1, <2>3 DEF Report
  <2>. QED BY <1>2, <2>1, <2>2, <2>3
<1> HIDE DEF counted
<1>5. /\ noted \in Report /\ noted.matched = counted.matched
      /\ noted.unmatched = counted.unmatched /\ noted.failed = counted.failed
  <2>1. counted \in Report /\ counted.issues + 1 \in Nat
    BY <1>4 DEF Report
  <2>2. noted \in Report
    BY <1>1, <2>1 DEF Report
  <2>3. /\ noted.matched = counted.matched
        /\ noted.unmatched = counted.unmatched /\ noted.failed = counted.failed
    BY <2>1 DEF Report
  <2>. QED BY <2>2, <2>3
<1> HIDE DEF noted
<1>. QED BY <1>3, <1>4, <1>5 DEF new

\* A cancellation relaxes what is asked, nothing else.
LEMMA RaiseFlagKeeps ==
    ASSUME PipelineIInv, RaiseFlag
    PROVE  PipelineIInv'
<1>1. /\ flag' = TRUE
      /\ UNCHANGED <<job, cp, fate, requested, task, ana, remoteVars, refs, disk, out, report>>
  BY DEF RaiseFlag
<1>2. JobFits' /\ CountersFit' /\ PlacesFit' /\ GroupsApart' /\ Past' = Past
  BY <1>1, JobKept, PlacesKept DEF remoteVars
<1>3. AnalysisFits'
  BY <1>1 DEF PipelineIInv, AnalysisFits
<1>4. FatesFit'
  BY <1>1, <1>2 DEF PipelineIInv, FatesFit, Current
<1>5. NobodyIsForgotten'
  BY <1>1 DEF PipelineIInv, NobodyIsForgotten, Dropped, remoteVars
<1>6. GuardsFit' /\ ArtworkFits'
  BY <1>1 DEF PipelineIInv, GuardsFit, ArtworkFits, Names, remoteVars
<1>7. ReportFits'
  BY <1>1 DEF PipelineIInv, ReportFits, EveryFileIsReported
<1>. QED BY <1>1, <1>2, <1>3, <1>4, <1>5, <1>6, <1>7 DEF PipelineIInv

\* Steps outside the pipeline.
LEMMA OutsideKeeps ==
    ASSUME PipelineIInv, UNCHANGED <<cp, fate, ana, remoteVars, refs, disk, report>>,
           JobFits', CountersFit', EveryFileIsReported',
           \/ UNCHANGED <<task, flag>>
           \/ task # "pipeline" /\ task' \in {"idle", "ended"} /\ flag' \in BOOLEAN
    PROVE  PipelineIInv'
<1>1. PlacesFit' /\ GroupsApart' /\ Past' = Past /\ Underway' = Underway
  BY PlacesKept DEF remoteVars
<1>2. task # "pipeline" => Dropped
  BY DEF PipelineIInv, NobodyIsForgotten
<1>3. AnalysisFits'
  BY <1>2 DEF PipelineIInv, AnalysisFits, Dropped
<1>4. FatesFit'
  BY <1>1 DEF PipelineIInv, FatesFit, Current
<1>5. NobodyIsForgotten'
  <2>1. Dropped' <=> Dropped
    BY DEF Dropped, remoteVars
  <2>2. CASE UNCHANGED <<task, flag>>
    BY <2>1, <2>2 DEF PipelineIInv, NobodyIsForgotten, PreparationEnded, remoteVars
  <2>3. CASE task # "pipeline"
    BY <1>2, <2>1, <2>3 DEF NobodyIsForgotten, Dropped, Idle, remoteVars
  <2>. QED BY <2>2, <2>3
<1>6. GuardsFit' /\ ArtworkFits'
  BY DEF PipelineIInv, GuardsFit, ArtworkFits, Names, remoteVars
<1>7. ReportFits'
  BY <1>1 DEF PipelineIInv, ReportFits, Reported
<1>. QED BY <1>1, <1>3, <1>4, <1>5, <1>6, <1>7 DEF PipelineIInv

LEMMA RequestCancelKeeps ==
    ASSUME PipelineIInv, RequestCancel
    PROVE  PipelineIInv'
<1>1. UNCHANGED <<job, cp, fate, flag, task, ana, remoteVars, refs, disk, out, report>>
  BY DEF RequestCancel
<1>2. JobFits' /\ CountersFit'
  BY <1>1, JobKept
<1>3. EveryFileIsReported'
  BY <1>1 DEF PipelineIInv, ReportFits, EveryFileIsReported
<1>. QED BY <1>1, <1>2, <1>3, OutsideKeeps

LEMMA CancelQueuedKeeps ==
    ASSUME PipelineIInv, CancelQueued
    PROVE  PipelineIInv'
<1>1. /\ task = "idle" /\ task' = "ended"
      /\ job' = [job EXCEPT !.status = "cancelled", !.phase = "finished"]
      /\ UNCHANGED <<cp, fate, requested, flag, ana, remoteVars, refs, disk, out, report>>
  BY DEF CancelQueued
<1>2. job \in Job /\ job.percent < 100
  BY <1>1 DEF PipelineIInv, JobFits
<1>3. job' \in Job /\ job'.status = "cancelled" /\ job'.percent < 100
  BY <1>1, <1>2 DEF Job
<1>4. JobFits' /\ CountersFit' /\ EveryFileIsReported'
  BY <1>1, <1>3 DEF PipelineIInv, JobFits, CountersFit, Active, EveryFileIsReported
<1>. QED BY <1>1, <1>4, OutsideKeeps DEF PipelineIInv

LEMMA FinishedKeeps ==
    ASSUME PipelineIInv, task = "finish", NEW status \in {"success", "cancelled"}, NEW r,
           status = "success" => ~flag, Finished(status, r)
    PROVE  PipelineIInv'
<1> DEFINE percent == IF status = "success" THEN 100 ELSE job.percent
           word == scan_notification_presentation(status, r)
<1>1. /\ job' = [job EXCEPT !.status = status, !.phase = "finished", !.total = TotalFiles,
                            !.percent = percent, !.notified = word]
      /\ task' = "ended" /\ flag' = FALSE
      /\ UNCHANGED <<cp, fate, requested, ana, remoteVars, refs, disk, out, report>>
  BY DEF Finished
<1>2. job \in Job /\ job.percent < 100
  BY DEF PipelineIInv, JobFits
<1>3. word \in {"cancelled", "completed", "completed_with_issues"}
  BY DEF scan_notification_presentation
<1>4. percent \in Nat /\ (status # "success" => percent < 100)
  BY <1>2 DEF Job
<1> HIDE DEF percent, word
<1>5. job' \in Job /\ job'.status = status /\ job'.percent = percent
  BY <1>1, <1>2, <1>3, <1>4, FilesAreNumbers DEF Job
<1>6. JobFits' /\ CountersFit'
  BY <1>1, <1>4, <1>5 DEF PipelineIInv, JobFits, CountersFit, Active
<1>7. EveryFileIsReported'
  BY <1>1, <1>5 DEF PipelineIInv, ReportFits, EveryFileIsReported, Reported
<1>. QED BY <1>1, <1>6, <1>7, OutsideKeeps

LEMMA FinishKeeps ==
    ASSUME PipelineIInv, finalize_cancelled_scan \/ finalize_scan_job
    PROVE  PipelineIInv'
<1>1. CASE finalize_cancelled_scan
  BY <1>1, FinishedKeeps DEF finalize_cancelled_scan
<1>2. CASE finalize_scan_job
  <2>1. task = "finish" /\ ~flag
    BY <1>2 DEF finalize_scan_job
  <2>2. CASE Abort
    BY <2>1, <2>2, AbortKeeps DEF Active
  <2>3. CASE Finished("cancelled", report)
    BY <2>1, <2>3, FinishedKeeps
  <2>4. CASE Finished("success", report)
    BY <2>1, <2>4, FinishedKeeps
  <2>. QED BY <1>2, <2>2, <2>3, <2>4 DEF finalize_scan_job
<1>. QED BY <1>1, <1>2

\* A pipeline that ran to its end has every group in its report.
LEMMA JoinPipelineKeeps ==
    ASSUME PipelineIInv, JoinPipeline
    PROVE  PipelineIInv'
<1>1. /\ task = "pipeline" /\ co.pc = "done" /\ PreparationEnded /\ task' = "finish"
      /\ report' = record_media_discovery_issues(report) /\ DropPipeline
      /\ UNCHANGED <<job, cp, fate, requested, flag, refs, disk, out>>
  BY DEF JoinPipeline, Running
<1>2. /\ AnalysisFits' /\ PlacesFit' /\ GroupsApart' /\ FatesFit'
      /\ NobodyIsForgotten' /\ GuardsFit' /\ ArtworkFits'
  BY <1>1, DropKeeps
<1>3. JobFits' /\ CountersFit'
  BY <1>1 DEF PipelineIInv, JobFits, CountersFit, Active, Reached
<1>4. report' \in Report /\ Reported' = Reported + Issues
  <2> DEFINE all == Min({MaxIssues, report.listed + Issues})
  <2>1. report \in Report
    BY DEF PipelineIInv, ReportFits
  <2>2. report.listed + Issues \in Nat /\ MaxIssues \in Nat /\ Issues \in Nat
    BY <2>1, PipelineAssumption DEF Report
  <2>3. all \in Nat
    BY <2>2, MinOfTwo
  <2>4. report' = [report EXCEPT !.failed = @ + Issues, !.issues = @ + Issues, !.listed = all]
    BY <1>1 DEF record_media_discovery_issues
  <2> HIDE DEF all
  <2>5. report.failed + Issues \in Nat /\ report.issues + Issues \in Nat
    BY <2>1, <2>2 DEF Report
  <2>6. report' \in Report
    BY <2>1, <2>3, <2>4, <2>5 DEF Report
  <2>7. /\ report'.matched = report.matched /\ report'.unmatched = report.unmatched
        /\ report'.failed = report.failed + Issues
    BY <2>1, <2>4 DEF Report
  <2>. QED BY <2>1, <2>2, <2>6, <2>7 DEF Report, Reported
<1>5. ASSUME ~flag PROVE Reported = Files(Groups)
  <2>1. queue = <<>> /\ DOMAIN busy = {} /\ sending = <<>> /\ prepared = <<>> /\ ana.pc = "done"
    BY <1>1, <1>5 DEF PipelineIInv, NobodyIsForgotten, PreparationEnded
  <2>2. ana.at[1] > Len(Pending) /\ ana.at \in Nat \X Nat /\ co.g = 0
    BY <1>1, <1>5, <2>1 DEF PipelineIInv, AnalysisFits, PlacesFit
  <2>3. Elements(queue) = {} /\ Names(sending) = {} /\ Names(prepared) = {} /\ Taken = {}
    BY <2>1, <2>2, NothingInThePlaces DEF Taken
  <2>4. Underway = {}
    BY <2>1, <2>2, <2>3, AheadOfTheEnd DEF Underway, Past
  <2>5. Groups \ {} = Groups
    OBVIOUS
  <2>. QED BY <1>1, <1>5, <2>4, <2>5 DEF PipelineIInv, ReportFits
<1>6. ReportFits'
  BY <1>1, <1>3, <1>4, <1>5 DEF ReportFits, EveryFileIsReported, JobFits
<1>. QED BY <1>1, <1>2, <1>3, <1>6 DEF PipelineIInv

-----------------------------------------------------------------------------
(* The local analysis.                                                     *)

LEMMA LocalKept ==
    ASSUME PipelineIInv, task = "pipeline", LocalOnly, ana.pc # "done"
    PROVE  /\ PlacesFit' /\ NobodyIsForgotten' /\ GuardsFit' /\ ArtworkFits'
           /\ Past' = Past /\ (co.pc = "done" => flag)
           /\ Elements(queue)' = Elements(queue) /\ Names(sending)' = Names(sending)
           /\ Names(prepared)' = Names(prepared) /\ Taken' = Taken
<1>1. PlacesFit'
  BY DEF PipelineIInv, PlacesFit, LocalOnly, remoteVars
<1>2. co.pc = "done" => flag
  BY DEF PipelineIInv, NobodyIsForgotten, PreparationEnded
<1>3. NobodyIsForgotten'
  BY <1>2 DEF PipelineIInv, NobodyIsForgotten, LocalOnly, remoteVars
<1>4. GuardsFit' /\ ArtworkFits'
  BY DEF PipelineIInv, GuardsFit, ArtworkFits, Names, LocalOnly, remoteVars
<1>5. /\ Elements(queue)' = Elements(queue) /\ Names(sending)' = Names(sending)
      /\ Names(prepared)' = Names(prepared) /\ Taken' = Taken
  BY DEF Elements, Names, Taken, LocalOnly, remoteVars
<1>6. Past' = Past
  BY <1>5 DEF Past, LocalOnly, remoteVars
<1>. QED BY <1>1, <1>2, <1>3, <1>4, <1>5, <1>6

\* A step of the analysis that stays at its group.
LEMMA AnalysisStays ==
    ASSUME PipelineIInv, task = "pipeline", LocalOnly, ana.pc # "done",
           NEW pc, ana' = [ana EXCEPT !.pc = pc], AnalysisFits',
           pc = "send" => fate[Current] \notin {"rejected", "lost"},
           JobFits', CountersFit', UNCHANGED report
    PROVE  PipelineIInv'
<1>1. ana'.at = ana.at /\ ana'.pc = pc
  BY DEF PipelineIInv, AnalysisFits
<1>2. UNCHANGED <<queue, busy, sending, prepared, co>> /\ UNCHANGED <<fate, flag, task>>
  BY DEF LocalOnly, remoteVars
<1>3. Ahead(ana.at)' = Ahead(ana.at)
  BY <1>1
<1>4. GroupsApart' /\ Past' = Past /\ Underway' = Underway
  BY <1>2, <1>3, PlacesKept
<1>5. FatesFit'
  BY <1>1, <1>2, <1>4 DEF PipelineIInv, FatesFit, Current
<1>6. ReportFits'
  BY <1>2, <1>4, ReportKept
<1>7. PlacesFit' /\ NobodyIsForgotten' /\ GuardsFit' /\ ArtworkFits'
  BY LocalKept
<1>. QED BY <1>2, <1>4, <1>5, <1>6, <1>7 DEF PipelineIInv

LEMMA InspectPendingKeeps ==
    ASSUME PipelineIInv, InspectPending
    PROVE  PipelineIInv'
<1>1. /\ task = "pipeline" /\ ana.pc = "pending" /\ LocalOnly
      /\ UNCHANGED <<job, cp, out, report>> /\ UNCHANGED <<task, flag>>
  BY DEF InspectPending, Running, LocalOnly
<1>2. JobFits' /\ CountersFit'
  BY <1>1, JobKept
<1>3. CASE ana' = [ana EXCEPT !.pc = "done"] /\ (flag \/ ana.at[1] > Len(Pending))
  <2>1. AnalysisFits'
    BY <1>1, <1>3 DEF PipelineIInv, AnalysisFits
  <2>. QED BY <1>1, <1>2, <1>3, <2>1, AnalysisStays
<1>4. CASE ana' = [ana EXCEPT !.pc = "group"] /\ ana.at[1] <= Len(Pending)
  <2>1. AnalysisFits'
    <3>1. /\ ana.at \in Nat \X Nat /\ ana.at[1] \in 1 .. Len(Pending) + 1 /\ ana.at[2] = 1
          /\ ana \in [pc : {"none", "pending", "group", "commit", "send", "done"}, at : Nat \X Nat]
      BY <1>1 DEF PipelineIInv, AnalysisFits
    <3>2. ana.at[1] \in DOMAIN Pending /\ ana.at[2] \in DOMAIN Pending[ana.at[1]]
      BY <1>4, <3>1, PlannedGroups
    <3>3. ana'.pc = "group" /\ ana'.at = ana.at
      BY <1>4, <3>1
    <3>4. ana' \in [pc : {"none", "pending", "group", "commit", "send", "done"}, at : Nat \X Nat]
      BY <1>4, <3>1
    <3>. QED BY <3>1, <3>2, <3>3, <3>4 DEF AnalysisFits
  <2>. QED BY <1>1, <1>2, <1>4, <2>1, AnalysisStays
<1>. QED BY <1>3, <1>4 DEF InspectPending, StopAnalysis

LEMMA AnalyzeGroupKeeps ==
    ASSUME PipelineIInv, AnalyzeGroup
    PROVE  PipelineIInv'
<1>1. task = "pipeline" /\ ana.pc = "group" /\ Active
  BY DEF AnalyzeGroup, Running, Active
<1>2. CASE Abort
  BY <1>1, <1>2, AbortKeeps
<1>3. CASE flag /\ StopAnalysis /\ LocalOnly /\ UNCHANGED <<job, cp, out, report>>
  <2>1. UNCHANGED <<job, cp, task, flag>> /\ ana' = [ana EXCEPT !.pc = "done"]
    BY <1>3 DEF LocalOnly, StopAnalysis
  <2>2. JobFits' /\ CountersFit'
    BY <2>1, JobKept
  <2>3. AnalysisFits'
    BY <1>1, <1>3, <2>1 DEF PipelineIInv, AnalysisFits
  <2>. QED BY <1>1, <1>3, <2>1, <2>2, <2>3, AnalysisStays
<1>4. CASE /\ mark_scan_group_analyzed(Current) /\ ana' = [ana EXCEPT !.pc = "commit"]
           /\ LocalOnly /\ UNCHANGED <<out, report>>
  <2>1. Current \in Groups
    BY <1>1, AheadNext DEF PipelineIInv
  <2>2. JobFits' /\ CountersFit'
    <3> DEFINE g == Current
    <3>1. g \in Groups /\ mark_scan_group_analyzed(g) /\ task' = task
      BY <1>4, <2>1 DEF LocalOnly
    <3> HIDE DEF g
    <3>. QED BY <1>1, <3>1, CheckpointStep DEF PipelineIInv
  <2>3. AnalysisFits'
    BY <1>1, <1>4 DEF PipelineIInv, AnalysisFits
  <2>. QED BY <1>1, <1>4, <2>2, <2>3, AnalysisStays
<1>. QED BY <1>2, <1>3, <1>4 DEF AnalyzeGroup

LEMMA CommitLocalGroupKeeps ==
    ASSUME PipelineIInv, CommitLocalGroup
    PROVE  PipelineIInv'
<1> DEFINE g == Current
<1>1. task = "pipeline" /\ ana.pc = "commit" /\ Active
  BY DEF CommitLocalGroup, Running, Active
<1>2. /\ g \in Groups /\ Ahead(ana.at) = Ahead(NextAt.at) \cup {g} /\ g \notin Ahead(NextAt.at)
  BY <1>1, AheadNext DEF PipelineIInv
<1>3. CASE Abort
  BY <1>1, <1>3, AbortKeeps
<1>4. CASE /\ report' = record_scan_group_commit_failure(report, g)
           /\ ana' = NextAt /\ LocalOnly /\ UNCHANGED <<job, cp>>
  <2> HIDE DEF g
  <2>1. UNCHANGED <<job, cp, task, flag, fate, busy>>
    BY <1>4 DEF LocalOnly, remoteVars
  <2>2. JobFits' /\ CountersFit'
    BY <2>1, JobKept
  <2>3. AnalysisFits'
    BY <1>1, <1>4, AheadNext DEF PipelineIInv, AnalysisFits
  <2>4. /\ PlacesFit' /\ NobodyIsForgotten' /\ GuardsFit' /\ ArtworkFits' /\ Past' = Past
        /\ Elements(queue)' = Elements(queue) /\ Names(sending)' = Names(sending)
        /\ Names(prepared)' = Names(prepared) /\ Taken' = Taken
    BY <1>1, <1>4, LocalKept
  <2>5. Ahead(ana.at)' = Ahead(NextAt.at)
    BY <1>4
  <2>6. Ahead(ana.at) \cap Past = {}
    BY DEF PipelineIInv, GroupsApart, Apart, Past
  <2>7. GroupsApart'
    <3>1. UNCHANGED <<queue, prepared>>
      BY <1>4 DEF LocalOnly, remoteVars
    <3>. QED BY <1>2, <2>1, <2>4, <2>5, <3>1 DEF PipelineIInv, GroupsApart, Apart
  <2>8. FatesFit'
    BY <1>1, <1>4, <2>1, <2>4, AheadNext DEF PipelineIInv, FatesFit
  <2>9. g \in Underway /\ Underway' = Underway \ {g}
    BY <1>2, <2>4, <2>5, <2>6 DEF Underway
  <2>10. report' \in Report /\ Reported' = Reported + Size[g]
    BY <1>2, <1>4, CountedFailure DEF PipelineIInv, ReportFits, Reported
  <2>11. ReportFits'
    BY <1>1, <2>1, <2>2, <2>9, <2>10, ReportGrows
  <2>. QED BY <2>1, <2>2, <2>3, <2>4, <2>7, <2>8, <2>11 DEF PipelineIInv
<1>5. CASE /\ fate[g] \notin {"rejected", "lost"} /\ advance_scan_group_progress(g, 2)
           /\ ana' = [ana EXCEPT !.pc = "send"] /\ LocalOnly /\ UNCHANGED report
  <2> HIDE DEF g
  <2>1. JobFits' /\ CountersFit'
    BY <1>1, <1>2, <1>5, CheckpointStep DEF PipelineIInv, LocalOnly
  <2>2. AnalysisFits'
    BY <1>1, <1>5 DEF PipelineIInv, AnalysisFits
  <2>. QED BY <1>1, <1>5, <2>1, <2>2, AnalysisStays DEF g
<1>. QED BY <1>3, <1>4, <1>5 DEF CommitLocalGroup

LEMMA QueueGroupKeeps ==
    ASSUME PipelineIInv, QueueGroup
    PROVE  PipelineIInv'
<1> DEFINE g == Current
<1>1. /\ task = "pipeline" /\ ana.pc = "send"
      /\ UNCHANGED <<job, cp, fate, requested, flag, task, busy, sending, prepared, co,
                     guards, refs, disk, out, report>>
  BY DEF QueueGroup, Running
<1>2. JobFits' /\ CountersFit'
  BY <1>1, JobKept
<1>3. CASE flag /\ StopAnalysis /\ UNCHANGED queue
  <2>1. LocalOnly /\ ana' = [ana EXCEPT !.pc = "done"]
    BY <1>1, <1>3 DEF LocalOnly, remoteVars, StopAnalysis
  <2>2. AnalysisFits'
    BY <1>1, <1>3, <2>1 DEF PipelineIInv, AnalysisFits
  <2>. QED BY <1>1, <1>2, <2>1, <2>2, AnalysisStays
<1>4. CASE Len(queue) < QueueCapacity /\ queue' = Append(queue, g) /\ ana' = NextAt
  <2>1. /\ g \in Groups /\ Ahead(ana.at) = Ahead(NextAt.at) \cup {g} /\ g \notin Ahead(NextAt.at)
        /\ NextAt.pc \in {"pending", "group"}
    BY <1>1, AheadNext DEF PipelineIInv
  <2>2. fate[g] \notin {"rejected", "lost"}
    BY <1>1 DEF PipelineIInv, FatesFit
  <2> HIDE DEF g
  <2>3. AnalysisFits'
    BY <1>1, <1>4, AheadNext DEF PipelineIInv, AnalysisFits
  <2>4. Apart(Ahead(ana.at), Elements(queue), DOMAIN busy, Names(sending), Names(prepared), Taken)
    BY DEF PipelineIInv, GroupsApart
  <2>5. g \notin Elements(queue)
    BY <2>1, <2>4 DEF Apart
  <2>6. /\ queue' \in Seq(Groups) /\ Len(queue') = Len(queue) + 1
        /\ Elements(queue)' = Elements(queue) \cup {g}
        /\ \A i, j \in DOMAIN queue' : queue'[i] = queue'[j] => i = j
    <3>1. queue \in Seq(Groups) /\ \A i, j \in DOMAIN queue : queue[i] = queue[j] => i = j
      BY DEF PipelineIInv, PlacesFit, GroupsApart
    <3>2. Elements(queue)' = Elements(queue')
      BY DEF Elements
    <3>. QED BY <1>4, <2>1, <2>5, <3>1, <3>2, QueueAppend
  <2>7. PlacesFit'
    <3>1. Len(queue') <= QueueCapacity
      BY <1>4, <2>6, PipelineAssumption DEF PipelineIInv, PlacesFit
    <3>. QED BY <1>1, <2>6, <3>1 DEF PipelineIInv, PlacesFit
  <2>8. /\ Names(sending)' = Names(sending) /\ Names(prepared)' = Names(prepared)
        /\ Taken' = Taken /\ Ahead(ana.at)' = Ahead(NextAt.at) /\ busy' = busy
    BY <1>1, <1>4 DEF Names, Taken
  <2>9. GroupsApart'
    <3>1. Apart(Ahead(ana.at)', Elements(queue)', DOMAIN busy, Names(sending), Names(prepared), Taken)
      BY <2>1, <2>4, <2>6, <2>8 DEF Apart
    <3>. QED BY <1>1, <2>6, <2>8, <3>1 DEF PipelineIInv, GroupsApart
  <2>10. Past' = Past \cup {g} /\ Underway' = Underway
    BY <2>1, <2>6, <2>8 DEF Past, Underway
  <2>11. FatesFit'
    BY <1>1, <1>4, <2>1, <2>2, <2>10 DEF PipelineIInv, FatesFit
  <2>12. NobodyIsForgotten'
    BY <1>1 DEF PipelineIInv, NobodyIsForgotten, PreparationEnded
  <2>13. GuardsFit' /\ ArtworkFits'
    BY <1>1 DEF PipelineIInv, GuardsFit, ArtworkFits, Names
  <2>14. ReportFits'
    BY <1>1, <1>2, <2>10, ReportKept
  <2>. QED BY <1>1, <1>2, <2>3, <2>7, <2>9, <2>11, <2>12, <2>13, <2>14 DEF PipelineIInv
<1>. QED BY <1>3, <1>4 DEF QueueGroup

-----------------------------------------------------------------------------
(* The preparation.                                                        *)

LEMMA PreparationKept ==
    ASSUME PipelineIInv, task = "pipeline", PreparationOnly, ~ PreparationEnded
    PROVE  /\ JobFits' /\ CountersFit' /\ AnalysisFits' /\ Ahead(ana.at)' = Ahead(ana.at)
           /\ flag \/ Underway' = Underway => ReportFits'
           /\ Past' \subseteq Past => FatesFit'
           /\ co.pc = "done" => flag
           /\ Apart(Ahead(ana.at), Elements(queue), DOMAIN busy, Names(sending),
                    Names(prepared), Taken)
<1>1. UNCHANGED <<job, cp, fate, flag, task, ana, refs, report>>
  BY DEF PreparationOnly
<1>2. JobFits' /\ CountersFit'
  BY <1>1, JobKept
<1>3. AnalysisFits' /\ Ahead(ana.at)' = Ahead(ana.at)
  BY <1>1 DEF PipelineIInv, AnalysisFits
<1>4. flag \/ Underway' = Underway => ReportFits'
  BY <1>1, <1>2, ReportKept
<1>5. Past' \subseteq Past => FatesFit'
  BY <1>1 DEF PipelineIInv, FatesFit, Current
<1>6. co.pc = "done" => flag
  BY DEF PipelineIInv, NobodyIsForgotten
<1>. QED BY <1>2, <1>3, <1>4, <1>5, <1>6 DEF PipelineIInv, GroupsApart

LEMMA TakeGroupKeeps ==
    ASSUME PipelineIInv, TakeGroup
    PROVE  PipelineIInv'
<1> DEFINE g == Head(queue)
           step == IF flag THEN "empty" ELSE IF fate[g] = "review" THEN "ready" ELSE "acquire"
<1>1. /\ task = "pipeline" /\ queue # <<>> /\ Cardinality(DOMAIN busy) < Concurrency
      /\ queue' = Tail(queue) /\ PreparationOnly
      /\ busy' = [h \in DOMAIN busy \cup {g} |-> IF h \in DOMAIN busy THEN busy[h] ELSE step]
      /\ UNCHANGED <<sending, prepared, co, guards, disk>>
  BY DEF TakeGroup, Polled, Running
<1>2. /\ JobFits' /\ CountersFit' /\ AnalysisFits' /\ Ahead(ana.at)' = Ahead(ana.at)
      /\ flag \/ Underway' = Underway => ReportFits'
      /\ (Past' \subseteq Past => FatesFit') /\ (co.pc = "done" => flag)
      /\ Apart(Ahead(ana.at), Elements(queue), DOMAIN busy, Names(sending),
               Names(prepared), Taken)
  BY <1>1, PreparationKept DEF PreparationEnded
<1>3. UNCHANGED <<fate, flag, task, refs, ana>>
  BY <1>1 DEF PreparationOnly
<1>4. /\ queue' \in Seq(Groups) /\ g \in Groups /\ Len(queue') = Len(queue) - 1
      /\ Elements(queue) = Elements(queue)' \cup {g} /\ g \notin Elements(queue)'
      /\ \A i, j \in DOMAIN queue' : queue'[i] = queue'[j] => i = j
  <2>1. queue \in Seq(Groups) /\ \A i, j \in DOMAIN queue : queue[i] = queue[j] => i = j
    BY DEF PipelineIInv, PlacesFit, GroupsApart
  <2>2. Elements(queue)' = Elements(queue')
    BY DEF Elements
  <2>. QED BY <1>1, <2>1, <2>2, QueueTail
<1>5. step \in {"empty", "ready", "acquire"} /\ (step = "empty" => flag)
      /\ (step = "ready" => fate[g] = "review")
  OBVIOUS
<1> HIDE DEF g, step
<1>6. g \notin DOMAIN busy /\ DOMAIN busy \subseteq Groups /\ DOMAIN busy' = DOMAIN busy \cup {g}
  BY <1>1, <1>2, <1>4 DEF Apart, PipelineIInv, PlacesFit
<1>7. /\ busy'[g] = step /\ \A h \in DOMAIN busy : busy'[h] = busy[h]
      /\ busy' = [h \in DOMAIN busy' |-> busy'[h]]
  BY <1>1, <1>6
<1>8. Cardinality(DOMAIN busy') <= Concurrency
  <2> DEFINE D == DOMAIN busy
  <2>1. IsFiniteSet(D) /\ Cardinality(D) \in Nat
    BY <1>6, GroupsAreFinite, FS_Subset, FS_CardinalityType
  <2>2. Cardinality(D \cup {g}) = Cardinality(D) + 1
    BY <1>6, <2>1, FS_AddElement
  <2>. QED BY <1>1, <1>6, <2>1, <2>2, PipelineAssumption
<1>9. PlacesFit'
  BY <1>1, <1>4, <1>6, <1>7, <1>8, PipelineAssumption DEF PipelineIInv, PlacesFit
<1>10. Names(sending)' = Names(sending) /\ Names(prepared)' = Names(prepared) /\ Taken' = Taken
  BY <1>1 DEF Names, Taken
<1>11. GroupsApart'
  <2>1. Apart(Ahead(ana.at), Elements(queue)', DOMAIN busy', Names(sending), Names(prepared), Taken)
    BY <1>2, <1>4, <1>6 DEF Apart
  <2>. QED BY <1>1, <1>2, <1>4, <1>10, <2>1 DEF PipelineIInv, GroupsApart
<1>12. Past' = Past /\ Underway' = Underway
  BY <1>2, <1>4, <1>6, <1>10 DEF Past, Underway
<1>13. NobodyIsForgotten'
  BY <1>1, <1>2, <1>3, <1>5, <1>6, <1>7 DEF PipelineIInv, NobodyIsForgotten
<1>14. GuardsFit'
  BY <1>1, <1>6, <1>10 DEF PipelineIInv, GuardsFit
<1>15. ArtworkFits'
  BY <1>1, <1>3, <1>5, <1>6, <1>7 DEF PipelineIInv, ArtworkFits
<1>. QED BY <1>2, <1>3, <1>9, <1>11, <1>12, <1>13, <1>14, <1>15 DEF PipelineIInv

\* A step of one future: its group stays where it is.
LEMMA FutureKeeps ==
    ASSUME PipelineIInv, task = "pipeline", NEW g \in DOMAIN busy, NEW step, step # "empty",
           busy' = [busy EXCEPT ![g] = step], PreparationOnly,
           UNCHANGED <<queue, sending, prepared, co>>,
           guards' \subseteq guards \cup {g}, disk \subseteq disk',
           step = "ready" /\ fate[g] = "matched" => g \in disk'
    PROVE  PipelineIInv'
<1>1. /\ JobFits' /\ CountersFit' /\ AnalysisFits' /\ Ahead(ana.at)' = Ahead(ana.at)
      /\ flag \/ Underway' = Underway => ReportFits'
      /\ (Past' \subseteq Past => FatesFit') /\ (co.pc = "done" => flag)
  <2>1. ~ PreparationEnded
    BY DEF PreparationEnded
  <2>. QED BY <2>1, PreparationKept
<1>2. UNCHANGED <<fate, flag, task, refs>>
  BY DEF PreparationOnly
<1>3. busy = [h \in DOMAIN busy |-> busy[h]]
  BY DEF PipelineIInv, PlacesFit
<1>4. /\ DOMAIN busy' = DOMAIN busy /\ busy'[g] = step
      /\ \A h \in DOMAIN busy : h # g => busy'[h] = busy[h]
      /\ busy' = [h \in DOMAIN busy' |-> busy'[h]]
  BY <1>3
<1>5. PlacesFit'
  BY <1>4 DEF PipelineIInv, PlacesFit
<1>6. /\ Elements(queue)' = Elements(queue) /\ Names(sending)' = Names(sending)
      /\ Names(prepared)' = Names(prepared) /\ Taken' = Taken
  BY DEF Elements, Names, Taken
<1>7. GroupsApart' /\ Past' = Past /\ Underway' = Underway
  BY <1>1, <1>4, <1>6 DEF PipelineIInv, GroupsApart, Past, Underway
<1>8. NobodyIsForgotten'
  BY <1>1, <1>2, <1>4 DEF PipelineIInv, NobodyIsForgotten
<1>9. GuardsFit'
  BY <1>4, <1>6 DEF PipelineIInv, GuardsFit
<1>10. ArtworkFits'
  BY <1>2, <1>4 DEF PipelineIInv, ArtworkFits
<1>. QED BY <1>1, <1>2, <1>5, <1>7, <1>8, <1>9, <1>10 DEF PipelineIInv

LEMMA AcquireKeeps ==
    ASSUME PipelineIInv, NEW g \in Groups, acquire(g) \/ prepare_remote_scan_group(g)
    PROVE  PipelineIInv'
<1>1. CASE acquire(g)
  BY <1>1, FutureKeeps DEF acquire, Polled, Running
<1>2. CASE prepare_remote_scan_group(g)
  <2>1. /\ task = "pipeline" /\ g \in DOMAIN busy /\ busy' = [busy EXCEPT ![g] = "ready"]
        /\ PreparationOnly /\ UNCHANGED <<queue, sending, prepared, co, guards>>
        /\ disk' = IF fate[g] \in {"matched", "patch_rejected"} THEN disk \cup {g} ELSE disk
    BY <1>2 DEF prepare_remote_scan_group, Polled, Running
  <2>2. disk \subseteq disk' /\ (fate[g] = "matched" => g \in disk')
    BY <2>1
  <2>. QED BY <2>1, <2>2, FutureKeeps
<1>. QED BY <1>1, <1>2

LEMMA FinishPreparationKeeps ==
    ASSUME PipelineIInv, NEW g \in Groups, FinishPreparation(g)
    PROVE  PipelineIInv'
<1> DEFINE one == [g |-> g, empty |-> busy[g] = "empty"]
<1>1. /\ task = "pipeline" /\ g \in DOMAIN busy /\ busy[g] \in {"ready", "empty"}
      /\ sending = <<>> /\ sending' = <<one>> /\ busy' = [h \in DOMAIN busy \ {g} |-> busy[h]]
      /\ PreparationOnly /\ UNCHANGED <<queue, prepared, co, guards, disk>>
  BY DEF FinishPreparation, Polled, Running
<1>2. /\ JobFits' /\ CountersFit' /\ AnalysisFits' /\ Ahead(ana.at)' = Ahead(ana.at)
      /\ flag \/ Underway' = Underway => ReportFits'
      /\ (Past' \subseteq Past => FatesFit') /\ (co.pc = "done" => flag)
      /\ Apart(Ahead(ana.at), Elements(queue), DOMAIN busy, Names(sending),
               Names(prepared), Taken)
  <2>1. ~ PreparationEnded
    BY <1>1 DEF PreparationEnded
  <2>. QED BY <1>1, <2>1, PreparationKept
<1>3. UNCHANGED <<fate, flag, task, refs>>
  BY <1>1 DEF PreparationOnly
<1>4. /\ DOMAIN busy' = DOMAIN busy \ {g} /\ busy' = [h \in DOMAIN busy' |-> busy'[h]]
      /\ \A h \in DOMAIN busy' : busy'[h] = busy[h]
  BY <1>1
<1>5. one \in Prepared /\ one.g = g /\ (one.empty => flag)
      /\ (~one.empty => busy[g] = "ready")
  BY <1>1 DEF Prepared, PipelineIInv, NobodyIsForgotten
<1> HIDE DEF one
<1>6. /\ sending' \in Seq(Prepared) /\ Len(sending') = 1 /\ DOMAIN sending' = {1}
      /\ sending'[1] = one
  BY <1>1, <1>5
<1>7. /\ Names(sending)' = {g} /\ Names(sending) = {} /\ Elements(queue)' = Elements(queue)
      /\ Names(prepared)' = Names(prepared) /\ Taken' = Taken
  BY <1>1, <1>5, <1>6, NothingInThePlaces DEF Names, Elements, Taken
<1>8. Cardinality(DOMAIN busy') <= Concurrency
  <2> DEFINE D == DOMAIN busy
  <2>1. D \subseteq Groups /\ Cardinality(D) <= Concurrency
    BY DEF PipelineIInv, PlacesFit
  <2>2. IsFiniteSet(D) /\ Cardinality(D) \in Nat
    BY <2>1, GroupsAreFinite, FS_Subset, FS_CardinalityType
  <2>3. Cardinality(D \ {g}) <= Cardinality(D) /\ Cardinality(D \ {g}) \in Nat
    <3>1. D \ {g} \subseteq D /\ IsFiniteSet(D \ {g})
      BY <2>2, FS_Subset
    <3>. QED BY <2>2, <3>1, FS_Subset, FS_CardinalityType
  <2>. QED BY <1>4, <2>1, <2>2, <2>3, PipelineAssumption
<1>9. PlacesFit'
  <2>1. DOMAIN busy' \subseteq Groups
    BY <1>4 DEF PipelineIInv, PlacesFit
  <2>. QED BY <1>1, <1>4, <1>6, <1>8, <2>1 DEF PipelineIInv, PlacesFit
<1>10. GroupsApart'
  <2>1. Apart(Ahead(ana.at), Elements(queue), DOMAIN busy', {g}, Names(prepared), Taken)
    BY <1>1, <1>2, <1>4, <1>7 DEF Apart
  <2>. QED BY <1>1, <1>2, <1>7, <2>1 DEF PipelineIInv, GroupsApart
<1>11. Past' = Past /\ Underway' = Underway
  BY <1>1, <1>2, <1>4, <1>7 DEF Past, Underway
<1>12. NobodyIsForgotten'
  BY <1>1, <1>2, <1>3, <1>4, <1>5, <1>6 DEF PipelineIInv, NobodyIsForgotten
<1>13. GuardsFit'
  BY <1>1, <1>4, <1>7 DEF PipelineIInv, GuardsFit
<1>14. ArtworkFits'
  BY <1>1, <1>3, <1>4, <1>5, <1>6 DEF PipelineIInv, ArtworkFits
<1>. QED BY <1>2, <1>3, <1>9, <1>10, <1>11, <1>12, <1>13, <1>14 DEF PipelineIInv

LEMMA DeliverPreparedKeeps ==
    ASSUME PipelineIInv, DeliverPrepared
    PROVE  PipelineIInv'
<1> DEFINE one == sending[1]
<1>1. /\ task = "pipeline" /\ sending # <<>> /\ sending' = <<>>
      /\ PreparationOnly /\ UNCHANGED <<queue, busy, co, disk>>
  BY DEF DeliverPrepared, Running
<1>2. /\ JobFits' /\ CountersFit' /\ AnalysisFits' /\ Ahead(ana.at)' = Ahead(ana.at)
      /\ flag \/ Underway' = Underway => ReportFits'
      /\ (Past' \subseteq Past => FatesFit') /\ (co.pc = "done" => flag)
      /\ Apart(Ahead(ana.at), Elements(queue), DOMAIN busy, Names(sending),
               Names(prepared), Taken)
  <2>1. ~ PreparationEnded
    BY <1>1 DEF PreparationEnded
  <2>. QED BY <1>1, <2>1, PreparationKept
<1>3. UNCHANGED <<fate, flag, task, refs>>
  BY <1>1 DEF PreparationOnly
<1>4. /\ DOMAIN sending = {1} /\ one \in Prepared
      /\ \A i, j \in DOMAIN prepared : prepared[i].g = prepared[j].g => i = j
      /\ prepared \in Seq(Prepared) /\ Len(prepared) <= QueueCapacity /\ Len(prepared) \in Nat
  <2>1. sending \in Seq(Prepared) /\ Len(sending) <= 1 /\ sending # <<>>
    BY <1>1 DEF PipelineIInv, PlacesFit
  <2>2. DOMAIN sending = {1} /\ one \in Prepared
    BY <2>1, OneElement
  <2>. QED BY <2>2 DEF PipelineIInv, PlacesFit, GroupsApart
<1>5. /\ one.empty => flag
      /\ ~one.empty /\ fate[one.g] = "matched" => one.g \in disk
  BY <1>4 DEF PipelineIInv, NobodyIsForgotten, ArtworkFits
<1>6. /\ Names(sending)' = {} /\ Names(sending) = {one.g} /\ Elements(queue)' = Elements(queue)
      /\ Taken' = Taken /\ busy' = busy
  BY <1>1, <1>4, NothingInThePlaces DEF Names, Elements, Taken
<1>7. Len(sending') = 0 /\ sending' \in Seq(Prepared) /\ DOMAIN sending' = {}
  BY <1>1
<1>8. CASE co.pc = "done" /\ guards' = guards \ {one.g} /\ UNCHANGED prepared
  <2>1. Names(prepared)' = Names(prepared) /\ flag
    BY <1>2, <1>8 DEF Names
  <2>2. PlacesFit'
    BY <1>1, <1>7, <1>8 DEF PipelineIInv, PlacesFit
  <2>3. GroupsApart'
    <3>1. Apart(Ahead(ana.at), Elements(queue), DOMAIN busy, {}, Names(prepared), Taken)
      BY <1>2 DEF Apart
    <3>. QED BY <1>1, <1>2, <1>4, <1>6, <1>8, <2>1, <3>1 DEF PipelineIInv, GroupsApart
  <2>4. Past' \subseteq Past
    BY <1>6, <2>1 DEF Past
  <2>5. NobodyIsForgotten'
    BY <1>1, <1>3, <1>7, <1>8, <2>1 DEF PipelineIInv, NobodyIsForgotten
  <2>6. GuardsFit'
    BY <1>1, <1>6, <1>8, <2>1 DEF PipelineIInv, GuardsFit
  <2>7. ArtworkFits'
    BY <1>1, <1>3, <1>7, <1>8 DEF PipelineIInv, ArtworkFits
  <2>. QED BY <1>2, <1>3, <2>1, <2>2, <2>3, <2>4, <2>5, <2>6, <2>7 DEF PipelineIInv
<1>9. CASE /\ co.pc # "done" /\ Len(prepared) < QueueCapacity
           /\ prepared' = Append(prepared, one) /\ UNCHANGED guards
  <2> HIDE DEF one
  <2>1. one.g \notin Names(prepared)
    BY <1>2, <1>6 DEF Apart
  <2>2. /\ prepared' \in Seq(Prepared) /\ Len(prepared') = Len(prepared) + 1
        /\ Names(prepared)' = Names(prepared) \cup {one.g}
        /\ \A i, j \in DOMAIN prepared' : prepared'[i].g = prepared'[j].g => i = j
        /\ \A k \in DOMAIN prepared' :
              prepared'[k] = one \/ (k \in DOMAIN prepared /\ prepared'[k] = prepared[k])
    <3>1. Names(prepared)' = Names(prepared')
      BY DEF Names
    <3>. QED BY <1>4, <1>9, <2>1, <3>1, ReadyAppend
  <2>3. PlacesFit'
    <3>1. Len(prepared') <= QueueCapacity
      BY <1>4, <1>9, <2>2, PipelineAssumption
    <3>. QED BY <1>1, <1>7, <2>2, <3>1 DEF PipelineIInv, PlacesFit
  <2>4. GroupsApart'
    <3>1. Apart(Ahead(ana.at), Elements(queue), DOMAIN busy, {}, Names(prepared)', Taken)
      BY <1>2, <1>6, <2>2 DEF Apart
    <3>. QED BY <1>1, <1>2, <1>6, <2>2, <3>1 DEF PipelineIInv, GroupsApart
  <2>5. Past' = Past /\ Underway' = Underway
    BY <1>2, <1>6, <2>2 DEF Past, Underway
  <2>6. NobodyIsForgotten'
    BY <1>1, <1>3, <1>5, <1>7, <1>9, <2>2 DEF PipelineIInv, NobodyIsForgotten
  <2>7. GuardsFit'
    BY <1>1, <1>6, <1>9, <2>2 DEF PipelineIInv, GuardsFit
  <2>8. ArtworkFits'
    BY <1>1, <1>3, <1>5, <1>7, <2>2 DEF PipelineIInv, ArtworkFits
  <2>. QED BY <1>2, <1>3, <2>3, <2>4, <2>5, <2>6, <2>7, <2>8 DEF PipelineIInv
<1>. QED BY <1>8, <1>9 DEF DeliverPrepared

-----------------------------------------------------------------------------
(* The coordinator.                                                        *)

ReceiverOnly == UNCHANGED <<job, cp, fate, requested, flag, task, ana, queue, busy, sending,
                            refs, disk, out, report>>

LEMMA ReceivePreparedKeeps ==
    ASSUME PipelineIInv, ReceivePrepared
    PROVE  PipelineIInv'
<1>1. task = "pipeline" /\ co.pc = "recv" /\ ReceiverOnly
  BY DEF ReceivePrepared, Running, ReceiverOnly
<1>2. UNCHANGED <<job, cp, fate, flag, task, ana, queue, busy, sending, refs, disk, report>>
  BY <1>1 DEF ReceiverOnly
<1>3. JobFits' /\ CountersFit'
  BY <1>2, JobKept
<1>4. AnalysisFits' /\ Ahead(ana.at)' = Ahead(ana.at)
  BY <1>2 DEF PipelineIInv, AnalysisFits
<1>5. Elements(queue)' = Elements(queue) /\ Names(sending)' = Names(sending)
  BY <1>2 DEF Elements, Names
<1>6. co.g = 0 /\ Taken = {} /\ co \in [pc : {"recv"}, g : {0}]
  BY <1>1 DEF PipelineIInv, PlacesFit, Taken
<1>7. Apart(Ahead(ana.at), Elements(queue), DOMAIN busy, Names(sending), Names(prepared), Taken)
  BY DEF PipelineIInv, GroupsApart
<1>8. CASE prepared = <<>> /\ PreparationEnded /\ co' = [co EXCEPT !.pc = "done"]
           /\ UNCHANGED <<prepared, guards>>
  <2>1. co'.pc = "done" /\ co'.g = 0 /\ co' = [pc |-> "done", g |-> 0]
    BY <1>6, <1>8
  <2>2. Names(prepared)' = Names(prepared) /\ Taken' = Taken
    BY <1>6, <1>8, <2>1 DEF Names, Taken
  <2>3. PlacesFit' /\ GroupsApart'
    BY <1>2, <1>4, <1>5, <1>8, <2>1, <2>2 DEF PipelineIInv, PlacesFit, GroupsApart
  <2>4. Past' = Past /\ Underway' = Underway
    BY <1>2, <1>4, <1>5, <2>2 DEF Past, Underway
  <2>5. FatesFit'
    BY <1>2, <2>4 DEF PipelineIInv, FatesFit, Current
  <2>6. NobodyIsForgotten'
    BY <1>1, <1>2, <1>8, <2>1 DEF PipelineIInv, NobodyIsForgotten, PreparationEnded
  <2>7. GuardsFit' /\ ArtworkFits'
    BY <1>1, <1>2, <1>5, <1>8, <2>1, <2>2 DEF PipelineIInv, GuardsFit, ArtworkFits
  <2>8. ReportFits'
    BY <1>1, <1>2, <1>3, <2>4, ReportKept
  <2>. QED BY <1>2, <1>3, <1>4, <2>3, <2>5, <2>6, <2>7, <2>8 DEF PipelineIInv
<1>9. CASE /\ flag /\ co' = [co EXCEPT !.pc = "done"] /\ prepared' = <<>>
           /\ guards' = guards \ {prepared[k].g : k \in DOMAIN prepared}
  <2>1. co'.pc = "done" /\ co'.g = 0 /\ co' = [pc |-> "done", g |-> 0]
    BY <1>6, <1>9
  <2>2. /\ Names(prepared)' = {} /\ Taken' = Taken /\ DOMAIN prepared' = {}
        /\ Len(prepared') = 0 /\ prepared' \in Seq(Prepared)
    BY <1>6, <1>9, <2>1, NothingInThePlaces DEF Names, Taken
  <2>3. PlacesFit'
    <3>1. Len(prepared') <= QueueCapacity
      BY <2>2, PipelineAssumption
    <3>. QED BY <1>2, <2>1, <2>2, <3>1 DEF PipelineIInv, PlacesFit
  <2>4. GroupsApart'
    <3>1. Apart(Ahead(ana.at), Elements(queue), DOMAIN busy, Names(sending), {}, Taken)
      BY <1>7 DEF Apart
    <3>. QED BY <1>2, <1>4, <1>5, <2>2, <3>1 DEF PipelineIInv, GroupsApart
  <2>5. Past' \subseteq Past
    BY <1>2, <1>5, <2>2 DEF Past
  <2>6. FatesFit'
    BY <1>2, <2>5 DEF PipelineIInv, FatesFit, Current
  <2>7. NobodyIsForgotten'
    BY <1>1, <1>2, <1>9, <2>2 DEF PipelineIInv, NobodyIsForgotten
  <2>8. GuardsFit'
    BY <1>1, <1>2, <1>5, <1>9, <2>1, <2>2 DEF PipelineIInv, GuardsFit, Names
  <2>9. ArtworkFits'
    BY <1>2, <2>1, <2>2 DEF PipelineIInv, ArtworkFits
  <2>10. ReportFits'
    BY <1>1, <1>2, <1>3, <1>9, ReportKept
  <2>. QED BY <1>2, <1>3, <1>4, <2>3, <2>4, <2>6, <2>7, <2>8, <2>9, <2>10 DEF PipelineIInv
<1>10. CASE /\ prepared # <<>> /\ ~flag /\ prepared' = Tail(prepared) /\ UNCHANGED guards
            /\ co' = IF Head(prepared).empty THEN co
                     ELSE [pc |-> "commit", g |-> Head(prepared).g]
  <2> DEFINE one == Head(prepared)
             g == one.g
  <2>1. /\ prepared' \in Seq(Prepared) /\ one \in Prepared /\ Len(prepared') = Len(prepared) - 1
        /\ one = prepared[1] /\ 1 \in DOMAIN prepared
        /\ Names(prepared) = Names(prepared)' \cup {g} /\ g \notin Names(prepared)'
        /\ \A i, j \in DOMAIN prepared' : prepared'[i].g = prepared'[j].g => i = j
        /\ \A k \in DOMAIN prepared' : k + 1 \in DOMAIN prepared /\ prepared'[k] = prepared[k + 1]
    <3>1. /\ prepared \in Seq(Prepared)
          /\ \A i, j \in DOMAIN prepared : prepared[i].g = prepared[j].g => i = j
      BY DEF PipelineIInv, PlacesFit, GroupsApart
    <3>2. Names(prepared)' = Names(prepared')
      BY DEF Names
    <3>. QED BY <1>10, <3>1, <3>2, ReadyTail
  <2>2. ~one.empty /\ (fate[g] = "matched" => g \in disk) /\ g \in Groups
    BY <1>10, <2>1 DEF PipelineIInv, NobodyIsForgotten, ArtworkFits, Prepared
  <2>3. co' = [pc |-> "commit", g |-> g]
    BY <1>10, <2>2
  <2> HIDE DEF one, g
  <2>4. g # 0 /\ co'.g = g /\ co'.pc = "commit" /\ Taken' = {g}
    BY <2>2, <2>3, PlannedGroups DEF Taken
  <2>5. PlacesFit'
    <3>1. Len(prepared') <= QueueCapacity
      BY <2>1, PipelineAssumption DEF PipelineIInv, PlacesFit
    <3>. QED BY <1>2, <2>1, <2>2, <2>3, <2>4, <3>1 DEF PipelineIInv, PlacesFit
  <2>6. GroupsApart'
    <3>1. Apart(Ahead(ana.at), Elements(queue), DOMAIN busy, Names(sending), Names(prepared)', {g})
      BY <1>7, <2>1 DEF Apart
    <3>. QED BY <1>2, <1>4, <1>5, <2>1, <2>4, <3>1 DEF PipelineIInv, GroupsApart
  <2>7. Past' = Past /\ Underway' = Underway
    BY <1>2, <1>4, <1>5, <1>6, <2>1, <2>4 DEF Past, Underway
  <2>8. FatesFit'
    BY <1>2, <2>7 DEF PipelineIInv, FatesFit, Current
  <2>9. NobodyIsForgotten'
    BY <1>1, <1>2, <2>1, <2>4 DEF PipelineIInv, NobodyIsForgotten
  <2>10. GuardsFit'
    BY <1>1, <1>2, <1>5, <1>10, <2>1, <2>4 DEF PipelineIInv, GuardsFit
  <2>11. ArtworkFits'
    BY <1>2, <2>1, <2>2, <2>4 DEF PipelineIInv, ArtworkFits
  <2>12. ReportFits'
    BY <1>1, <1>2, <1>3, <2>7, ReportKept
  <2>. QED BY <1>2, <1>3, <1>4, <2>5, <2>6, <2>8, <2>9, <2>10, <2>11, <2>12 DEF PipelineIInv
<1>. QED BY <1>8, <1>9, <1>10 DEF ReceivePrepared

\* The group the coordinator has in hand is nowhere else.
LEMMA HandsKept ==
    ASSUME PipelineIInv, task = "pipeline", co.pc \in {"commit", "release", "cleanup", "record"},
           UNCHANGED <<fate, flag, task, ana, queue, busy, sending, prepared, report>>,
           NEW pc \in {"commit", "release", "cleanup", "record"}, co' = [co EXCEPT !.pc = pc],
           JobFits', CountersFit', GuardsFit', ArtworkFits'
    PROVE  PipelineIInv'
<1>1. co'.pc = pc /\ co'.g = co.g /\ Taken' = Taken
  BY DEF PipelineIInv, PlacesFit, Taken
<1>2. AnalysisFits' /\ Ahead(ana.at)' = Ahead(ana.at)
  BY DEF PipelineIInv, AnalysisFits
<1>3. /\ Elements(queue)' = Elements(queue) /\ Names(sending)' = Names(sending)
      /\ Names(prepared)' = Names(prepared)
  BY DEF Elements, Names
<1>4. PlacesFit'
  BY <1>1 DEF PipelineIInv, PlacesFit
<1>5. GroupsApart' /\ Past' = Past /\ Underway' = Underway
  BY <1>1, <1>2, <1>3 DEF PipelineIInv, GroupsApart, Past, Underway
<1>6. FatesFit'
  BY <1>5 DEF PipelineIInv, FatesFit, Current
<1>7. NobodyIsForgotten'
  BY <1>1 DEF PipelineIInv, NobodyIsForgotten
<1>8. ReportFits'
  BY <1>5, ReportKept
<1>. QED BY <1>2, <1>4, <1>5, <1>6, <1>7, <1>8 DEF PipelineIInv

LEMMA InHand ==
    ASSUME PipelineIInv, co.pc \in {"commit", "release", "cleanup", "record"}
    PROVE  /\ co.g \in Groups /\ Taken = {co.g} /\ co.g \in Underway
           /\ co.g \notin DOMAIN busy \cup Names(sending) \cup Names(prepared)
           /\ fate[co.g] \in Fate \ {"rejected", "lost"}
<1>1. co.g \in Groups /\ co.g # 0
  BY DEF PipelineIInv, PlacesFit
<1>2. Taken = {co.g}
  BY <1>1 DEF Taken
<1>. QED BY <1>1, <1>2 DEF PipelineIInv, GroupsApart, Apart, FatesFit, Past, Underway

LEMMA CommitRemoteGroupKeeps ==
    ASSUME PipelineIInv, CommitRemoteGroup
    PROVE  PipelineIInv'
<1> DEFINE g == co.g
<1>1. task = "pipeline" /\ co.pc = "commit" /\ Active
  BY DEF CommitRemoteGroup, Running, Active
<1>2. CASE Abort
  BY <1>1, <1>2, AbortKeeps
<1>3. g \in Groups
  BY <1>1, InHand
<1>4. CASE /\ advance_scan_group_progress(g, 3) /\ refs' = patched_refs(g)
           /\ co' = [co EXCEPT !.pc = "release"]
           /\ UNCHANGED <<fate, requested, flag, task, ana, queue, busy, sending,
                          prepared, guards, disk, report>>
  <2> HIDE DEF g
  <2>1. JobFits' /\ CountersFit'
    BY <1>1, <1>3, <1>4, CheckpointStep DEF PipelineIInv
  <2> USE DEF g
  <2>2. co'.pc = "release" /\ co'.g = co.g
    BY <1>4 DEF PipelineIInv, PlacesFit
  <2>3. GuardsFit'
    BY <1>1, <1>4, <2>2 DEF PipelineIInv, GuardsFit, Names
  <2>4. refs' \subseteq disk
    BY <1>1, <1>4 DEF PipelineIInv, ArtworkFits, patched_refs
  <2>5. ArtworkFits'
    BY <1>4, <2>2, <2>4 DEF PipelineIInv, ArtworkFits
  <2>. QED BY <1>1, <1>4, <2>1, <2>3, <2>5, HandsKept
<1>5. CASE /\ co' = [co EXCEPT !.pc = "release"]
           /\ UNCHANGED <<job, cp, fate, requested, flag, task, ana, queue, busy, sending,
                          prepared, guards, refs, disk, out, report>>
  <2>1. JobFits' /\ CountersFit'
    BY <1>5, JobKept
  <2>2. co'.pc = "release" /\ co'.g = co.g
    BY <1>5 DEF PipelineIInv, PlacesFit
  <2>3. GuardsFit' /\ ArtworkFits'
    BY <1>1, <1>5, <2>2 DEF PipelineIInv, GuardsFit, ArtworkFits, Names
  <2>. QED BY <1>1, <1>5, <2>1, <2>3, HandsKept
<1>. QED BY <1>2, <1>4, <1>5 DEF CommitRemoteGroup

LEMMA PublicationKeeps ==
    ASSUME PipelineIInv, finish_tmdb_artwork_publication
    PROVE  PipelineIInv'
<1> DEFINE pc == IF NeedsCleanup(co.g) THEN "cleanup" ELSE "record"
<1>1. /\ task = "pipeline" /\ co.pc = "release" /\ guards' = guards \ {co.g}
      /\ co' = [co EXCEPT !.pc = pc]
      /\ UNCHANGED <<job, cp, fate, requested, flag, task, ana, queue, busy, sending,
                     prepared, refs, disk, out, report>>
  BY DEF finish_tmdb_artwork_publication, Running
<1>2. pc \in {"cleanup", "record"}
  OBVIOUS
<1> HIDE DEF pc
<1>3. JobFits' /\ CountersFit'
  BY <1>1, JobKept
<1>4. co'.pc = pc
  BY <1>1 DEF PipelineIInv, PlacesFit
<1>5. GuardsFit' /\ ArtworkFits'
  BY <1>1, <1>2, <1>4 DEF PipelineIInv, GuardsFit, ArtworkFits, Names
<1>. QED BY <1>1, <1>2, <1>3, <1>5, HandsKept

LEMMA CleanupKeeps ==
    ASSUME PipelineIInv, execute_tmdb_artwork_cleanup
    PROVE  PipelineIInv'
<1>1. /\ task = "pipeline" /\ co.pc = "cleanup" /\ guards = {}
      /\ disk' = disk \ ({co.g} \ refs) /\ co' = [co EXCEPT !.pc = "record"]
      /\ UNCHANGED <<job, cp, fate, requested, flag, task, ana, queue, busy, sending,
                     prepared, guards, refs, out, report>>
  BY DEF execute_tmdb_artwork_cleanup, Running
<1>2. JobFits' /\ CountersFit'
  BY <1>1, JobKept
<1>3. co'.pc = "record"
  BY <1>1 DEF PipelineIInv, PlacesFit
<1>4. GuardsFit'
  BY <1>1, <1>3 DEF GuardsFit
<1>5. ArtworkFits'
  <2>1. \A h \in DOMAIN busy : h # co.g
    BY <1>1, InHand
  <2>2. /\ \A k \in DOMAIN sending : sending[k].g # co.g
        /\ \A k \in DOMAIN prepared : prepared[k].g # co.g
    BY <1>1, InHand DEF Names
  <2>3. refs' \subseteq disk' /\ \A h : h # co.g /\ h \in disk => h \in disk'
    BY <1>1 DEF PipelineIInv, ArtworkFits
  <2>. QED BY <1>1, <1>3, <2>1, <2>2, <2>3 DEF PipelineIInv, ArtworkFits
<1>. QED BY <1>1, <1>2, <1>4, <1>5, HandsKept

LEMMA RecordGroupKeeps ==
    ASSUME PipelineIInv, RecordGroup
    PROVE  PipelineIInv'
<1> DEFINE g == co.g
<1>1. /\ task = "pipeline" /\ co.pc = "record" /\ co' = [pc |-> "recv", g |-> 0]
      /\ \/ Committed(g) /\ report' = record_scan_notification_group(report, g)
         \/ report' = record_scan_group_commit_failure(report, g)
      /\ UNCHANGED <<job, cp, fate, requested, flag, task, ana, queue, busy, sending,
                     prepared, guards, refs, disk>>
  BY DEF RecordGroup, Running
<1>2. /\ g \in Groups /\ Taken = {g} /\ g \in Underway
      /\ g \notin DOMAIN busy \cup Names(sending) \cup Names(prepared)
      /\ fate[g] \in Fate \ {"rejected", "lost"}
  BY <1>1, InHand
<1>3. JobFits' /\ CountersFit'
  BY <1>1, JobKept
<1>4. AnalysisFits' /\ Ahead(ana.at)' = Ahead(ana.at)
  BY <1>1 DEF PipelineIInv, AnalysisFits
<1>5. /\ Elements(queue)' = Elements(queue) /\ Names(sending)' = Names(sending)
      /\ Names(prepared)' = Names(prepared) /\ Taken' = {} /\ co'.pc = "recv" /\ co'.g = 0
  BY <1>1 DEF Elements, Names, Taken
<1>6. PlacesFit'
  BY <1>1 DEF PipelineIInv, PlacesFit
<1>7. Apart(Ahead(ana.at), Elements(queue), DOMAIN busy, Names(sending), Names(prepared), {g})
  BY <1>2 DEF PipelineIInv, GroupsApart
<1>8. GroupsApart'
  <2>1. Apart(Ahead(ana.at), Elements(queue), DOMAIN busy, Names(sending), Names(prepared), {})
    BY <1>7 DEF Apart
  <2>. QED BY <1>1, <1>4, <1>5, <2>1 DEF PipelineIInv, GroupsApart
<1>9. Past' \subseteq Past /\ Underway' = Underway \ {g}
  BY <1>1, <1>2, <1>4, <1>5, <1>7 DEF Past, Underway, Apart
<1>10. FatesFit'
  BY <1>1, <1>9 DEF PipelineIInv, FatesFit, Current
<1>11. NobodyIsForgotten'
  BY <1>1, <1>5 DEF PipelineIInv, NobodyIsForgotten
<1>12. GuardsFit' /\ ArtworkFits'
  BY <1>1, <1>5 DEF PipelineIInv, GuardsFit, ArtworkFits
<1>13. report' \in Report /\ Reported' = Reported + Size[g]
  <2>1. report \in Report
    BY DEF PipelineIInv, ReportFits
  <2>2. Committed(g) => fate[g] \in {"matched", "nothing", "review", "outage"}
    BY <1>2 DEF Committed, Fate
  <2>. QED BY <1>1, <1>2, <2>1, <2>2, CountedFailure, CountedGroup DEF Reported
<1>14. ReportFits'
  BY <1>1, <1>2, <1>3, <1>9, <1>13, ReportGrows
<1>. QED BY <1>1, <1>3, <1>4, <1>6, <1>8, <1>10, <1>11, <1>12, <1>14 DEF PipelineIInv

-----------------------------------------------------------------------------
LEMMA StutterKeeps ==
    ASSUME PipelineIInv, UNCHANGED pipelineVars
    PROVE  PipelineIInv'
<1>1. UNCHANGED <<cp, fate, ana, remoteVars, refs, disk, report>> /\ UNCHANGED <<job, task, flag>>
  BY DEF pipelineVars, remoteVars
<1>2. JobFits' /\ CountersFit'
  BY <1>1, JobKept
<1>3. EveryFileIsReported'
  BY <1>1 DEF PipelineIInv, ReportFits, EveryFileIsReported
<1>. QED BY <1>1, <1>2, <1>3, OutsideKeeps

\* What the database, the three futures and the cache keep of a scan, in every
\* attempt: each group is in one place, and what has left the last one is counted.
THEOREM ScansKeepTheirGroups == PipelineSpec => []PipelineIInv
<1>1. ASSUME PipelineIInv, PipelineNext PROVE PipelineIInv'
  <2>1. CASE TaskStep
    BY <1>1, <2>1, StartAttemptKeeps, CancelQueuedKeeps, RaiseFlagKeeps, JoinPipelineKeeps,
       FinishKeeps DEF TaskStep
  <2>2. CASE LocalStep
    BY <1>1, <2>2, InspectPendingKeeps, AnalyzeGroupKeeps, CommitLocalGroupKeeps,
       QueueGroupKeeps DEF LocalStep
  <2>3. CASE PreparationStep
    BY <1>1, <2>3, TakeGroupKeeps, DeliverPreparedKeeps, AcquireKeeps, FinishPreparationKeeps
       DEF PreparationStep
  <2>4. CASE CommitStep
    BY <1>1, <2>4, ReceivePreparedKeeps, CommitRemoteGroupKeeps, PublicationKeeps, CleanupKeeps,
       RecordGroupKeeps DEF CommitStep
  <2>5. CASE RequestCancel
    BY <1>1, <2>5, RequestCancelKeeps
  <2>6. CASE Crash
    BY <1>1, <2>6, AbortKeeps DEF Crash, Active
  <2>. QED BY <1>1, <2>1, <2>2, <2>3, <2>4, <2>5, <2>6 DEF PipelineNext
<1>2. PipelineIInv /\ [PipelineNext]_pipelineVars => PipelineIInv'
  BY <1>1, StutterKeeps
<1>. QED BY InitFits, <1>2, PTL DEF PipelineSpec

\* The counters of a running scan are what its checkpoints say, guards belong to
\* groups in preparation, artwork in use stays cached, and a scan that succeeds
\* has reported every file.
THEOREM PipelineKeepsItsBooks == PipelineSpec => []PipelineInv
<1>1. PipelineIInv => PipelineInv
  <2> SUFFICES ASSUME PipelineIInv PROVE PipelineInv
    OBVIOUS
  <2>1. /\ job.status \in {"pending", "running", "success", "cancelled", "failed"}
        /\ Len(queue) <= QueueCapacity /\ Len(prepared) <= QueueCapacity
        /\ Cardinality(DOMAIN busy) <= Concurrency
    BY DEF PipelineIInv, JobFits, Job, PlacesFit
  <2>2. guards \subseteq Held
    <3>1. co.pc \in {"commit", "release"} => co.g \in {co.g} \ {0}
      BY DEF PipelineIInv, PlacesFit
    <3>2. /\ {sending[k].g : k \in DOMAIN sending} = Names(sending)
          /\ {prepared[k].g : k \in DOMAIN prepared} = Names(prepared)
      BY DEF Names
    <3>. QED BY <3>1, <3>2 DEF PipelineIInv, GuardsFit, Held
  <2>3. ASSUME task \in {"pipeline", "finish"}
        PROVE  /\ job.total = TotalFiles
               /\ job.analyzed = Unchanged + Issues + Files({g \in Groups : cp[g] >= 1})
               /\ job.committed = Unchanged + Issues + Files({g \in Groups : cp[g] >= 2})
               /\ job.remote = Unchanged + Issues + Files({g \in Groups : cp[g] = 3})
               /\ job.percent < 100
    <3>1. {g \in Groups : cp[g] = 3} = Reached(3)
      BY DEF PipelineIInv, CountersFit, Reached
    <3>. QED BY <2>3, <3>1 DEF PipelineIInv, JobFits, CountersFit, Active, Reached
  <2>4. EveryFileIsReported /\ ReferencedArtworkStays
    BY DEF PipelineIInv, ReportFits, ArtworkFits, ReferencedArtworkStays
  <2>. QED BY <2>1, <2>2, <2>3, <2>4 DEF PipelineInv
<1>. QED BY <1>1, ScansKeepTheirGroups, PTL

=============================================================================
