--------------------------- MODULE LibraryStorage ---------------------------
(***************************************************************************)
(* How a scan judges the storage behind a library before it trusts what it *)
(* reads: the assessment of library_storage.rs and the path look-ups of    *)
(* mova-scan, as operators on a storage situation.                         *)
(*                                                                         *)
(* The library root lies on a mount, at the mount point itself or in a     *)
(* folder of it.  The files of Below lie on a second mount below the root. *)
(* What holds the root when its mount is gone, the "parent", is the local  *)
(* root file system "/".  A situation s is                                 *)
(*   s.content[f]  what file f is: nothing, media, or a carrier that does  *)
(*                 not parse ("bad", an STRM without a valid reference)    *)
(*   s.root        "up"; "gone" from the mount table; "stuck": mounted and *)
(*                 not answering; "missing": answering without the folder  *)
(*   s.below       the mount below the root: "up", "gone" or "stuck"       *)
(* A host h says whether the root's mount is a network one, whether the    *)
(* server runs in a container, and whether the root is the mount point.    *)
(* A record r is what the last whole scan wrote to library_storage_mounts: *)
(* the mount the root was on, and whether the mount below was read.  A     *)
(* mount that comes back is the file system it was: the comparison of      *)
(* sources (MountEntry::same_storage_as) finds them equal.                 *)
(***************************************************************************)
CONSTANTS Files, Below

ASSUME BelowAssumption == Below \subseteq Files

Hosts == [network : BOOLEAN, container : BOOLEAN, atMount : BOOLEAN]
Situations == [content : [Files -> {"none", "media", "bad"}],
               root : {"up", "gone", "stuck", "missing"},
               below : {"up", "gone", "stuck"}]
Records == [root : {"none", "mount", "parent"}, below : BOOLEAN]
Verdicts == {"healthy", "removed", "abnormal"}
Plans == [verdict : Verdicts, below : Verdicts \union {"no region"},
          missing : BOOLEAN, holder : {"mount", "parent"}, network : BOOLEAN]

-----------------------------------------------------------------------------
(* What the file system answers.                                           *)

\* probe_directory on the library root.  Where the root's mount is gone, its
\* mount point or the folder that a mount below it needs is still there.
RootAnswers(h, s) == \/ s.root = "up"
                     \/ s.root = "gone" /\ (h.atMount \/ s.below # "gone")

\* catalog_path_presence and known_file_presence: a path on a mount that is
\* gone leads into an empty folder, one on a mount that is stuck to an error.
Presence(s, f) ==
    LET mount == IF f \in Below /\ s.root \in {"up", "gone"} THEN s.below ELSE s.root
    IN  CASE mount = "stuck" -> "failed"
          [] mount \in {"missing", "gone"} -> "absent"
          [] mount = "up" -> IF s.content[f] = "none" THEN "absent" ELSE "present"

-----------------------------------------------------------------------------
(* assess_library_storage.                                                 *)

\* known_files_present: some known file is there.  Without any known file
\* there is nothing to confirm.
KnownFilesPresent(s, known) ==
    known = {} \/ \E f \in known : Presence(s, f) = "present"

\* RegionProbe::run for the region that build_regions lets hold the root: the
\* recorded mount or, without a record, the mount that holds it now.
RootVerdict(h, s, r, known) ==
    CASE r.root = "mount" /\ s.root = "gone"  ->
             IF h.container THEN "removed" ELSE "abnormal"
      [] s.root = "stuck" \/ (r.root = "none" /\ ~KnownFilesPresent(s, known)) -> "abnormal"
      [] OTHER -> "healthy"

\* The root folder is not on the storage that holds it.
RootMissing(h, s, r, known) ==
    /\ RootVerdict(h, s, r, known) = "healthy"
    /\ ~RootAnswers(h, s)

\* The region of the mount below the root, if it is recorded or mounted.
BelowVerdict(h, s, r) ==
    IF s.below = "gone"
    THEN IF ~r.below THEN "no region" ELSE IF h.container THEN "removed" ELSE "abnormal"
    ELSE IF s.below = "stuck" \/ s.root \in {"stuck", "missing"} THEN "abnormal" ELSE "healthy"

\* StoragePlan::root_is_network: the recorded type, else the current one.
RootIsNetwork(h, s, r) ==
    CASE r.root = "mount"  -> h.network
      [] r.root = "parent" -> FALSE
      [] OTHER             -> h.network /\ s.root # "gone"

\* holder: the mount that holds the root now.
StoragePlan(h, s, r, known) ==
    [verdict |-> RootVerdict(h, s, r, known),
     below   |-> BelowVerdict(h, s, r),
     missing |-> RootMissing(h, s, r, known),
     holder  |-> IF s.root = "gone" THEN "parent" ELSE "mount",
     network |-> RootIsNetwork(h, s, r)]

\* decide
Unavailable(p, r) == p.verdict = "abnormal" /\ (p.network \/ r.root = "none")
RemovedFromDeployment(h, p, r) ==
    /\ h.container
    /\ r.root = "mount" \/ r.below
    /\ r.root = "mount" => p.verdict = "removed"
    /\ r.below => p.below = "removed"
Available(h, p, r) == ~Unavailable(p, r) /\ ~RemovedFromDeployment(h, p, r)

-----------------------------------------------------------------------------
(* What a plan lets a scan do.                                             *)

skips_traversal(p) == p.missing \/ p.verdict = "abnormal"

\* Dead mounts below the root, skipped as nonexistent.
excluded_directories(p) == IF p.below \in {"removed", "abnormal"} THEN Below ELSE {}

\* A catalog path on storage that is treated as nonexistent.
is_dead_path(p, f) == IF f \in Below /\ p.below # "no region"
                      THEN p.below # "healthy" ELSE p.verdict # "healthy"

\* failure_decision(root_path) = Abort
AbortsOnRootFailure(p) == p.verdict = "healthy" /\ p.network

\* The root region of a record that names the parent is "/", mounted always.
same_root_storage_as(p, q, r) == /\ p.verdict = q.verdict
                                 /\ p.missing = q.missing
                                 /\ r.root = "parent" \/ p.holder = q.holder

\* storage_record: the storage that was read.  An abnormal root keeps its
\* record, so that its return is recognised.
storage_record(p, r) ==
    [root  |-> IF p.verdict = "abnormal" THEN r.root ELSE p.holder,
     below |-> p.below = "healthy"]
=============================================================================
