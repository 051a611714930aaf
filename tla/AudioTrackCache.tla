-------------------------- MODULE AudioTrackCache --------------------------
(***************************************************************************)
(* The cache of remuxed audio-track variants: requests that miss it run    *)
(* FFmpeg into a temporary file and publish it with a rename, at most      *)
(* Slots at a time, each within a reservation that evicts older artifacts. *)
(* Every await is a point where other requests go on, and where the client *)
(* may leave: the future is dropped and its guards are released one after  *)
(* the other, while a rename already handed to the file system still       *)
(* happens.  A HEAD request only inspects the cache and opens what it      *)
(* finds, which is the first and the last step of a GET request.           *)
(***************************************************************************)
EXTENDS Integers, Sequences, SequencesExt

CONSTANTS Clients, Variants, NoClient, NoVariant,
          SourceSize,    \* variant -> size of the media file it is made from
          Overhead, ArtifactMax, Quota, Headroom, Slots,
          Volume,        \* the size of the cache volume
          Others,        \* what other data may occupy of it
          Leftovers      \* what an earlier process may have left in the cache

ASSUME AudioCacheAssumption ==
    /\ NoClient \notin Clients /\ NoVariant \notin Variants
    /\ SourceSize \in [Variants -> Nat]
    /\ {Overhead, ArtifactMax, Quota, Headroom, Slots, Volume} \subseteq Nat
    /\ Slots * ArtifactMax <= Quota
    /\ Others \subseteq Nat

VARIABLES disk,      \* the files, oldest modification first: [path, size]
          other,     \* bytes of the volume used by other data
          client,    \* request -> [pc, v]
          slots,     \* requests that hold a remux slot
          keyLocks,  \* variant -> the request that holds lock_cache_path
          sweep,     \* the holder of the maintenance lock and its progress
          reserved,  \* AudioTrackCacheState::reserved_bytes
          active,    \* AudioTrackCacheState::active_temporary_paths
          renames,   \* requests whose rename the file system has not done yet
          escaped    \* history: published while an eviction took it for removed

audioVars == <<disk, other, client, slots, keyLocks, sweep, reserved, active, renames, escaped>>

\* The temporary name is unique in the code: a request here has one at a time.
Final(v) == [kind |-> "final", of |-> NoClient, v |-> v]
Temp(c) == [kind |-> "temp", of |-> c, v |-> client[c].v]
Bytes(files) == FoldSeq(LAMBDA f, sum : f.size + sum, 0, files)
Paths == {disk[i].path : i \in DOMAIN disk}
SizeOf(p) == (CHOOSE f \in ToSet(disk) : f.path = p).size
Without(p) == SelectSeq(disk, LAMBDA f : f.path # p)

IdleClient == [pc |-> "idle", v |-> NoVariant]
NoSweep == [by |-> NoClient, plan |-> <<>>, kept |-> 0, bound |-> 0, seen |-> 0,
            protected |-> {}, again |-> FALSE]

Goto(c, pc) == client' = [client EXCEPT ![c].pc = pc]

\* The function returns: its guards are dropped.
Leave(c) == Goto(c, "drop_bytes")

cache_artifact_is_usable(v) ==
    \E f \in ToSet(disk) : f.path = Final(v) /\ f.size \in 1 .. ArtifactMax

audio_track_remux_output_limit(v) == SourceSize[v] + Overhead

generated_artifact_size_is_complete(generated, limit) == generated > 0 /\ generated < limit

\* prune_audio_track_cache_to_limit where nothing else runs: the oldest files go
\* until the rest fits.
Pruned(files, limit) ==
    LET fits == {n \in 1 .. Len(files) + 1 : Bytes(SubSeq(files, n, Len(files))) <= limit}
        first == CHOOSE n \in fits : \A m \in fits : n <= m
    IN SubSeq(files, first, Len(files))

-----------------------------------------------------------------------------
\* materialize_audio_track_variant: up to the reservation

\* A request that finds the variant streams it and changes nothing; beyond the
\* capacity it is refused at once.
try_admit(c, v) ==
    /\ client[c].pc = "idle" /\ c \notin renames /\ (\A p \in Paths : p.of # c)
    /\ ~ cache_artifact_is_usable(v)
    /\ Cardinality(slots) < Slots
    /\ slots' = slots \cup {c}
    /\ client' = [client EXCEPT ![c] = [pc |-> "lock", v |-> v]]
    /\ UNCHANGED <<disk, other, keyLocks, sweep, reserved, active, renames, escaped>>

IsFree(c) == keyLocks[client[c].v] = NoClient

\* lock_cache_path, for which a request waits up to a timeout, and the second look:
\* whoever held the lock may have published; a file that cannot be used is removed.
lock_cache_path(c) ==
    LET v == client[c].v
        usable == cache_artifact_is_usable(v)
    IN  /\ client[c].pc = "lock"
        /\ \/ ~ IsFree(c) /\ Leave(c) /\ UNCHANGED <<disk, keyLocks>>
           \/ /\ IsFree(c)
              /\ keyLocks' = [keyLocks EXCEPT ![v] = c]
              /\ disk' = IF usable THEN disk ELSE Without(Final(v))
              /\ IF usable \/ audio_track_remux_output_limit(v) > ArtifactMax
                 THEN Leave(c) ELSE Goto(c, "reserve")
        /\ UNCHANGED <<other, slots, sweep, reserved, active, renames, escaped>>

-----------------------------------------------------------------------------
\* reserve: under the maintenance lock, with the state read once at its start

OutputLimit(c) == audio_track_remux_output_limit(client[c].v)

\* A request for which the others leave no room is turned away, which ends it: the
\* property says that no admitted request gets there.
BeginReserve(c) ==
    LET bound == Quota - reserved - OutputLimit(c) IN
    /\ client[c].pc = "reserve"
    /\ sweep = NoSweep
    /\ IF bound < 0
       THEN Goto(c, "exhausted") /\ UNCHANGED sweep
       ELSE /\ Goto(c, "list")
            /\ sweep' = [NoSweep EXCEPT !.by = c, !.bound = bound, !.seen = reserved, !.protected = active]
    /\ UNCHANGED <<disk, other, slots, keyLocks, reserved, active, renames, escaped>>

collect_audio_track_cache_entries(protected) ==
    SelectSeq(disk, LAMBDA f : f.path \notin protected)

List(c) ==
    LET plan == collect_audio_track_cache_entries(sweep.protected) IN
    /\ client[c].pc = "list"
    /\ sweep' = [sweep EXCEPT !.plan = plan, !.kept = Bytes(plan)]
    /\ Goto(c, "evict")
    /\ escaped' = escaped \ {f.path : f \in ToSet(plan)}
    /\ UNCHANGED <<disk, other, slots, keyLocks, reserved, active, renames>>

\* One file of the plan: a file that is gone counts as freed, although it may have
\* been renamed in the meantime.
Evict(c) ==
    LET f == Head(sweep.plan) IN
    /\ client[c].pc = "evict" /\ sweep.kept > sweep.bound
    /\ disk' = Without(f.path)
    /\ sweep' = [sweep EXCEPT !.plan = Tail(@), !.kept = @ - f.size]
    /\ escaped' = IF f.path \notin Paths /\ f.path.kind = "temp"
                  THEN escaped \cup {Final(f.path.v)} ELSE escaped
    /\ UNCHANGED <<other, client, slots, keyLocks, reserved, active, renames>>

required_available_space(seen, requested) == Headroom + seen + requested

\* ensure_cache_volume_capacity: a second eviction when the volume is short, and the
\* reservation when it is not.
ProbeVolume(c) ==
    LET available == Volume - other - Bytes(disk)
        required == required_available_space(sweep.seen, OutputLimit(c))
    IN  /\ client[c].pc = "evict" /\ sweep.kept <= sweep.bound
        /\ \/ /\ available >= required
              /\ reserved' = reserved + OutputLimit(c) /\ active' = active \cup {Temp(c)}
              /\ sweep' = NoSweep /\ Goto(c, "remux")
           \/ /\ available < required /\ ~ sweep.again
              /\ sweep' = [sweep EXCEPT !.again = TRUE,
                    !.bound = IF sweep.kept > required - available
                              THEN sweep.kept - (required - available) ELSE 0]
              /\ Goto(c, "list") /\ UNCHANGED <<reserved, active>>
           \/ /\ available < required /\ sweep.again
              /\ sweep' = NoSweep /\ Leave(c) /\ UNCHANGED <<reserved, active>>
        /\ UNCHANGED <<disk, other, slots, keyLocks, renames, escaped>>

-----------------------------------------------------------------------------
\* The remux and the publication

\* External: FFmpeg copies the streams into its output, until the -fs limit.  While it
\* runs nobody looks at the growing file, so that one step stands for all its writes.
FfmpegWrites(c) ==
    /\ client[c].pc = "remux"
    /\ Temp(c) \notin Paths
    /\ \E size \in SourceSize[client[c].v] .. OutputLimit(c) :
          disk' = Append(disk, [path |-> Temp(c), size |-> size])
    /\ UNCHANGED <<other, client, slots, keyLocks, sweep, reserved, active, renames, escaped>>

\* FFmpeg ends; its output is published, or removed when it failed, timed out, wrote
\* nothing or reached the limit.
EndRemux(c) ==
    /\ client[c].pc = "remux"
    /\ \/ /\ Temp(c) \in Paths
          /\ generated_artifact_size_is_complete(SizeOf(Temp(c)), OutputLimit(c))
          /\ renames' = renames \cup {c} /\ Goto(c, "rename") /\ UNCHANGED disk
       \/ /\ disk' = Without(Temp(c)) /\ Leave(c) /\ UNCHANGED renames
    /\ UNCHANGED <<other, slots, keyLocks, sweep, reserved, active, escaped>>

\* The rename takes place, whether or not its request still waits for it.
commit_cache_file(c) ==
    LET v == client[c].v IN
    /\ c \in renames
    /\ renames' = renames \ {c}
    /\ disk' = IF Temp(c) \notin Paths THEN disk
               ELSE [i \in DOMAIN Without(Final(v)) |->
                        LET f == Without(Final(v))[i] IN
                        IF f.path = Temp(c) THEN [f EXCEPT !.path = Final(v)] ELSE f]
    /\ IF client[c].pc = "rename" THEN Leave(c) ELSE UNCHANGED client
    /\ UNCHANGED <<other, slots, keyLocks, sweep, reserved, active, escaped>>

-----------------------------------------------------------------------------
\* Leaving: the guards are dropped in the reverse order of their declaration

\* Drop for AudioTrackCacheReservation.
DropReservation(c) ==
    /\ client[c].pc = "drop_bytes"
    /\ reserved' = IF Temp(c) \in active THEN reserved - OutputLimit(c) ELSE reserved
    /\ active' = active \ {Temp(c)}
    /\ Goto(c, "drop_slot")
    /\ UNCHANGED <<disk, other, slots, keyLocks, sweep, renames, escaped>>

\* Its field, the slot, after it.
DropAdmission(c) ==
    /\ client[c].pc = "drop_slot"
    /\ slots' = slots \ {c}
    /\ Goto(c, "drop_files")
    /\ UNCHANGED <<disk, other, keyLocks, sweep, reserved, active, renames, escaped>>

\* Drop for CacheTempFileGuard, and the lock of the variant.
DropTempAndKey(c) ==
    /\ client[c].pc = "drop_files"
    /\ disk' = Without(Temp(c))
    /\ keyLocks' = [v \in Variants |-> IF keyLocks[v] = c THEN NoClient ELSE keyLocks[v]]
    /\ Goto(c, "idle")
    /\ UNCHANGED <<other, slots, sweep, reserved, active, renames, escaped>>

\* Mutant of DropGuards: the slot is free before the bytes are.
SlotBeforeBytes(c) ==
    \/ /\ client[c].pc = "drop_bytes"
       /\ slots' = slots \ {c}
       /\ Goto(c, "drop_slot")
       /\ UNCHANGED <<disk, other, keyLocks, sweep, reserved, active, renames, escaped>>
    \/ /\ client[c].pc = "drop_slot"
       /\ reserved' = IF Temp(c) \in active THEN reserved - OutputLimit(c) ELSE reserved
       /\ active' = active \ {Temp(c)}
       /\ Goto(c, "drop_files")
       /\ UNCHANGED <<disk, other, slots, keyLocks, sweep, renames, escaped>>
    \/ DropTempAndKey(c)

DropGuards(c) == DropReservation(c) \/ DropAdmission(c) \/ DropTempAndKey(c)

\* The client goes away, or a look at the file system fails.
Abandon(c) ==
    /\ client[c].pc \in {"lock", "reserve", "list", "evict", "remux", "rename"}
    /\ sweep' = IF sweep.by = c THEN NoSweep ELSE sweep
    /\ Leave(c)
    /\ UNCHANGED <<disk, other, slots, keyLocks, reserved, active, renames, escaped>>

\* The process ends and a new one starts: initialize_audio_track_cache enforces the
\* quota on what is left before a request is served.
Restart ==
    /\ disk' = Pruned(disk, Quota)
    /\ client' = [c \in Clients |-> IdleClient]
    /\ slots' = {} /\ keyLocks' = [v \in Variants |-> NoClient] /\ sweep' = NoSweep
    /\ reserved' = 0 /\ active' = {} /\ renames' = {} /\ escaped' = {}
    /\ UNCHANGED other

AudioInit ==
    /\ disk \in {Pruned(files, Quota) : files \in Leftovers}
    /\ other \in Others
    /\ client = [c \in Clients |-> IdleClient]
    /\ slots = {} /\ keyLocks = [v \in Variants |-> NoClient] /\ sweep = NoSweep
    /\ reserved = 0 /\ active = {} /\ renames = {} /\ escaped = {}

AudioNext ==
    \/ \E c \in Clients :
         \/ \E v \in Variants : try_admit(c, v)
         \/ lock_cache_path(c) \/ BeginReserve(c) \/ List(c)
         \/ Evict(c) \/ ProbeVolume(c) \/ EndRemux(c) \/ commit_cache_file(c)
         \/ FfmpegWrites(c)
         \/ DropGuards(c) \/ Abandon(c)
    \/ Restart

-----------------------------------------------------------------------------
\* Properties

Preparing == {"reserve", "list", "evict", "remux", "rename"}

\* The cache keeps to its quota, and the volume to its headroom while anything is being
\* written, whatever requests, evictions, renames and departures of clients overlap
\* (a file that was renamed under an eviction, by a request whose client had left, is
\* the exception).  No variant is prepared twice at a time, and a request that was
\* admitted is not turned away because the others hold the capacity.
AudioCacheInv ==
    LET counted == Bytes(SelectSeq(disk, LAMBDA f : f.path \notin escaped)) IN
    /\ counted <= Quota
    /\ active # {} => Volume - other - counted >= Headroom
    /\ \A c, d \in Clients : /\ c # d /\ client[c].v = client[d].v
                             => ~ (client[c].pc \in Preparing /\ client[d].pc \in Preparing)
    /\ \A c \in Clients : client[c].pc # "exhausted"
=============================================================================
