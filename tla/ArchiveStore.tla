---------------------------- MODULE ArchiveStore ----------------------------
(***************************************************************************)
(* FileStore (src/core/persistence.cpp) under crashes.  A process holds an *)
(* archive of authoritative state, saves it from time to time, may be      *)
(* killed at any moment and recovers from the file when it starts again.   *)
(* What the process commits and when it saves is the caller's: nothing in  *)
(* the engine calls the store.  The file outlives the process; a killed    *)
(* process leaves whatever part of its write the system had taken.         *)
(***************************************************************************)
EXTENDS ArchiveFormat

CONSTANTS
    None,
    Ids,            \* request ids
    MaxCommits,     \* bound: tokens of a request
    MaxFaults       \* bound: units of the file damaged

ASSUME StoreConstants ==
    /\ Ids \subseteq 0..(WordBase * WordBase - 2)
    /\ MaxCommits \in 0..(WordBase - 1) /\ MaxFaults \in Nat

VARIABLES
    pc,             \* "up", "saving" or "down"
    live,           \* the archive in memory
    disk,           \* the file, None if there is none
    writing,        \* the blob being written by save
    recovered,      \* the outcome of the last recovery, None before any
    offered,        \* history: the archives handed to save
    durable,        \* history: the archive of the last save that returned ok,
                    \*          None once the file is touched again
    faults          \* history: damaged units

vars == <<pc, live, disk, writing, recovered, offered, durable, faults>>

Empty == StateArchive(1, <<>>)

Init ==
    /\ pc = "up" /\ live = Empty /\ disk = None /\ writing = <<>>
    /\ recovered = None /\ offered = {} /\ durable = None /\ faults = 0

\* A request is registered: nothing committed yet.  Bound: fewer requests than
\* the u32 that counts them in an archive can hold.
Register ==
    /\ pc = "up" /\ Len(live.requests) < WordBase - 1
    /\ \E id \in Ids \ {live.requests[i].id : i \in 1..Len(live.requests)} :
         live' = StateArchive(live.epoch,
                   Append(live.requests, PersistedRequest(id, id + 1, 1, 1, 0, id, 0, <<>>)))
    /\ UNCHANGED <<pc, disk, writing, recovered, offered, durable, faults>>

\* A request commits one token.
Commit ==
    /\ pc = "up"
    /\ \E i \in 1..Len(live.requests) :
         LET r == live.requests[i]
             n == Len(r.committed)
         IN /\ n < MaxCommits
            /\ live' = StateArchive(live.epoch, [live.requests EXCEPT ![i] =
                 PersistedRequest(r.id, r.sequence, r.attempt, r.epoch, n + 1, r.state_id,
                                  n + 1, r.committed \o U32(n))])
    /\ UNCHANGED <<pc, disk, writing, recovered, offered, durable, faults>>

\* save: the file is opened and truncated.  (A failed open changes nothing.)
SaveOpen ==
    /\ pc = "up"
    /\ pc' = "saving" /\ disk' = <<>> /\ writing' = SerializeArchive(live)
    /\ offered' = offered \cup {live} /\ durable' = None
    /\ UNCHANGED <<live, recovered, faults>>

\* The system takes some more of the blob, perhaps ending inside a unit.
SaveWrite ==
    /\ pc = "saving"
    /\ \E n \in (Readable(disk) + 1)..Len(writing) :
         disk' \in {SubSeq(writing, 1, n), Append(SubSeq(writing, 1, n - 1), Torn)}
    /\ UNCHANGED <<pc, live, writing, recovered, offered, durable, faults>>

\* write and flush succeeded.
Written(d, blob) == d = blob

SaveReturns ==
    /\ pc = "saving" /\ Written(disk, writing)
    /\ pc' = "up" /\ durable' = live
    /\ UNCHANGED <<live, disk, writing, recovered, offered, faults>>

\* "short write": save returns an error and leaves the file as it is.
SaveFails ==
    /\ pc = "saving" /\ disk # writing
    /\ pc' = "up"
    /\ UNCHANGED <<live, disk, writing, recovered, offered, durable, faults>>

Crash ==
    /\ pc \in {"up", "saving"}
    /\ pc' = "down" /\ live' = Empty
    /\ UNCHANGED <<disk, writing, recovered, offered, durable, faults>>

\* load and deserialize_archive.  A process that gets an error starts empty.
Recover ==
    /\ pc = "down"
    /\ pc' = "up"
    /\ recovered' = IF disk = None THEN Rejected("not_found") ELSE DeserializeArchive(disk)
    /\ live' = IF recovered'.ok THEN recovered'.archive ELSE Empty
    /\ UNCHANGED <<disk, writing, offered, durable, faults>>

\* The medium damages one unit of a file at rest.
Damage ==
    /\ pc = "down" /\ disk # None /\ disk # <<>> /\ faults < MaxFaults
    /\ \E i \in 1..Len(disk), n \in 0..(WordBase - 1) :
         disk[i] # <<"w", n>> /\ disk' = [disk EXCEPT ![i] = <<"w", n>>]
    /\ faults' = faults + 1 /\ durable' = None
    /\ UNCHANGED <<pc, live, writing, recovered, offered>>

Next ==
    \/ Register \/ Commit \/ SaveOpen \/ SaveWrite \/ SaveReturns \/ SaveFails
    \/ Crash \/ Recover \/ Damage

Spec == Init /\ [][Next]_vars
-----------------------------------------------------------------------------
\* Whatever deserialize_archive accepts after any crash, short write or damaged
\* unit is exactly an archive that was once handed to save: never a part of
\* one, nor a mixture of two.
RecoveredWasSaved == recovered # None /\ recovered.ok => recovered.archive \in offered

WithinLimits(a) ==
    /\ Len(a.requests) <= MaxRequests
    /\ \A i \in 1..Len(a.requests) : Len(a.requests[i].committed) <= MaxTokens

\* Once save has returned ok, and until the file is touched again, recovery
\* yields the saved archive, every 64-bit identity and token of it, provided
\* its counts are within the decoder's limits.
SavedIsRecoverable ==
    durable # None /\ WithinLimits(durable) =>
        DeserializeArchive(disk) = [ok |-> TRUE, archive |-> durable]
=============================================================================
