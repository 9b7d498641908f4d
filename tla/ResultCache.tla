---------------------------- MODULE ResultCache ----------------------------
(***************************************************************************)
(* The cache of job results: CacheJobPlugin, CacheService, the             *)
(* invalidation listener, the warmer and the Redis backend under           *)
(* src/src/cache/.                                                         *)
(*                                                                         *)
(* The cached jobs depend on one upstream job: the versions of its result  *)
(* are counted, and an entry remembers which one it was computed from.     *)
(* Every Redis command is a step of its own; an entry and its version      *)
(* record are two keys, written one after the other, and deleting the one  *)
(* does not delete the other.                                              *)
(***************************************************************************)
EXTENDS Naturals, FiniteSets

CONSTANTS
    Jobs,            \* cached jobs, one key each: the key holds the job id
    Cleaners,        \* invalidations in flight at once (the bound)
    MaxUpstream      \* bound: completions of the upstream job

VARIABLES
    upstream,     \* completions of the upstream job
    entry,        \* cache:<type>:<hash>:<id>
    versions,     \* jobs with a ...:version key
    job,          \* what each job is doing
    cleaner,      \* the invalidations in flight
    late,         \* history: stored after the upstream result it was computed from was replaced
    bare          \* history: its version record was not written, or was deleted under it

vars == <<upstream, entry, versions, job, cleaner, late, bare>>

None == [kind |-> "none"]

(* warm: the placeholder of the warmer. *)
Entry == [kind : {"result"}, basis : 0..MaxUpstream] \cup {[kind |-> "warm"]}

Idle == [pc |-> "idle"]

(* dependents and old: entry by entry; type: by one command. *)
Kinds == {"dependents", "old", "type"}

TypeOK ==
    /\ upstream \in 0..MaxUpstream
    /\ entry \in [Jobs -> {None} \cup Entry]
    /\ versions \subseteq Jobs
    /\ job \in [Jobs -> {Idle} \cup [pc : {"run"}, basis : 0..MaxUpstream]
                               \cup [pc : {"drop", "version"}]]
    /\ cleaner \in [Cleaners -> {Idle} \cup [pc : {"list"}, kind : Kinds]
                                       \cup [pc : {"delete"}, kind : Kinds, keys : SUBSET Jobs,
                                             records : SUBSET Jobs]]
    /\ late \subseteq Jobs /\ bare \subseteq Jobs

-----------------------------------------------------------------------------
Present == {j \in Jobs : entry[j] # None}

Busy(j, state) == job' = [job EXCEPT ![j] = state]

Free == {c \in Cleaners : cleaner[c] = Idle}

(* checkCache and CacheService.get.  A hit changes nothing.  A miss runs   *)
(* the job; so does a compressed entry, which cannot be unpacked (its      *)
(* base64 text is taken for the bytes); an expired one is deleted first,   *)
(* in a step of its own. *)
Check(j) ==
    /\ job[j] = Idle
    /\ \/ Busy(j, [pc |-> "run", basis |-> upstream])
       \/ entry[j] # None /\ Busy(j, [pc |-> "drop"])
    /\ UNCHANGED <<upstream, entry, versions, cleaner, late, bare>>

DropExpired(j) ==
    /\ job[j].pc = "drop"
    /\ entry' = [entry EXCEPT ![j] = None]
    /\ Busy(j, [pc |-> "run", basis |-> upstream])
    /\ UNCHANGED <<upstream, versions, cleaner, late, bare>>

(* storeResult and CacheService.set: setex, then the version record. *)
Store(j) ==
    /\ job[j].pc = "run"
    /\ entry' = [entry EXCEPT ![j] = [kind |-> "result", basis |-> job[j].basis]]
    /\ late' = IF job[j].basis = upstream THEN late \ {j} ELSE late \cup {j}
    /\ Busy(j, [pc |-> "version"])
    /\ UNCHANGED <<upstream, versions, cleaner, bare>>

(* The job fails, or the result is not cached. *)
NotStored(j) ==
    /\ job[j].pc = "run"
    /\ Busy(j, Idle)
    /\ UNCHANGED <<upstream, entry, versions, cleaner, late, bare>>

(* An error leaves the entry without its record; it is answered as not     *)
(* cached. *)
SetVersion(j) ==
    /\ job[j].pc = "version"
    /\ \/ versions' = versions \cup {j} /\ bare' = bare \ {j}
       \/ bare' = bare \cup {j} /\ UNCHANGED versions
    /\ Busy(j, Idle)
    /\ UNCHANGED <<upstream, entry, cleaner, late>>

(* warmCache: a placeholder, stored like a result. *)
Warm(j) ==
    /\ job[j] = Idle
    /\ entry' = [entry EXCEPT ![j] = [kind |-> "warm"]]
    /\ Busy(j, [pc |-> "version"])
    /\ UNCHANGED <<upstream, versions, cleaner, late, bare>>

(* The TTL of Redis; the version record has none. *)
Expire(j) ==
    /\ entry[j] # None
    /\ entry' = [entry EXCEPT ![j] = None]
    /\ UNCHANGED <<upstream, versions, job, cleaner, late, bare>>

-----------------------------------------------------------------------------
(* compute.job.completed or failed of the upstream: the listener calls     *)
(* invalidateDependents. *)
UpstreamCompletes(c) ==
    /\ c \in Free /\ upstream < MaxUpstream
    /\ upstream' = upstream + 1
    /\ cleaner' = [cleaner EXCEPT ![c] = [pc |-> "list", kind |-> "dependents"]]
    /\ UNCHANGED <<entry, versions, job, late, bare>>

(* validateAndInvalidateOldVersions (no entry has the version of an        *)
(* updated definition), invalidateByJobType and clear.  invalidateByTags   *)
(* goes the way of the dependents. *)
Invalidate(c, kind) ==
    /\ c \in Free
    /\ cleaner' = [cleaner EXCEPT ![c] = [pc |-> "list", kind |-> kind]]
    /\ UNCHANGED <<upstream, entry, versions, job, late, bare>>

(* Mutant of List: only entries with a version record are listed. *)
ListRecorded(c) ==
    /\ cleaner[c].pc = "list"
    /\ cleaner' = [cleaner EXCEPT ![c] =
          [pc |-> "delete", kind |-> cleaner[c].kind,
           keys |-> Present \cap versions,
           records |-> IF cleaner[c].kind = "type" THEN versions ELSE {}]]
    /\ UNCHANGED <<upstream, entry, versions, job, late, bare>>

(* keys, and for the dependents mget: what there is at this moment.        *)
(* Version records match the pattern too. *)
List(c) ==
    /\ cleaner[c].pc = "list"
    /\ cleaner' = [cleaner EXCEPT ![c] =
          [pc |-> "delete", kind |-> cleaner[c].kind,
           keys |-> IF cleaner[c].kind = "old" THEN Present \cap versions ELSE Present,
           records |-> IF cleaner[c].kind = "type" THEN versions ELSE {}]]
    /\ UNCHANGED <<upstream, entry, versions, job, late, bare>>

(* One entry after the other, whatever is stored under the key by now. *)
Delete(c) ==
    /\ cleaner[c].pc = "delete" /\ cleaner[c].kind # "type"
    /\ \E j \in cleaner[c].keys :
          /\ entry' = [entry EXCEPT ![j] = None]
          /\ cleaner' = [cleaner EXCEPT ![c].keys = @ \ {j}]
    /\ UNCHANGED <<upstream, versions, job, late, bare>>

(* All the keys that were listed, and no other. *)
DeleteAll(c) ==
    /\ cleaner[c].pc = "delete" /\ cleaner[c].kind = "type"
    /\ LET listed == cleaner[c] IN
         /\ entry' = [j \in Jobs |-> IF j \in listed.keys THEN None ELSE entry[j]]
         /\ versions' = versions \ listed.records
         /\ bare' = bare \cup (listed.records \ listed.keys)
         /\ cleaner' = [cleaner EXCEPT ![c] = Idle]
    /\ UNCHANGED <<upstream, job, late>>

Cleaned(c) ==
    /\ cleaner[c].pc = "delete" /\ cleaner[c].kind # "type" /\ cleaner[c].keys = {}
    /\ cleaner' = [cleaner EXCEPT ![c] = Idle]
    /\ UNCHANGED <<upstream, entry, versions, job, late, bare>>

(* An error of Redis ends the invalidation and is swallowed: what it had   *)
(* still to delete stays. *)
CleanerBreaks(c) ==
    /\ cleaner[c] # Idle
    /\ late' = late \cup IF cleaner[c].pc = "list" THEN Jobs ELSE cleaner[c].keys
    /\ cleaner' = [cleaner EXCEPT ![c] = Idle]
    /\ UNCHANGED <<upstream, entry, versions, job, bare>>

-----------------------------------------------------------------------------
Init ==
    /\ upstream = 0
    /\ entry = [j \in Jobs |-> None]
    /\ versions = {} /\ late = {} /\ bare = {}
    /\ job = [j \in Jobs |-> Idle]
    /\ cleaner = [c \in Cleaners |-> Idle]

Next ==
    \/ \E j \in Jobs :
          \/ Check(j) \/ DropExpired(j) \/ Store(j) \/ NotStored(j)
          \/ SetVersion(j) \/ Warm(j) \/ Expire(j)
    \/ \E c \in Cleaners :
          \/ UpstreamCompletes(c) \/ \E kind \in Kinds : Invalidate(c, kind)
          \/ List(c) \/ Delete(c) \/ DeleteAll(c) \/ Cleaned(c) \/ CleanerBreaks(c)

Spec == Init /\ [][Next]_vars

-----------------------------------------------------------------------------
WillDelete(c, j) ==
    /\ cleaner[c] # Idle
    /\ cleaner[c].pc = "list" \/ j \in cleaner[c].keys

(* An entry computed from an upstream result that has been replaced is     *)
(* about to be deleted, or its job was still running when it was replaced, *)
(* or the invalidation broke off: nothing stored in time survives.  And an *)
(* entry has a version record, without which an update of the definition   *)
(* leaves it in place, unless the record was refused or deleted by a clear *)
(* that had listed the record and not the entry. *)
EntriesAreFresh ==
    \A j \in Jobs :
        /\ entry[j].kind = "result" /\ entry[j].basis < upstream /\ j \notin late =>
              \E c \in Cleaners : WillDelete(c, j) /\ cleaner[c].kind = "dependents"
        /\ entry[j] # None /\ j \notin bare => j \in versions \/ job[j].pc = "version"

=============================================================================
