-------------------------- MODULE NonceManagement --------------------------
(***************************************************************************)
(* NonceManagementService                                                  *)
(* (src/src/oracle/services/nonce-management.service.ts) for one address:  *)
(* one row of submission_nonces, and the cache of one process.             *)
(*                                                                         *)
(* getAndIncrementNonce reads the row with a write lock and saves it in    *)
(* one transaction; every other write waits for the lock.  A missing row   *)
(* cannot be locked: its creators race for the unique address.  Reads are  *)
(* not blocked.  The cache is touched by the process, in a step of its own *)
(* after the database has answered.                                        *)
(***************************************************************************)
EXTENDS Integers, Sequences

CONSTANTS
    Callers,      \* calls that can be in flight at once (the bound)
    NoCaller,     \* the lock is free
    AdminNonces,  \* what an administrator may set the nonce to
    MaxNonce,     \* bound: no increment beyond it
    Ops           \* "increment", "current", "admin", "cleanup", "crash"

ASSUME NonceAssumption ==
    /\ NoCaller \notin Callers
    /\ AdminNonces \subseteq Nat
    /\ MaxNonce \in Nat
    /\ Ops \subseteq {"increment", "current", "admin", "cleanup", "crash"}

VARIABLES
    row,      \* the committed row
    lock,     \* the transaction that holds the row
    cache,    \* the entry of nonceCache
    call,     \* the calls in flight
    answer,   \* history: the last answer of getCurrentNonce, and the nonce it may not be below
    base,     \* history: what the last administrator's write left
    log       \* history: the nonces handed out since

vars == <<row, lock, cache, call, answer, base, log>>

(* lastUsedAt, as cleanupOldNonces sees it: null, after or before cutoff. *)
Usage == {"never", "recent", "old"}

Row == [here : BOOLEAN, nonce : Nat, used : Usage]

NoRow == [here |-> FALSE, nonce |-> 0, used |-> "never"]

Cache == [here : BOOLEAN, val : Nat, fresh : BOOLEAN, overtaken : BOOLEAN]

NoEntry == [here |-> FALSE, val |-> 0, fresh |-> FALSE, overtaken |-> FALSE]

(* Where a call is suspended: in the transaction of an increment, with the *)
(* row locked or absent ("incrementing"); after a commit, before the cache *)
(* is invalidated ("committed"); before an administrator's save            *)
(* ("setting"); before getCurrentNonce inserts the row ("inserting") or    *)
(* fills the cache ("filling").  overtaken is history: somebody has        *)
(* committed a nonce since this call read the row. *)
CallState == [pc : {"idle", "incrementing", "committed", "setting", "inserting", "filling"},
              seen : Row, val : Nat, asked : Nat, overtaken : BOOLEAN]

Idle == [pc |-> "idle", seen |-> NoRow, val |-> 0, asked |-> 0, overtaken |-> FALSE]

-----------------------------------------------------------------------------
Goto(c, pc, val) == call' = [call EXCEPT ![c].pc = pc, ![c].val = val]

(* A new nonce becomes visible, written by c: who has read the row before  *)
(* has been overtaken. *)
Committed(c) ==
    call' = [d \in Callers |-> IF d = c THEN [Idle EXCEPT !.pc = "committed"]
                               ELSE [call[d] EXCEPT !.overtaken = TRUE]]

Return(c) == call' = [call EXCEPT ![c] = Idle]

Unlock(c) == lock' = IF lock = c THEN NoCaller ELSE lock

(* Mutant of BeginIncrement: no row lock. *)
BeginIncrementUnlocked(c) ==
    /\ "increment" \in Ops
    /\ call[c].pc = "idle"
    /\ row.nonce < MaxNonce
    /\ call' = [call EXCEPT ![c] = [Idle EXCEPT !.pc = "incrementing", !.seen = row]]
    /\ UNCHANGED <<row, lock, cache, answer, base, log>>

(* getAndIncrementNonce: SELECT ... FOR UPDATE. *)
BeginIncrement(c) ==
    /\ "increment" \in Ops
    /\ call[c].pc = "idle"
    /\ row.nonce < MaxNonce
    /\ row.here => lock = NoCaller
    /\ lock' = IF row.here THEN c ELSE lock
    /\ call' = [call EXCEPT ![c] = [Idle EXCEPT !.pc = "incrementing", !.seen = row]]
    /\ UNCHANGED <<row, cache, answer, base, log>>

(* Mutant of CommitIncrement: the caller is given the nonce before the one *)
(* the row held. *)
CommitIncrementOffByOne(c) ==
    /\ call[c].pc = "incrementing"
    /\ call[c].seen.here \/ ~row.here
    /\ row' = [here |-> TRUE, nonce |-> call[c].seen.nonce + 1, used |-> "recent"]
    /\ log' = Append(log, call[c].seen.nonce - 1)
    /\ Unlock(c)
    /\ Committed(c)
    /\ UNCHANGED <<cache, answer, base>>

(* The save and the commit. A row that was absent is inserted. *)
CommitIncrement(c) ==
    /\ call[c].pc = "incrementing"
    /\ call[c].seen.here \/ ~row.here
    /\ row' = [here |-> TRUE, nonce |-> call[c].seen.nonce + 1, used |-> "recent"]
    /\ log' = Append(log, call[c].seen.nonce)
    /\ Unlock(c)
    /\ Committed(c)
    /\ UNCHANGED <<cache, answer, base>>

(* The insert meets a row of the same address, or the save fails: the      *)
(* transaction is rolled back and the call throws. *)
RollBackIncrement(c) ==
    /\ call[c].pc = "incrementing"
    /\ Unlock(c)
    /\ Return(c)
    /\ UNCHANGED <<row, cache, answer, base, log>>

(* Mutant of Invalidate: nonceCache.delete is forgotten. *)
KeepCache(c) ==
    /\ call[c].pc = "committed"
    /\ Return(c)
    /\ UNCHANGED <<row, lock, cache, answer, base, log>>

(* nonceCache.delete, which ends getAndIncrementNonce and setNonce. *)
Invalidate(c) ==
    /\ call[c].pc = "committed"
    /\ cache' = NoEntry
    /\ Return(c)
    /\ UNCHANGED <<row, lock, answer, base, log>>

-----------------------------------------------------------------------------
(* The nonce that the increments that have returned have reached. *)
Settled == IF \E c \in Callers : call[c].pc = "committed" THEN 0 ELSE row.nonce

Answered(val, asked) == answer' = [val |-> val, asked |-> asked]

(* getCurrentNonce, also for validateNonce: a fresh entry answers. *)
CacheHit(c) ==
    /\ "current" \in Ops
    /\ call[c].pc = "idle"
    /\ cache.here /\ cache.fresh
    /\ Answered(cache.val, Settled)
    /\ UNCHANGED <<row, lock, cache, call, base, log>>

(* No entry, or an expired one: the row is read. *)
CacheMiss(c) ==
    /\ "current" \in Ops
    /\ call[c].pc = "idle"
    /\ ~(cache.here /\ cache.fresh)
    /\ call' = [call EXCEPT ![c] = [Idle EXCEPT !.pc = IF row.here THEN "filling" ELSE "inserting",
                                                !.val = row.nonce, !.asked = Settled]]
    /\ UNCHANGED <<row, lock, cache, answer, base, log>>

(* The row that was missing is created, or somebody else has done so and   *)
(* the call throws. *)
InsertZero(c) ==
    /\ call[c].pc = "inserting"
    /\ IF row.here THEN Return(c) /\ UNCHANGED row
       ELSE /\ row' = [NoRow EXCEPT !.here = TRUE]
            /\ Goto(c, "filling", 0)
    /\ UNCHANGED <<lock, cache, answer, base, log>>

(* nonceCache.set, with what the row was when it was read. *)
FillCache(c) ==
    /\ call[c].pc = "filling"
    /\ cache' = [here |-> TRUE, val |-> call[c].val, fresh |-> TRUE,
                 overtaken |-> call[c].overtaken]
    /\ Answered(call[c].val, call[c].asked)
    /\ Return(c)
    /\ UNCHANGED <<row, lock, base, log>>

(* CACHE_TTL passes; clearStaleCache drops the entry. *)
CacheExpires ==
    /\ cache.fresh
    /\ cache' = [cache EXCEPT !.fresh = FALSE]
    /\ UNCHANGED <<row, lock, call, answer, base, log>>

ClearStaleCache ==
    /\ cache.here /\ ~cache.fresh
    /\ cache' = NoEntry
    /\ UNCHANGED <<row, lock, call, answer, base, log>>

-----------------------------------------------------------------------------
(* setNonce and resetNonce: read without a lock, then save. *)
BeginSet(c) ==
    /\ "admin" \in Ops
    /\ call[c].pc = "idle"
    /\ \E n \in AdminNonces :
          call' = [call EXCEPT ![c] = [Idle EXCEPT !.pc = "setting", !.seen = row, !.val = n]]
    /\ UNCHANGED <<row, lock, cache, answer, base, log>>

(* The update waits for the lock; a row that was absent is inserted. *)
CommitSet(c) ==
    /\ call[c].pc = "setting"
    /\ call[c].seen.here \/ ~row.here
    /\ lock = NoCaller
    /\ row' = [call[c].seen EXCEPT !.here = TRUE, !.nonce = call[c].val]
    /\ base' = call[c].val
    /\ log' = <<>>
    /\ Committed(c)
    /\ UNCHANGED <<lock, cache, answer>>

(* The insert meets a row of the same address. *)
SetThrows(c) ==
    /\ call[c].pc = "setting"
    /\ ~call[c].seen.here /\ row.here
    /\ Return(c)
    /\ UNCHANGED <<row, lock, cache, answer, base, log>>

(* Mutant of CleanupOldNonces: rows that have handed out nonces go too. *)
CleanupInactive ==
    /\ "cleanup" \in Ops
    /\ lock = NoCaller
    /\ row.here /\ row.used = "old"
    /\ row' = NoRow
    /\ UNCHANGED <<lock, cache, call, answer, base, log>>

(* cleanupOldNonces: a null lastUsedAt is not before the cutoff. *)
CleanupOldNonces ==
    /\ "cleanup" \in Ops
    /\ lock = NoCaller
    /\ row.here /\ row.nonce = 0 /\ row.used = "old"
    /\ row' = NoRow
    /\ UNCHANGED <<lock, cache, call, answer, base, log>>

(* daysInactive days pass. *)
Age ==
    /\ row.used = "recent"
    /\ row' = [row EXCEPT !.used = "old"]
    /\ UNCHANGED <<lock, cache, call, answer, base, log>>

(* The process stops: open transactions are rolled back. *)
Crash ==
    /\ "crash" \in Ops
    /\ lock' = NoCaller
    /\ cache' = NoEntry
    /\ call' = [c \in Callers |-> Idle]
    /\ UNCHANGED <<row, answer, base, log>>

-----------------------------------------------------------------------------
Init ==
    /\ row = NoRow
    /\ lock = NoCaller
    /\ cache = NoEntry
    /\ call = [c \in Callers |-> Idle]
    /\ answer = [val |-> 0, asked |-> 0]
    /\ base = 0
    /\ log = <<>>

CallStep(c) ==
    \/ BeginIncrement(c) \/ CommitIncrement(c) \/ RollBackIncrement(c) \/ Invalidate(c)
    \/ CacheHit(c) \/ CacheMiss(c) \/ InsertZero(c) \/ FillCache(c)
    \/ BeginSet(c) \/ CommitSet(c) \/ SetThrows(c)

Next ==
    \/ \E c \in Callers : CallStep(c)
    \/ CacheExpires \/ ClearStaleCache \/ CleanupOldNonces \/ Age \/ Crash

Spec == Init /\ [][Next]_vars

-----------------------------------------------------------------------------
(* Every variable has its type. *)
TypeOK ==
    /\ row \in Row
    /\ lock \in Callers \cup {NoCaller}
    /\ cache \in Cache
    /\ call \in [Callers -> CallState]
    /\ answer \in [val : Nat, asked : Nat]
    /\ base \in Nat
    /\ log \in Seq(Nat)

(* "This ensures no two submissions get the same nonce": between two       *)
(* writes of an administrator the nonces handed out are consecutive,       *)
(* whatever increments, first uses, maintenance, administrators and        *)
(* crashes overlap, and the row holds the next one.                        *)
NoncesNeverReused ==
    /\ row.nonce = base + Len(log)
    /\ \A i \in DOMAIN log : log[i] = base + i - 1

(* "Get and increment nonce atomically": locks, races for the first row,   *)
(* roll-backs, maintenance and crashes together look like a counter that   *)
(* is read and incremented in one step. *)
Counter == INSTANCE NonceCounter WITH next <- row.nonce, given <- log

ImplementsCounter == Counter!Spec

(* The cache is behind the row only while the writer is about to delete    *)
(* the entry, or when the entry was filled by a call that had been         *)
(* overtaken. *)
CacheIsCurrent ==
    cache.here /\ ~cache.overtaken /\ cache.val # row.nonce =>
        \E c \in Callers : call[c].pc = "committed"

(* "Validate that a nonce is the next expected nonce for an address": the  *)
(* nonce getCurrentNonce answers, and validateNonce compares with, was not *)
(* handed out by an increment that returned before the question. *)
AnswerIsNext == answer.val >= answer.asked

=============================================================================
