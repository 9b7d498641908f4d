------------------------- MODULE ProposalTimelock --------------------------
(***************************************************************************)
(* GovernanceService (src/src/governance/governance.service.ts): proposals *)
(* that wait for a timelock, the calls that execute and cancel them, and   *)
(* the cron job that marks them as ready.                                  *)
(*                                                                         *)
(* Every writer reads a row, decides, and saves the row it read: another   *)
(* writer may have saved it meanwhile.  The cron reads all pending rows at *)
(* once and saves them one await at a time.                                *)
(***************************************************************************)
EXTENDS Integers, FiniteSets

CONSTANTS
    Proposals,
    Keys,         \* target keys
    Calls,        \* requests in flight at once (the bound)
    MinDelay,     \* MIN_DELAY_MS
    MaxTime       \* bound of the clock

VARIABLES
    row,        \* the stored proposals
    now,        \* the clock
    call,       \* the requests in flight
    cron,       \* the pending rows the cron has read and not yet saved
    raced,      \* history: saved by one writer while another held the row
    settled,    \* history: the first terminal status a row was given
    crowded     \* history: keys queued by two requests at once

vars == <<row, now, call, cron, raced, settled, crowded>>

Terminal == {"EXECUTED", "CANCELLED"}

Status == {"PENDING", "READY"} \cup Terminal

Absent == [status |-> "absent"]

Row == [status : Status, key : Keys, after : 0..(2 * MaxTime + MinDelay)]

Idle == [pc |-> "idle"]

CallState ==
    {Idle} \cup [pc : {"insert"}, id : Proposals, key : Keys, after : 0..(2 * MaxTime + MinDelay)]
           \cup [pc : {"save"}, id : Proposals, row : Row]

TypeOK ==
    /\ row \in [Proposals -> {Absent} \cup Row]
    /\ now \in 0..MaxTime
    /\ call \in [Calls -> CallState]
    /\ DOMAIN cron \subseteq Proposals /\ \A p \in DOMAIN cron : cron[p] \in Row
    /\ raced \subseteq Proposals
    /\ settled \in [Proposals -> {"none"} \cup Terminal]
    /\ crowded \subseteq Keys

-----------------------------------------------------------------------------
Pending(k) == {p \in Proposals : row[p].status = "PENDING" /\ row[p].key = k}

Inserting(k) == {c \in Calls : call[c].pc = "insert" /\ call[c].key = k}

HeldByCall(p) == {c \in Calls : call[c].pc = "save" /\ call[c].id = p}

Return(c) == call' = [call EXCEPT ![c] = Idle]

(* A writer saves the row it holds over whatever is stored. *)
Save(p, r, others) ==
    /\ row' = [row EXCEPT ![p] = r]
    /\ raced' = IF others THEN raced \cup {p} ELSE raced
    /\ settled' = IF r.status \in Terminal /\ settled[p] = "none"
                  THEN [settled EXCEPT ![p] = r.status] ELSE settled

(* queueProposal: the delay is long enough and no pending proposal has the *)
(* key. *)
QueueProposal(c, p, k, delay) ==
    /\ delay >= MinDelay
    /\ call[c].pc = "idle" /\ row[p] = Absent
    /\ \A d \in Calls : call[d].pc = "insert" => call[d].id # p
    /\ Pending(k) = {}
    /\ call' = [call EXCEPT ![c] = [pc |-> "insert", id |-> p, key |-> k, after |-> now + delay]]
    /\ crowded' = IF Inserting(k) # {} THEN crowded \cup {k} ELSE crowded
    /\ UNCHANGED <<row, now, cron, raced, settled>>

Insert(c) ==
    /\ call[c].pc = "insert"
    /\ row' = [row EXCEPT ![call[c].id] =
                  [status |-> "PENDING", key |-> call[c].key, after |-> call[c].after]]
    /\ Return(c)
    /\ UNCHANGED <<now, cron, raced, settled, crowded>>

(* executeProposal: the row is read and checked; the save comes later. *)
ExecuteProposal(c, p) ==
    /\ call[c].pc = "idle"
    /\ row[p].status \in {"PENDING", "READY"}
    /\ now >= row[p].after
    /\ call' = [call EXCEPT ![c] = [pc |-> "save", id |-> p, row |-> [row[p] EXCEPT !.status = "EXECUTED"]]]
    /\ UNCHANGED <<row, now, cron, raced, settled, crowded>>

(* cancelProposal *)
CancelProposal(c, p) ==
    /\ call[c].pc = "idle"
    /\ row[p] # Absent /\ row[p].status \notin Terminal
    /\ call' = [call EXCEPT ![c] = [pc |-> "save", id |-> p, row |-> [row[p] EXCEPT !.status = "CANCELLED"]]]
    /\ UNCHANGED <<row, now, cron, raced, settled, crowded>>

SaveOfCall(c) ==
    /\ call[c].pc = "save"
    /\ LET p == call[c].id IN
         Save(p, call[c].row, HeldByCall(p) # {c} \/ p \in DOMAIN cron)
    /\ Return(c)
    /\ UNCHANGED <<now, cron, crowded>>

(* Mutant of CronReads: the cron takes whatever is not executed. *)
CronReadsUnexecuted ==
    /\ DOMAIN cron = {}
    /\ cron' = [p \in {p \in Proposals : row[p] # Absent /\ row[p].status # "EXECUTED"
                                          /\ now >= row[p].after} |-> row[p]]
    /\ UNCHANGED <<row, now, call, raced, settled, crowded>>

(* markReadyProposals: the pending rows whose time has come. *)
CronReads ==
    /\ DOMAIN cron = {}
    /\ cron' = [p \in {p \in Proposals : row[p].status = "PENDING" /\ now >= row[p].after} |-> row[p]]
    /\ UNCHANGED <<row, now, call, raced, settled, crowded>>

CronSaves(p) ==
    /\ p \in DOMAIN cron
    /\ Save(p, [cron[p] EXCEPT !.status = "READY"], HeldByCall(p) # {})
    /\ cron' = [q \in DOMAIN cron \ {p} |-> cron[q]]
    /\ UNCHANGED <<now, call, crowded>>

(* A save fails: the loop ends, the rows it held are not saved. *)
CronBreaks ==
    /\ DOMAIN cron # {}
    /\ cron' = [p \in {} |-> Absent]
    /\ UNCHANGED <<row, now, call, raced, settled, crowded>>

Tick ==
    /\ now < MaxTime
    /\ now' = now + 1
    /\ UNCHANGED <<row, call, cron, raced, settled, crowded>>

-----------------------------------------------------------------------------
Init ==
    /\ row = [p \in Proposals |-> Absent]
    /\ now = 0
    /\ call = [c \in Calls |-> Idle]
    /\ cron = [p \in {} |-> Absent]
    /\ raced = {} /\ crowded = {}
    /\ settled = [p \in Proposals |-> "none"]

Next ==
    \/ \E c \in Calls, p \in Proposals :
          \/ \E k \in Keys, delay \in 0..MaxTime : QueueProposal(c, p, k, delay)
          \/ ExecuteProposal(c, p) \/ CancelProposal(c, p)
    \/ \E c \in Calls : Insert(c) \/ SaveOfCall(c)
    \/ CronReads \/ \E p \in Proposals : CronSaves(p)
    \/ CronBreaks \/ Tick

Spec == Init /\ [][Next]_vars

-----------------------------------------------------------------------------
(* No proposal is ready or executed before its timelock has elapsed, and   *)
(* none waits less than the minimum delay, whoever saved the row last; a   *)
(* row nobody saved under another writer keeps the first terminal status   *)
(* it was given (a raced one may be cancelled and then become ready again  *)
(* and be executed); and a key has one pending proposal unless two         *)
(* requests queued it at once. *)
TimelockHolds ==
    /\ \A p \in Proposals : row[p].status \in {"READY", "EXECUTED"} =>
          now >= row[p].after /\ row[p].after >= MinDelay
    /\ \A p \in Proposals : p \notin raced /\ settled[p] # "none" => row[p].status = settled[p]
    /\ \A k \in Keys \ crowded : Cardinality(Pending(k)) <= 1

-----------------------------------------------------------------------------
(* Why it holds: what the rows in the hands of the writers may say.        *)

Held(p) == p \in DOMAIN cron \/ HeldByCall(p) # {}

(* Every row, stored or held, waits long enough, and whoever holds one to  *)
(* mark it as executed or ready has seen its time come. *)
RowsWait ==
    /\ \A p \in Proposals : row[p] # Absent => row[p].after >= MinDelay
    /\ \A p \in Proposals : row[p].status \in {"READY", "EXECUTED"} => now >= row[p].after
    /\ \A c \in Calls : call[c].pc = "insert" => call[c].after >= MinDelay
    /\ \A c \in Calls : call[c].pc = "save" =>
          /\ call[c].row.after >= MinDelay
          /\ call[c].row.status \in Terminal
          /\ call[c].row.status = "EXECUTED" => now >= call[c].row.after
    /\ \A p \in DOMAIN cron : now >= cron[p].after /\ cron[p].after >= MinDelay

(* A proposal is inserted once, and nobody holds or has settled one that   *)
(* is not stored yet. *)
InsertsAreNew ==
    /\ \A c \in Calls : call[c].pc = "insert" => row[call[c].id] = Absent
    /\ \A c, d \in Calls : call[c].pc = "insert" /\ call[d].pc = "insert" /\ call[c].id = call[d].id => c = d
    /\ \A p \in Proposals : row[p] = Absent => ~Held(p) /\ settled[p] = "none"

(* A settled proposal nobody raced for keeps its status: no one who read   *)
(* it before it was settled is left to save it. *)
SettledIsFinal ==
    \A p \in Proposals \ raced : settled[p] # "none" => row[p].status = settled[p] /\ ~Held(p)

(* Pending rows and requests about to insert one, of one key. *)
KeysAreFree ==
    \A k \in Keys \ crowded :
        /\ \A p, q \in Pending(k) : p = q
        /\ \A c, d \in Inserting(k) : c = d
        /\ Inserting(k) # {} => Pending(k) = {}

TimelockInv == RowsWait /\ InsertsAreNew /\ SettledIsFinal /\ KeysAreFree

=============================================================================
