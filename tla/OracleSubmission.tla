------------------------- MODULE OracleSubmission --------------------------
(***************************************************************************)
(* One oracle payload on its way to the chain: SubmitterService            *)
(* (submitPayload, monitorTransaction, retrySubmission) and OracleService  *)
(* (signPayload, cleanupExpiredPayloads) over one row of signed_payloads.  *)
(*                                                                         *)
(* Each call loads the row into an entity, keeps it across awaits and      *)
(* saves it whole: a save overwrites what others have written since the    *)
(* load.  call[c].doc and watch[m].doc are these entities.  An action is   *)
(* the code between two awaits that reach the database or the chain.       *)
(*                                                                         *)
(* The chain is outside the code: a broadcast transaction is mined some    *)
(* time and succeeds or reverts, whatever was mined before.  Faults names  *)
(* what the environment may do besides:                                    *)
(*   "lost"   the node takes a transaction and the submitter sees an error *)
(*   "rpc"    waiting for a receipt fails                                  *)
(*   "db"     a save fails                                                 *)
(*   "crash"  the process stops; calls and monitors are gone               *)
(***************************************************************************)
EXTENDS Naturals

CONSTANTS
    Callers,      \* API calls that can be in flight at once (the bound)
    Monitors,     \* monitorTransaction calls that can be in flight at once (the bound)
    Txs,          \* transactions that can be broadcast (the bound)
    NoTx,         \* transactionHash = null
    MaxRetries,   \* SUBMITTER_MAX_RETRIES
    Ops,          \* the entry points used: "sign", "submit", "retry", "cleanup"
    Faults        \* see above

ASSUME SubmissionAssumption ==
    /\ NoTx \notin Txs
    /\ MaxRetries \in Nat
    /\ Ops \subseteq {"sign", "submit", "retry", "cleanup"}
    /\ Faults \subseteq {"lost", "rpc", "db", "crash"}

VARIABLES
    row,        \* the database row
    expired,    \* the clock has passed row.expiresAt
    chain,      \* what became of each transaction
    call,       \* the API calls in flight
    watch,      \* the monitorTransaction calls in flight
    unwatched,  \* history: a monitor vanished, in a crash or because its last save failed
    disturbed   \* history: a fault, two calls at once, or a retry

vars == <<row, expired, chain, call, watch, unwatched, disturbed>>

Status == {"pending", "submitted", "confirmed", "failed"}

Row == [status : Status, hash : Txs \cup {NoTx}, signed : BOOLEAN, attempts : 0..(MaxRetries + 1)]

NewRow == [status |-> "pending", hash |-> NoTx, signed |-> FALSE, attempts |-> 0]

Idle == [pc |-> "idle", doc |-> NewRow, attempt |-> 0]

(* A call in flight is about to broadcast ("send"), to save a broadcast    *)
(* ("save"), a failure ("close"), a signature ("sign") or the reset of a   *)
(* retry ("reset"), or to enter submitPayload from a retry ("resubmit").   *)
CallState == [pc : {"idle", "send", "save", "close", "sign", "reset", "resubmit"},
              doc : Row, attempt : 0..(MaxRetries + 1)]

NoWatch == [pc |-> "idle", doc |-> NewRow, tx |-> NoTx]

(* A monitor waits for the receipt ("wait"), or is about to save the       *)
(* outcome ("update") or that it failed ("giveup").                        *)
WatchState == [pc : {"idle", "wait", "update", "giveup"}, doc : Row, tx : Txs \cup {NoTx}]

-----------------------------------------------------------------------------
Busy(c) == call[c].pc # "idle"

(* A call that starts while another runs is a disturbance. *)
Overlaps(c) == \E d \in Callers \ {c} : Busy(d)

StartWatch(tx) ==
    \E m \in Monitors :
        /\ watch[m] = NoWatch
        /\ watch' = [watch EXCEPT ![m] = [NoWatch EXCEPT !.pc = "wait", !.tx = tx]]

Goto(c, pc, doc, attempt) ==
    call' = [call EXCEPT ![c] = [pc |-> pc, doc |-> doc, attempt |-> attempt]]

Return(c) == call' = [call EXCEPT ![c] = Idle]

(* Mutant of Submit: the transaction hash of a submitted row is not        *)
(* consulted. *)
SubmitIgnoringHash(c) ==
    /\ IF row.status \notin {"pending", "submitted"} \/ ~row.signed
       THEN Return(c)
       ELSE IF expired THEN Goto(c, "close", [row EXCEPT !.status = "failed"], 0)
       ELSE Goto(c, "send", row, 1)
    /\ UNCHANGED <<row, expired, chain, watch, unwatched>>

(* submitPayload up to the first broadcast. A confirmed payload is         *)
(* returned, a submitted one is monitored (again), one that is not         *)
(* pending or not signed is refused, an expired one is failed. *)
Submit(c) ==
    /\ \/ /\ row.status = "submitted" /\ row.hash # NoTx
          /\ StartWatch(row.hash)
          /\ Return(c)
       \/ /\ \/ row.status \notin {"pending", "submitted"}
             \/ row.status = "submitted" /\ row.hash = NoTx
             \/ row.status = "pending" /\ ~row.signed
          /\ Return(c)
          /\ UNCHANGED watch
       \/ /\ row.status = "pending" /\ row.signed
          /\ IF expired THEN Goto(c, "close", [row EXCEPT !.status = "failed"], 0)
             ELSE Goto(c, "send", row, 1)
          /\ UNCHANGED watch
    /\ UNCHANGED <<row, expired, chain, unwatched>>

BeginSubmit(c) ==
    /\ "submit" \in Ops
    /\ ~Busy(c)
    /\ Submit(c)
    /\ disturbed' = (disturbed \/ Overlaps(c))

(* Mutant of AttemptFailed: the last attempt is not recognised. *)
AttemptFailedOneMore(c, doc, permanent) ==
    LET tried == [doc EXCEPT !.attempts = call[c].attempt]
    IN  IF permanent \/ call[c].attempt > MaxRetries + 1
        THEN Goto(c, "close", [tried EXCEPT !.status = "failed"], 0)
        ELSE Goto(c, "send", tried, call[c].attempt + 1)

(* The catch block of submitPayload: another attempt, unless this was the  *)
(* last one or the error is permanent. *)
AttemptFailed(c, doc, permanent) ==
    LET tried == [doc EXCEPT !.attempts = call[c].attempt]
    IN  IF permanent \/ call[c].attempt > MaxRetries
        THEN Goto(c, "close", [tried EXCEPT !.status = "failed"], 0)
        ELSE Goto(c, "send", tried, call[c].attempt + 1)

Broadcast(tx) ==
    /\ chain[tx] = "unsent"
    /\ chain' = [chain EXCEPT ![tx] = "pending"]

(* The node answers with the transaction's hash. *)
Send(c) ==
    /\ call[c].pc = "send"
    /\ \E tx \in Txs :
          /\ Broadcast(tx)
          /\ Goto(c, "save", [call[c].doc EXCEPT !.hash = tx, !.status = "submitted",
                                                 !.attempts = call[c].attempt],
                  call[c].attempt)
    /\ UNCHANGED <<row, expired, watch, unwatched, disturbed>>

(* The node, or the wallet, refuses it. *)
SendFails(c) ==
    /\ call[c].pc = "send"
    /\ \E permanent \in BOOLEAN : AttemptFailed(c, call[c].doc, permanent)
    /\ UNCHANGED <<row, expired, chain, watch, unwatched, disturbed>>

(* The node takes it and the answer is lost: a timeout is retryable. *)
SendLost(c) ==
    /\ "lost" \in Faults
    /\ call[c].pc = "send"
    /\ \E tx \in Txs : Broadcast(tx)
    /\ AttemptFailed(c, call[c].doc, FALSE)
    /\ disturbed' = TRUE
    /\ UNCHANGED <<row, expired, watch, unwatched>>

(* The save after a broadcast, and the monitor it starts. *)
SaveSent(c) ==
    /\ call[c].pc = "save"
    /\ row' = call[c].doc
    /\ StartWatch(call[c].doc.hash)
    /\ Return(c)
    /\ UNCHANGED <<expired, chain, unwatched, disturbed>>

(* It fails inside the try block: one more failed attempt, with a          *)
(* transaction already on its way. *)
SaveSentFails(c) ==
    /\ "db" \in Faults
    /\ call[c].pc = "save"
    /\ AttemptFailed(c, call[c].doc, FALSE)
    /\ disturbed' = TRUE
    /\ UNCHANGED <<row, expired, chain, watch, unwatched>>

(* The other saves that end a call: a failure or a signature. *)
SaveDoc(c) ==
    /\ call[c].pc \in {"close", "sign"}
    /\ row' = call[c].doc
    /\ Return(c)
    /\ UNCHANGED <<expired, chain, watch, unwatched, disturbed>>

SaveFails(c) ==
    /\ "db" \in Faults
    /\ call[c].pc \in {"close", "sign", "reset"}
    /\ Return(c)
    /\ disturbed' = TRUE
    /\ UNCHANGED <<row, expired, chain, watch, unwatched>>

-----------------------------------------------------------------------------
(* signPayload: it throws when the row is signed or expired. *)
BeginSign(c) ==
    /\ "sign" \in Ops
    /\ ~Busy(c)
    /\ ~row.signed /\ ~expired
    /\ Goto(c, "sign", [row EXCEPT !.signed = TRUE], 0)
    /\ disturbed' = (disturbed \/ Overlaps(c))
    /\ UNCHANGED <<row, expired, chain, watch, unwatched>>

(* retrySubmission: whatever the status, only the attempts of the last     *)
(* submission are looked at. *)
BeginRetry(c) ==
    /\ "retry" \in Ops
    /\ ~Busy(c)
    /\ row.attempts < MaxRetries
    /\ Goto(c, "reset", [row EXCEPT !.status = "pending"], 0)
    /\ disturbed' = TRUE
    /\ UNCHANGED <<row, expired, chain, watch, unwatched>>

SaveReset(c) ==
    /\ call[c].pc = "reset"
    /\ row' = call[c].doc
    /\ Goto(c, "resubmit", NewRow, 0)
    /\ UNCHANGED <<expired, chain, watch, unwatched, disturbed>>

Resubmit(c) ==
    /\ call[c].pc = "resubmit"
    /\ Submit(c)
    /\ UNCHANGED disturbed

(* cleanupExpiredPayloads, when it selects this row. *)
BeginCleanup(c) ==
    /\ "cleanup" \in Ops
    /\ ~Busy(c)
    /\ row.status = "pending" /\ expired
    /\ Goto(c, "close", [row EXCEPT !.status = "failed"], 0)
    /\ disturbed' = (disturbed \/ Overlaps(c))
    /\ UNCHANGED <<row, expired, chain, watch, unwatched>>

-----------------------------------------------------------------------------
(* monitorTransaction *)

Watching(m, pc, doc) == watch' = [watch EXCEPT ![m].pc = pc, ![m].doc = doc]

(* Mutant of Receipt: receipt.status is not looked at. *)
ReceiptUnread(m) ==
    /\ watch[m].pc = "wait"
    /\ chain[watch[m].tx] \in {"succeeded", "reverted"}
    /\ Watching(m, "update", [row EXCEPT !.status = "confirmed"])
    /\ UNCHANGED <<row, expired, chain, call, unwatched, disturbed>>

(* The receipt arrives and the row is loaded. *)
Receipt(m) ==
    /\ watch[m].pc = "wait"
    /\ chain[watch[m].tx] \in {"succeeded", "reverted"}
    /\ Watching(m, "update", [row EXCEPT !.status =
           IF chain[watch[m].tx] = "succeeded" THEN "confirmed" ELSE "failed"])
    /\ UNCHANGED <<row, expired, chain, call, unwatched, disturbed>>

(* The try block throws, the receipt being unavailable or its save failed: *)
(* the catch block loads the row again to mark it failed. *)
WatchFails(m) ==
    /\ \/ watch[m].pc = "wait" /\ "rpc" \in Faults
       \/ watch[m].pc = "update" /\ "db" \in Faults
    /\ Watching(m, "giveup", [row EXCEPT !.status = "failed"])
    /\ disturbed' = TRUE
    /\ UNCHANGED <<row, expired, chain, call, unwatched>>

(* Mutant of SaveWatch: the monitor ends without its save. *)
SaveWatchNothing(m) ==
    /\ watch[m].pc \in {"update", "giveup"}
    /\ watch' = [watch EXCEPT ![m] = NoWatch]
    /\ UNCHANGED <<row, expired, chain, call, unwatched, disturbed>>

SaveWatch(m) ==
    /\ watch[m].pc \in {"update", "giveup"}
    /\ row' = watch[m].doc
    /\ watch' = [watch EXCEPT ![m] = NoWatch]
    /\ UNCHANGED <<expired, chain, call, unwatched, disturbed>>

(* The save of the catch block fails too: the caller only logs it. *)
WatchVanishes(m) ==
    /\ "db" \in Faults
    /\ watch[m].pc = "giveup"
    /\ watch' = [watch EXCEPT ![m] = NoWatch]
    /\ unwatched' = TRUE
    /\ UNCHANGED <<row, expired, chain, call, disturbed>>

-----------------------------------------------------------------------------
(* The environment. *)

Mine(tx) ==
    /\ chain[tx] = "pending"
    /\ \E outcome \in {"succeeded", "reverted"} : chain' = [chain EXCEPT ![tx] = outcome]
    /\ UNCHANGED <<row, expired, call, watch, unwatched, disturbed>>

Expire ==
    /\ ~expired
    /\ expired' = TRUE
    /\ UNCHANGED <<row, chain, call, watch, unwatched, disturbed>>

(* Nothing is resumed at the next start. *)
Crash ==
    /\ "crash" \in Faults
    /\ call' = [c \in Callers |-> Idle]
    /\ watch' = [m \in Monitors |-> NoWatch]
    /\ unwatched' = TRUE
    /\ disturbed' = TRUE
    /\ UNCHANGED <<row, expired, chain>>

-----------------------------------------------------------------------------
Init ==
    /\ row = NewRow
    /\ expired = FALSE
    /\ chain = [tx \in Txs |-> "unsent"]
    /\ call = [c \in Callers |-> Idle]
    /\ watch = [m \in Monitors |-> NoWatch]
    /\ unwatched = FALSE
    /\ disturbed = FALSE

(* What a call does after it has been accepted. *)
CallStep(c) ==
    \/ Send(c) \/ SendFails(c) \/ SendLost(c)
    \/ SaveSent(c) \/ SaveSentFails(c) \/ SaveDoc(c) \/ SaveFails(c)
    \/ SaveReset(c) \/ Resubmit(c)

WatchStep(m) == Receipt(m) \/ WatchFails(m) \/ SaveWatch(m) \/ WatchVanishes(m)

User ==
    \/ \E c \in Callers : BeginSubmit(c) \/ BeginSign(c) \/ BeginRetry(c) \/ BeginCleanup(c)
    \/ Expire \/ Crash

Next ==
    \/ User
    \/ \E c \in Callers : CallStep(c)
    \/ \E m \in Monitors : WatchStep(m)
    \/ \E tx \in Txs : Mine(tx)

Spec == Init /\ [][Next]_vars

(* Awaits are answered and broadcast transactions are mined. *)
FairSpec ==
    /\ Spec
    /\ \A m \in Monitors : WF_vars(WatchStep(m))
    /\ \A tx \in Txs : WF_vars(Mine(tx))

-----------------------------------------------------------------------------
(* Every variable has its type; the attempts of a row never exceed         *)
(* MaxRetries + 1. *)
TypeOK ==
    /\ row \in Row
    /\ expired \in BOOLEAN
    /\ chain \in [Txs -> {"unsent", "pending", "succeeded", "reverted"}]
    /\ call \in [Callers -> CallState]
    /\ watch \in [Monitors -> WatchState]
    /\ unwatched \in BOOLEAN
    /\ disturbed \in BOOLEAN

(* A payload shown as confirmed is on the chain: none of the stale         *)
(* entities that are saved over the row can invent a confirmation, in no   *)
(* interleaving of calls, monitors, lost answers, failed saves, crashes.   *)
ConfirmedIsTrue ==
    row.status = "confirmed" => \E tx \in Txs : chain[tx] = "succeeded"

(* A payload shown as submitted has a monitor on the very transaction the  *)
(* row names, unless one vanished: no interleaving of saves brings back    *)
(* a submitted row that nobody watches. *)
SubmittedIsWatched ==
    row.status = "submitted" /\ ~unwatched =>
        \E m \in Monitors : watch[m].pc # "idle" /\ watch[m].tx = row.hash

AtRest == (\A c \in Callers : ~Busy(c)) /\ (\A m \in Monitors : watch[m].pc = "idle")

(* Without faults and retries, and with one call at a time, a payload is   *)
(* broadcast at most once, and at rest its status is what became of its    *)
(* transaction. *)
SerialUseIsExact ==
    ~disturbed =>
        /\ \A t, u \in Txs : chain[t] # "unsent" /\ chain[u] # "unsent" => t = u
        /\ AtRest => \A t \in Txs : chain[t] # "unsent" =>
              /\ row.hash = t
              /\ row.status = IF chain[t] = "succeeded" THEN "confirmed" ELSE "failed"

(* A submitted payload does not stay submitted. *)
SubmittedIsResolved == (row.status = "submitted") ~> (row.status # "submitted" \/ unwatched)

(* "Ensures idempotency by checking existing transaction hash": nothing is *)
(* broadcast while an earlier transaction of the payload is pending or has *)
(* succeeded. *)
SubmittedOnce ==
    [][\A t \in Txs : chain[t] = "unsent" /\ chain'[t] # "unsent" =>
          \A u \in Txs : chain[u] \notin {"pending", "succeeded"}]_vars

=============================================================================
