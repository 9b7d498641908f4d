-------------------------- MODULE SubmissionBatch --------------------------
(***************************************************************************)
(* SubmissionBatchService                                                  *)
(* (src/src/oracle/services/submission-batch.service.ts): batches and      *)
(* retries over the rows of signed_payloads, and the in-memory marks       *)
(* (inFlightSubmissions) that are to keep two batches off one payload.     *)
(*                                                                         *)
(* An action runs from one await to the next.  A batch works on the        *)
(* entities it read at its start and saves them whole.  The submission     *)
(* itself is a placeholder in the code: it fails or it answers a hash.     *)
(***************************************************************************)
EXTENDS Integers, FiniteSets

CONSTANTS
    Payloads,
    Batches,       \* calls of processBatch in flight (the bound)
    Retriers,      \* calls of processWithRetry in flight
    MaxRetries     \* SUBMISSION_MAX_RETRIES

VARIABLES
    ordered,     \* SUBMISSION_PRESERVE_ORDER
    row,         \* the stored payloads
    expired,     \* expiresAt has passed
    marks,       \* inFlightSubmissions
    batch,       \* the calls of processBatch
    retrier,     \* the calls of processWithRetry
    handedOut,   \* history: marked by getPayloadsForBatching and never released
    retried      \* history: released by a retry while a batch had it

vars == <<ordered, row, expired, marks, batch, retrier, handedOut, retried>>

(* FAILED with an error message that reads as retryable, or permanent. *)
Failures == {"retryable", "permanent"}

Row == [status : {"PENDING", "SUBMITTED"} \cup Failures, signed : BOOLEAN]

Idle == [pc |-> "idle"]

NoEntities == [p \in {} |-> Idle]

(* left: entities still to be validated; valid: those the batch marked. *)
Entities == UNION {[ps -> Row] : ps \in SUBSET Payloads}

TypeOK ==
    /\ ordered \in BOOLEAN
    /\ row \in [Payloads -> Row]
    /\ expired \subseteq Payloads
    /\ marks \subseteq Payloads
    /\ batch \in [Batches -> {Idle} \cup [pc : {"validate", "submit"}, left : Entities,
                                          valid : Entities, open : SUBSET Payloads]]
    /\ retrier \in [Retriers -> {Idle} \cup [pc : {"load", "submit"}, id : Payloads,
                                             attempt : 1..MaxRetries, entity : Row]]
    /\ handedOut \subseteq Payloads
    /\ retried \subseteq Payloads

-----------------------------------------------------------------------------
Owned(b) == IF batch[b].pc = "idle" THEN {} ELSE DOMAIN batch[b].valid

Without(f, p) == [q \in DOMAIN f \ {p} |-> f[q]]

With(f, p, r) == [q \in DOMAIN f \cup {p} |-> IF q = p THEN r ELSE f[q]]

Submitted(r) == [r EXCEPT !.status = "SUBMITTED"]

(* markAsFailed reads the row again and saves it; its errors are swallowed. *)
MarkAsFailed(p, why) == row' \in {[row EXCEPT ![p].status = why], row}

(* getPayloadsForBatching: pending payloads without a signature are handed *)
(* out, expired ones are failed instead; they are marked if order is       *)
(* preserved. *)
GetPayloadsForBatching(p) ==
    /\ row[p].status = "PENDING" /\ ~row[p].signed
    /\ IF p \in expired
       THEN MarkAsFailed(p, "permanent") /\ UNCHANGED <<marks, handedOut>>
       ELSE /\ p \notin marks
            /\ ordered
            /\ marks' = marks \cup {p}
            /\ handedOut' = handedOut \cup {p}
            /\ UNCHANGED row
    /\ UNCHANGED <<ordered, expired, batch, retrier, retried>>

(* processBatch: find. *)
ProcessBatch(b, ids) ==
    /\ batch[b].pc = "idle"
    /\ ids # {}
    /\ batch' = [batch EXCEPT ![b] = [pc |-> "validate", left |-> [p \in ids |-> row[p]],
                                      valid |-> NoEntities, open |-> {}]]
    /\ UNCHANGED <<ordered, row, expired, marks, retrier, handedOut, retried>>

(* One payload is refused and failed: expired, or without signature. *)
Refuse(b, p) ==
    /\ batch[b].pc = "validate" /\ p \in DOMAIN batch[b].left
    /\ LET r == batch[b].left[p] IN
         \/ p \in expired
         \/ r.status # "SUBMITTED" /\ ~r.signed
    /\ MarkAsFailed(p, "permanent")
    /\ batch' = [batch EXCEPT ![b].left = Without(@, p)]
    /\ UNCHANGED <<ordered, expired, marks, retrier, handedOut, retried>>

(* Mutant of Validate: the mark is set and not looked at. *)
ValidateUnmarked(b, p) ==
    /\ batch[b].pc = "validate" /\ p \in DOMAIN batch[b].left
    /\ p \notin expired
    /\ LET r == batch[b].left[p] IN
         IF r.status = "SUBMITTED"
         THEN batch' = [batch EXCEPT ![b].left = Without(@, p)] /\ UNCHANGED marks
         ELSE /\ r.signed
              /\ batch' = [batch EXCEPT ![b].left = Without(@, p),
                                        ![b].valid = With(@, p, r), ![b].open = @ \cup {p}]
              /\ marks' = marks \cup {p}
    /\ UNCHANGED <<ordered, row, expired, retrier, handedOut, retried>>

(* One payload is skipped, submitted already or marked, or is taken and    *)
(* marked. *)
Validate(b, p) ==
    /\ batch[b].pc = "validate" /\ p \in DOMAIN batch[b].left
    /\ p \notin expired
    /\ LET r == batch[b].left[p] IN
         IF r.status = "SUBMITTED" \/ (r.signed /\ p \in marks)
         THEN batch' = [batch EXCEPT ![b].left = Without(@, p)] /\ UNCHANGED marks
         ELSE /\ r.signed
              /\ batch' = [batch EXCEPT ![b].left = Without(@, p),
                                        ![b].valid = With(@, p, r), ![b].open = @ \cup {p}]
              /\ marks' = marks \cup {p}
    /\ UNCHANGED <<ordered, row, expired, retrier, handedOut, retried>>

Validated(b) ==
    /\ batch[b].pc = "validate" /\ batch[b].left = NoEntities
    /\ batch' = [batch EXCEPT ![b].pc = "submit"]
    /\ UNCHANGED <<ordered, row, expired, marks, retrier, handedOut, retried>>

(* submitPayload, with the entity read at the start; an error marks the    *)
(* row as failed.  One after the other if order is preserved. *)
SubmitOfBatch(b, p) ==
    /\ batch[b].pc = "submit" /\ p \in batch[b].open
    /\ ordered => p = CHOOSE q \in batch[b].open : TRUE
    /\ \/ row' = [row EXCEPT ![p] = Submitted(batch[b].valid[p])]
       \/ \E why \in Failures : MarkAsFailed(p, why)
    /\ batch' = [batch EXCEPT ![b].open = @ \ {p}]
    /\ UNCHANGED <<ordered, expired, marks, retrier, handedOut, retried>>

(* The marks of the whole batch are cleared at its end. *)
BatchReturns(b) ==
    /\ batch[b].pc = "submit" /\ batch[b].open = {}
    /\ marks' = marks \ Owned(b)
    /\ retried' = retried \cap UNION {Owned(c) : c \in Batches \ {b}}
    /\ batch' = [batch EXCEPT ![b] = Idle]
    /\ UNCHANGED <<ordered, row, expired, retrier, handedOut>>

-----------------------------------------------------------------------------
(* retryFailedPayloads takes recent retryable failures with attempts left, *)
(* or whatever ids it is given. *)
ProcessWithRetry(w, p) ==
    /\ retrier[w].pc = "idle"
    /\ retrier' = [retrier EXCEPT ![w] = [pc |-> "load", id |-> p, attempt |-> 1, entity |-> row[p]]]
    /\ UNCHANGED <<ordered, row, expired, marks, batch, handedOut, retried>>

(* clearInFlight, whoever set the mark. *)
Release(p) ==
    /\ marks' = marks \ {p}
    /\ handedOut' = handedOut \ {p}
    /\ retried' = retried \cup ({p} \cap UNION {Owned(b) : b \in Batches})

(* findOne: submitted and permanently failed payloads end the call. *)
RetryLoad(w) ==
    /\ retrier[w].pc = "load"
    /\ LET r == row[retrier[w].id] IN
         retrier' = [retrier EXCEPT ![w] =
            IF r.status \in {"SUBMITTED", "permanent"} THEN Idle
            ELSE [@ EXCEPT !.pc = "submit", !.entity = r]]
    /\ UNCHANGED <<ordered, row, expired, marks, batch, handedOut, retried>>

RetrySubmit(w) ==
    /\ retrier[w].pc = "submit"
    /\ LET p == retrier[w].id  attempt == retrier[w].attempt IN
         \/ /\ row' = [row EXCEPT ![p] = Submitted(retrier[w].entity)]
            /\ Release(p)
            /\ retrier' = [retrier EXCEPT ![w] = Idle]
         \/ \E why \in Failures :
               IF why = "retryable" /\ attempt < MaxRetries
               THEN /\ retrier' = [retrier EXCEPT ![w].pc = "load", ![w].attempt = @ + 1]
                    /\ UNCHANGED <<row, marks, handedOut, retried>>
               ELSE /\ MarkAsFailed(p, why)
                    /\ Release(p)
                    /\ retrier' = [retrier EXCEPT ![w] = Idle]
    /\ UNCHANGED <<ordered, expired, batch>>

(* Elsewhere: a payload is signed (OracleService), or its time has come. *)
Sign(p) ==
    /\ row[p].status = "PENDING"
    /\ row' = [row EXCEPT ![p].signed = TRUE]
    /\ UNCHANGED <<ordered, expired, marks, batch, retrier, handedOut, retried>>

Expire(p) ==
    /\ expired' = expired \cup {p}
    /\ UNCHANGED <<ordered, row, marks, batch, retrier, handedOut, retried>>

-----------------------------------------------------------------------------
Init ==
    /\ ordered \in BOOLEAN
    /\ row \in [Payloads -> [status : {"PENDING"}, signed : BOOLEAN]]
    /\ expired = {} /\ marks = {} /\ handedOut = {} /\ retried = {}
    /\ batch = [b \in Batches |-> Idle]
    /\ retrier = [w \in Retriers |-> Idle]

Next ==
    \/ \E p \in Payloads : GetPayloadsForBatching(p) \/ Sign(p) \/ Expire(p)
    \/ \E b \in Batches :
          \/ \E ids \in SUBSET Payloads : ProcessBatch(b, ids)
          \/ \E p \in Payloads : Refuse(b, p) \/ Validate(b, p) \/ SubmitOfBatch(b, p)
          \/ Validated(b) \/ BatchReturns(b)
    \/ \E w \in Retriers :
          \/ \E p \in Payloads : ProcessWithRetry(w, p)
          \/ RetryLoad(w) \/ RetrySubmit(w)

Spec == Init /\ [][Next]_vars

-----------------------------------------------------------------------------
(* The marks keep two batches off one payload, and none outlives its       *)
(* batch: a marked payload belongs to a batch that is running or was       *)
(* handed out, and every payload a batch has taken is marked and its own.  *)
(* A retry asks for no mark and clears the one it finds: payloads released *)
(* that way are excepted for as long as the batch has them. *)
ClaimsAreExclusive ==
    /\ \A p \in marks : p \in handedOut \/ \E b \in Batches : p \in Owned(b)
    /\ \A b \in Batches : Owned(b) \subseteq marks \cup retried
    /\ \A b, c \in Batches : b # c => Owned(b) \cap Owned(c) \subseteq retried

-----------------------------------------------------------------------------
(* With it: what a batch has still to submit are entities it has. *)
OpenAreValid == \A b \in Batches : batch[b].pc # "idle" => batch[b].open \subseteq DOMAIN batch[b].valid

ClaimInv == ClaimsAreExclusive /\ OpenAreValid

=============================================================================
