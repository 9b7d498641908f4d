---------------------------- MODULE MCServices -----------------------------
(***************************************************************************)
(* Services that share no state, checked in one run: a behaviour picks its *)
(* subject and is a behaviour of that service.  The variables of the       *)
(* service are v1 to v9; the validator keeps its own, and waits with the   *)
(* empty graph while another service is the subject.                       *)
(***************************************************************************)
EXTENDS MCDagValidator

VARIABLES subject, v1, v2, v3, v4, v5, v6, v7, v8, v9

(* ComputeJobs, ProposalTimelock, ProviderRouting, ... *)
CONSTANTS Jobs, Workers, MaxAttempts, MaxStalls, Calls,
          NumItems, Priority, Kind,
          Payloads, Batches, Retriers, MaxRetries,
          Proposals, Keys, MinDelay, MaxTime,
          Calcs, Requests, MaxQueue, MaxPaid,
          Providers, NoProvider, Executions, FailureThreshold, SuccessThreshold, UnhealthyThreshold,
          Wallets, NoWallet,
          Sessions, Challenges, MaxCodeAttempts,
          Cleaners, MaxUpstream,
          Events, Users, Passes, LastTime,
          NumBlocks, Forks, Checkers, MaxEventRetries, MaxFailures,
          Policies, Window, ClockEnd, MaxGranted

ASSUME ServicesAssumption ==
    /\ MaxAttempts \in Nat \ {0} /\ MaxStalls \in Nat
    /\ NumItems \in Nat /\ MaxRetries \in Nat \ {0}
    /\ MinDelay \in Nat /\ MaxTime \in Nat
    /\ MaxQueue \in Nat /\ MaxPaid \in Nat
    /\ FailureThreshold \in Nat \ {0} /\ SuccessThreshold \in Nat \ {0}
    /\ UnhealthyThreshold \in Nat \ {0}
    /\ MaxCodeAttempts \in Nat /\ MaxUpstream \in Nat /\ LastTime \in Nat \ {0}
    /\ NumBlocks \in Nat /\ Forks \in Nat \ {0}
    /\ MaxEventRetries \in Nat \ {0} /\ MaxFailures \in Nat
    /\ NoProvider \notin Providers /\ NoWallet \notin Wallets
    /\ Policies \subseteq
         [algorithm : {"TOKEN_BUCKET", "LEAKY_BUCKET", "SLIDING_WINDOW", "FIXED_WINDOW"},
          limit : Nat, burst : Nat]
    /\ Window \in Nat \ {0} /\ ClockEnd \in Nat /\ MaxGranted \in Nat

(* The priority of a job is a number. *)
ASSUME PriorityAssumption == Priority \in [1..NumItems -> Int]

(* As many requests as there are at once. *)
ASSUME RequestsAssumption == IsFiniteSet(Requests)

(* The items of the batch: four of two kinds. *)
MCPriority == <<3, 1, 1, 2>>

MCKind == <<"a", "b", "a", "a">>

(* The policies of the key: a burst matters to the token bucket only. *)
MCPolicies ==
    [algorithm : {"LEAKY_BUCKET", "SLIDING_WINDOW", "FIXED_WINDOW"}, limit : {2}, burst : {0}]
        \cup [algorithm : {"TOKEN_BUCKET"}, limit : {2}, burst : {0, 1, 2}]

J == INSTANCE ComputeJobs WITH job <- v1, worker <- v2, call <- v3, halted <- v4

B == INSTANCE BatchJobs WITH
        config <- v1, order <- v2, loop <- v3, next <- v4, queued <- v5, jobOf <- v6,
        progress <- v7, late <- v8

S == INSTANCE SubmissionBatch WITH
        ordered <- v1, row <- v2, expired <- v3, marks <- v4, batch <- v5, retrier <- v6,
        handedOut <- v7, retried <- v8

G == INSTANCE ProposalTimelock WITH
        row <- v1, now <- v2, call <- v3, cron <- v4, raced <- v5, settled <- v6, crowded <- v7

R == INSTANCE RewardPipeline WITH
        row <- v1, queue <- v2, work <- v3, late <- v4, request <- v5, paid <- v6,
        unsure <- v7, doubled <- v8, lost <- v9

P == INSTANCE ProviderRouting WITH
        health <- v1, breaker <- v2, request <- v3, execution <- v4, down <- v5, sound <- v6

W == INSTANCE WalletAccounts WITH
        row <- v1, address <- v2, verified <- v3, call <- v4, clash <- v5

A == INSTANCE WalletRecovery WITH
        challenge <- v1, session <- v2, stored <- v3, call <- v4, token <- v5, tried <- v6,
        overlap <- v7, MaxAttempts <- MaxCodeAttempts

C == INSTANCE ResultCache WITH
        upstream <- v1, entry <- v2, versions <- v3, job <- v4, cleaner <- v5, late <- v6, bare <- v7

E == INSTANCE EventScheduler WITH
        event <- v1, active <- v2, now <- v3, pass <- v4, call <- v5, rewarded <- v6,
        raced <- v7, cut <- v8, terminated <- v9

I == INSTANCE EventIngestion WITH
        fork <- v1, range <- v2, fetch <- v3, queue <- v4, work <- v5, rows <- v6,
        letters <- v7, check <- v8, past <- v9,
        MaxRetries <- MaxEventRetries

(* Bursts of the token bucket: none, and up to its limit. *)
L == INSTANCE RateLimiter WITH
        policy <- v1, now <- v2, bucket <- v3, entries <- v4, count <- v5, touched <- v6,
        granted <- v7,
        LastTime <- ClockEnd

all == <<vars, subject, v1, v2, v3, v4, v5, v6, v7, v8, v9>>

(* The variables from the n-th on are not used by the subject. *)
From(n) ==
    /\ IF n <= 1 THEN v1 = 0 ELSE TRUE
    /\ IF n <= 2 THEN v2 = 0 ELSE TRUE
    /\ IF n <= 3 THEN v3 = 0 ELSE TRUE
    /\ IF n <= 4 THEN v4 = 0 ELSE TRUE
    /\ IF n <= 5 THEN v5 = 0 ELSE TRUE
    /\ IF n <= 6 THEN v6 = 0 ELSE TRUE
    /\ IF n <= 7 THEN v7 = 0 ELSE TRUE
    /\ IF n <= 8 THEN v8 = 0 ELSE TRUE
    /\ IF n <= 9 THEN v9 = 0 ELSE TRUE

Waits == Init /\ Known = {}

MCInit ==
    \/ subject = "validator" /\ Init /\ From(1)
    \/ Waits /\ \/ subject = "jobs" /\ J!Init /\ From(5)
                \/ subject = "batch" /\ B!Init /\ From(9)
                \/ subject = "submission" /\ S!Init /\ From(9)
                \/ subject = "governance" /\ G!Init /\ From(8)
                \/ subject = "rewards" /\ R!Init
                \/ subject = "routing" /\ P!Init /\ From(7)
                \/ subject = "wallets" /\ W!Init /\ From(6)
                \/ subject = "recovery" /\ A!Init /\ From(8)
                \/ subject = "cache" /\ C!Init /\ From(8)
                \/ subject = "scheduling" /\ E!Init
                \/ subject = "ingestion" /\ I!Init
                \/ subject = "limits" /\ L!Init /\ From(8)

MCNext ==
    /\ UNCHANGED subject
    /\ \/ subject = "validator" /\ Next /\ UNCHANGED <<v1, v2, v3, v4, v5, v6, v7, v8, v9>>
       \/ /\ UNCHANGED vars
          /\ \/ subject = "jobs" /\ J!Next /\ UNCHANGED <<v5, v6, v7, v8, v9>>
             \/ subject = "batch" /\ B!Next /\ UNCHANGED v9
             \/ subject = "submission" /\ S!Next /\ UNCHANGED v9
             \/ subject = "governance" /\ G!Next /\ UNCHANGED <<v8, v9>>
             \/ subject = "rewards" /\ R!Next
             \/ subject = "routing" /\ P!Next /\ UNCHANGED <<v7, v8, v9>>
             \/ subject = "wallets" /\ W!Next /\ UNCHANGED <<v6, v7, v8, v9>>
             \/ subject = "recovery" /\ A!Next /\ UNCHANGED <<v8, v9>>
             \/ subject = "cache" /\ C!Next /\ UNCHANGED <<v8, v9>>
             \/ subject = "scheduling" /\ E!Next
             \/ subject = "ingestion" /\ I!Next
             \/ subject = "limits" /\ L!Next /\ UNCHANGED <<v8, v9>>

jobVars == J!vars

routingVars == P!vars

(* The fairness of DagValidator, ComputeJobs and ProviderRouting, while    *)
(* they are the subject. *)
MCSpec ==
    /\ MCInit /\ [][MCNext]_all
    /\ WF_vars(subject = "validator" /\ Next)
    /\ WF_jobVars(subject = "jobs" /\ J!Progress)
    /\ \A p \in Providers :
          /\ WF_routingVars(subject = "routing" /\ P!HealthCheck(p))
          /\ WF_routingVars(subject = "routing" /\ P!RecoveryTimeout(p))
    /\ WF_routingVars(subject = "routing" /\ P!Progress)

-----------------------------------------------------------------------------
(* Every variable of every service has its type. *)
TypesOK ==
    /\ TypeOK
    /\ subject = "jobs" => J!TypeOK
    /\ subject = "batch" => B!TypeOK
    /\ subject = "submission" => S!TypeOK
    /\ subject = "governance" => G!TypeOK
    /\ subject = "rewards" => R!TypeOK
    /\ subject = "routing" => P!TypeOK
    /\ subject = "wallets" => W!TypeOK
    /\ subject = "recovery" => A!TypeOK
    /\ subject = "cache" => C!TypeOK
    /\ subject = "scheduling" => E!TypeOK
    /\ subject = "ingestion" => I!TypeOK
    /\ subject = "limits" => L!TypeOK

(* DagValidator: the two loops end. *)
ValidatorEnds == <>(subject = "validator" => pc = "done")

(* ComputeJobs: shown as paused exactly when it is parked. *)
PauseIsExact == subject = "jobs" => J!PauseIsExact

(* ComputeJobs: Bull's result, the events and the letters agree. *)
OutcomesAgree == subject = "jobs" => J!OutcomesAgree

(* ComputeJobs: every job ends, again and again if it is asked to. *)
JobsEnd == \A j \in Jobs : []<>(subject = "jobs" => J!Settled(j) \/ v4)

(* BatchJobs: the progress shown is that of the items. *)
ProgressIsTrue == subject = "batch" => B!ProgressIsTrue

(* BatchJobs: the order and the concurrency of the strategy are kept. *)
OrderIsKept == subject = "batch" => B!OrderIsKept

(* SubmissionBatch: one batch per payload, and no mark without an owner. *)
ClaimsAreExclusive == subject = "submission" => S!ClaimsAreExclusive

(* ProposalTimelock: nothing before its time, nothing twice. *)
TimelockHolds == subject = "governance" => G!TimelockHolds

(* RewardPipeline: a reward is paid once, and its row says so. *)
PaidOnce == subject = "rewards" => R!PaidOnce

(* ProviderRouting: counters never outgrow what they count. *)
CountersAreBounded == subject = "routing" => P!CountersAreBounded

(* WalletAccounts: one primary wallet, and the user's address is its own. *)
PrimaryIsTrue == subject = "wallets" => W!PrimaryIsTrue

(* WalletRecovery: a token for a challenge, and for a code that was right. *)
TokensAreEarned == subject = "recovery" => A!TokensAreEarned

(* ResultCache: what was invalidated goes, and records go with entries. *)
EntriesAreFresh == subject = "cache" => C!EntriesAreFresh

(* EventScheduler: an event ends once, and for everybody. *)
EventEndsOnce == subject = "scheduling" => E!EventEndsOnce

(* EventIngestion: an event is stored, queued, a dead letter or awaited. *)
NoEventVanishes == subject = "ingestion" => I!NoEventVanishes

(* RateLimiter: no interval gets more than the policy promises. *)
AllowanceHolds == subject = "limits" => L!AllowanceHolds

(* ProviderRouting: a sound provider becomes a candidate again. *)
Recovers ==
    \A p \in Providers : (subject = "routing" /\ P!Recovering(p)) ~> (subject = "routing" /\ P!Usable(p))

=============================================================================
