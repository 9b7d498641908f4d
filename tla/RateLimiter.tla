---------------------------- MODULE RateLimiter -----------------------------
(***************************************************************************)
(* RateLimiterService and its four algorithms (src/src/quota): whether one *)
(* more request under a key is allowed.  Each algorithm is a script that   *)
(* Redis runs at once, or one increment, so a check is one step.           *)
(*                                                                         *)
(* Levels count in requests times Window, which makes a refill or a leak   *)
(* per tick of the clock a whole number: the limit.  A request reaches     *)
(* Redis in the tick in which it read the clock, and all read one clock.   *)
(***************************************************************************)
EXTENDS Integers, FiniteSets

CONSTANTS
    Policies,    \* [algorithm, limit, burst] of the policies a key may have
    Window,      \* windowMs of each
    LastTime,    \* bound of the clock
    MaxGranted   \* bound of the requests that are allowed in one tick

Algorithm == {"TOKEN_BUCKET", "LEAKY_BUCKET", "SLIDING_WINDOW", "FIXED_WINDOW"}

VARIABLES
    policy,    \* the policy of the key
    now,
    bucket,    \* the hash of a bucket: its level, when that was true
    entries,   \* the sorted set of the sliding window
    count,     \* the counter of the current fixed window
    touched,   \* when the key was last given a TTL
    granted    \* history: the requests allowed up to the end of each tick

vars == <<policy, now, bucket, entries, count, touched, granted>>

Times == 0..LastTime

NoBucket == [level |-> -1, last |-> 0]

Full == (policy.limit + policy.burst) * Window

TypeOK ==
    /\ policy \in Policies /\ now \in Times /\ touched \in Times
    /\ bucket = NoBucket \/ bucket \in [level : 0..(Full + Window), last : Times]
    /\ entries \subseteq Times
    /\ count \in 0..(policy.limit + 1)
    /\ granted \in [Times -> Nat]

-----------------------------------------------------------------------------
(* The requests that were allowed in the ticks a to b. *)
GrantedIn(a, b) == granted[b] - (IF a = 0 THEN 0 ELSE granted[a - 1])

(* The outcome of a check; the count of refused requests makes no          *)
(* difference beyond the limit (a bound). *)
Answer(allowed) ==
    /\ granted' = IF allowed THEN [t \in Times |-> granted[t] + (IF t >= now THEN 1 ELSE 0)] ELSE granted
    /\ touched' = now
    /\ UNCHANGED <<policy, now>>

Least(a, b) == IF a < b THEN a ELSE b

(* Mutant of TokenBucket: a refused request leaves the time as it was, but *)
(* keeps the tokens that were refilled. *)
TokenBucketRefusedUntimed ==
    LET level == IF bucket = NoBucket THEN Full
                 ELSE Least(Full, bucket.level + (now - bucket.last) * policy.limit)
        allowed == level >= Window
    IN /\ bucket' = IF allowed THEN [level |-> level - Window, last |-> now]
                    ELSE [level |-> level, last |-> IF bucket = NoBucket THEN now ELSE bucket.last]
       /\ Answer(allowed)
       /\ UNCHANGED <<entries, count>>

(* TokenBucketAlgorithm: a bucket not yet there is full. *)
TokenBucket ==
    LET level == IF bucket = NoBucket THEN Full
                 ELSE Least(Full, bucket.level + (now - bucket.last) * policy.limit)
        allowed == level >= Window
    IN /\ bucket' = [level |-> IF allowed THEN level - Window ELSE level, last |-> now]
       /\ Answer(allowed)
       /\ UNCHANGED <<entries, count>>

(* LeakyBucketAlgorithm takes a request while there is any room at all. *)
LeakyBucket ==
    LET leaked == bucket.level - (now - bucket.last) * policy.limit
        level == IF bucket = NoBucket \/ leaked < 0 THEN 0 ELSE leaked
        allowed == level < policy.limit * Window
    IN /\ bucket' = [level |-> IF allowed THEN level + Window ELSE level, last |-> now]
       /\ Answer(allowed)
       /\ UNCHANGED <<entries, count>>

(* SlidingWindowAlgorithm: the member of an entry is its time, so that two *)
(* requests of one tick are one entry. *)
SlidingWindow ==
    LET kept == {t \in entries : t > now - Window}
        allowed == Cardinality(kept) < policy.limit
    IN /\ entries' = IF allowed THEN kept \cup {now} ELSE kept
       /\ Answer(allowed)
       /\ UNCHANGED <<bucket, count>>

(* FixedWindowAlgorithm: the key holds the number of the window. *)
FixedWindow ==
    /\ count' = Least(count, policy.limit) + 1
    /\ Answer(count' <= policy.limit)
    /\ UNCHANGED <<bucket, entries>>

(* enforce and checkQuota.  Bound: MaxGranted requests in one tick. *)
CheckRateLimit ==
    /\ GrantedIn(now, now) < MaxGranted
    /\ CASE policy.algorithm = "TOKEN_BUCKET" -> TokenBucket
         [] policy.algorithm = "LEAKY_BUCKET" -> LeakyBucket
         [] policy.algorithm = "SLIDING_WINDOW" -> SlidingWindow
         [] policy.algorithm = "FIXED_WINDOW" -> FixedWindow

(* A new window has a new key. *)
Tick ==
    /\ now < LastTime
    /\ now' = now + 1
    /\ count' = IF now' % Window = 0 THEN 0 ELSE count
    /\ UNCHANGED <<policy, bucket, entries, touched, granted>>

(* The TTLs, rounded up to seconds: two windows for a bucket, one for the  *)
(* entries. *)
Expire ==
    /\ \/ /\ now - touched >= 2 * Window /\ bucket # NoBucket
          /\ bucket' = NoBucket
          /\ UNCHANGED entries
       \/ /\ now - touched >= Window /\ entries # {}
          /\ entries' = {}
          /\ UNCHANGED bucket
    /\ UNCHANGED <<policy, now, count, touched, granted>>

Init ==
    /\ policy \in Policies
    /\ now = 0 /\ touched = 0 /\ count = 0 /\ entries = {}
    /\ bucket = NoBucket
    /\ granted = [t \in Times |-> 0]

Next == CheckRateLimit \/ Tick \/ Expire

Spec == Init /\ [][Next]_vars

-----------------------------------------------------------------------------
BusyTicks(a, b) == {t \in a..b : GrantedIn(t, t) > 0}

(* What each algorithm promises for the ticks a to b: a bucket its         *)
(* capacity and what is refilled or leaks meanwhile, the leaky one up to a *)
(* request more; a sliding window the limit in every window, of ticks with *)
(* a request; a fixed one the limit in its own windows. *)
Promised(a, b) ==
    CASE policy.algorithm = "TOKEN_BUCKET" ->
            policy.burst <= policy.limit =>
                GrantedIn(a, b) * Window <= Full + (b - a) * policy.limit
      [] policy.algorithm = "LEAKY_BUCKET" ->
            GrantedIn(a, b) * Window < (policy.limit + 1) * Window + (b - a) * policy.limit
      [] policy.algorithm = "SLIDING_WINDOW" ->
            b - a < Window => Cardinality(BusyTicks(a, b)) <= policy.limit
      [] policy.algorithm = "FIXED_WINDOW" ->
            a \div Window = b \div Window => GrantedIn(a, b) <= policy.limit

(* However requests come, in no interval are more allowed than the policy  *)
(* promises: neither refused requests, nor a long silence in which the key *)
(* expires, nor the edge of a window adds to it.  A token bucket whose     *)
(* burst is larger than its limit expires before it would be full, and     *)
(* gives more. *)
AllowanceHolds == \A b \in Times : \A a \in 0..b : Promised(a, b)

-----------------------------------------------------------------------------
(* Why the allowance holds: what the hash, the set or the counter of the   *)
(* key has to do with the requests that were allowed up to now. *)

HistoryIsTrue ==
    /\ \A s, t \in Times : s <= t => granted[s] <= granted[t]
    /\ \A t \in Times : t >= now => granted[t] = granted[now]
    /\ touched <= now
    /\ bucket # NoBucket => /\ bucket.last = touched
                           /\ policy.algorithm \in {"TOKEN_BUCKET", "LEAKY_BUCKET"}

(* The level there would be if the bucket were looked at now. *)
Tokens ==
    IF bucket = NoBucket THEN Full ELSE Least(Full, bucket.level + (now - bucket.last) * policy.limit)

Leaked ==
    LET leaked == bucket.level - (now - bucket.last) * policy.limit
    IN IF bucket = NoBucket \/ leaked < 0 THEN 0 ELSE leaked

TokensAreTrue ==
    policy.algorithm = "TOKEN_BUCKET" /\ policy.burst <= policy.limit =>
        \A a \in 0..now : GrantedIn(a, now) * Window + Tokens <= Full + (now - a) * policy.limit

LeakIsTrue ==
    policy.algorithm = "LEAKY_BUCKET" =>
        /\ \A a \in 0..now : GrantedIn(a, now) * Window <= Leaked + (now - a) * policy.limit
        /\ bucket # NoBucket => /\ bucket.level < (policy.limit + 1) * Window
                               /\ bucket.level <= 2 * policy.limit * Window

EntriesAreTrue ==
    policy.algorithm = "SLIDING_WINDOW" =>
        /\ \A t \in BusyTicks(0, now) : t <= touched /\ (t > now - Window => t \in entries)
        /\ \A a \in 0..now : now - a < Window => Cardinality(BusyTicks(a, now)) <= policy.limit

CountIsTrue ==
    policy.algorithm = "FIXED_WINDOW" =>
        \A a \in 0..now : a \div Window = now \div Window =>
            GrantedIn(a, now) <= Least(count, policy.limit)

LimiterInv ==
    /\ HistoryIsTrue /\ TokensAreTrue /\ LeakIsTrue /\ EntriesAreTrue /\ CountIsTrue
    /\ AllowanceHolds
=============================================================================
