-------------------------- MODULE WalletRecovery ---------------------------
(***************************************************************************)
(* Signing in with a wallet and recovering a session by e-mail:            *)
(* ChallengeService and verifySignatureAndIssueToken                       *)
(* (src/src/auth/challenge.service.ts, wallet-auth.service.ts) and         *)
(* SessionRecoveryService (session-recovery.service.ts).                   *)
(*                                                                         *)
(* Challenges and recovery sessions live in Maps; a call runs without      *)
(* interruption from one await to the next, and keeps the session object   *)
(* it found even when the Map has lost it.                                 *)
(***************************************************************************)
EXTENDS Naturals, FiniteSets

CONSTANTS
    Sessions,       \* recovery sessions ever opened (the bound)
    Challenges,     \* challenges ever issued (the bound)
    Calls,          \* requests in flight at once (the bound)
    MaxAttempts     \* MAX_ATTEMPTS

VARIABLES
    challenge,     \* challenges of ChallengeService
    session,       \* the session objects
    stored,        \* recoverySessions: the sessions in the Map
    call,          \* the requests in flight
    token,         \* history: what each token was issued for
    tried,         \* history: codes looked at per session
    overlap        \* history: sessions completed by two requests at once

vars == <<challenge, session, stored, call, token, tried, overlap>>

NewSession == [attempts |-> 0, verified |-> FALSE, expired |-> FALSE]

Idle == [pc |-> "idle"]

TypeOK ==
    /\ challenge \in [Challenges -> {"new", "live", "expired", "gone"}]
    /\ session \in [Sessions -> {Idle} \cup [attempts : Nat, verified : BOOLEAN, expired : BOOLEAN]]
    /\ stored \subseteq Sessions
    /\ call \in [Calls -> {Idle} \cup [pc : {"user"}, by : Challenges]
                                 \cup [pc : {"code", "issue", "wallet"}, session : Sessions]
                                 \cup [pc : {"save"}, session : Sessions, by : Challenges]]
    /\ token \subseteq [by : Challenges, session : Sessions \cup {"none"}]
    /\ tried \in [Sessions -> Nat]
    /\ overlap \subseteq Sessions

-----------------------------------------------------------------------------
(* ChallengeService *)

Issued(ch) == challenge[ch] = "new" /\ challenge' = [challenge EXCEPT ![ch] = "live"]

(* issueChallengeForAddress: for signing in, or for recoverWallet. *)
IssueChallenge(ch) ==
    /\ Issued(ch)
    /\ UNCHANGED <<session, stored, call, token, tried, overlap>>

ChallengeExpires(ch) ==
    /\ challenge[ch] = "live"
    /\ challenge' = [challenge EXCEPT ![ch] = "expired"]
    /\ UNCHANGED <<session, stored, call, token, tried, overlap>>

(* consumeChallenge: found or expired, it is deleted. *)
Consumed(ch) == challenge' = [challenge EXCEPT ![ch] = IF @ = "new" THEN "new" ELSE "gone"]

Start(c, state) == call[c] = Idle /\ call' = [call EXCEPT ![c] = state]

Return(c) == call' = [call EXCEPT ![c] = Idle]

(* verifySignatureAndIssueToken: the challenge is consumed, then the       *)
(* signature is verified; the user is read before the token is signed. *)
VerifySignature(c, ch, valid) ==
    /\ call[c] = Idle
    /\ Consumed(ch)
    /\ IF challenge[ch] = "live" /\ valid THEN Start(c, [pc |-> "user", by |-> ch]) ELSE UNCHANGED call
    /\ UNCHANGED <<session, stored, token, tried, overlap>>

SignIn(c) ==
    /\ call[c].pc = "user"
    /\ token' = token \cup {[by |-> call[c].by, session |-> "none"]}
    /\ Return(c)
    /\ UNCHANGED <<challenge, session, stored, tried, overlap>>

-----------------------------------------------------------------------------
(* SessionRecoveryService *)

(* initiateEmailRecovery; an e-mail that cannot be sent leaves the session *)
(* behind, unknown to anyone. *)
InitiateEmailRecovery(s) ==
    /\ session[s] = Idle
    /\ session' = [session EXCEPT ![s] = NewSession]
    /\ stored' = stored \cup {s}
    /\ UNCHANGED <<challenge, call, token, tried, overlap>>

SessionExpires(s) ==
    /\ session[s] # Idle /\ ~session[s].expired
    /\ session' = [session EXCEPT ![s].expired = TRUE]
    /\ UNCHANGED <<challenge, stored, call, token, tried, overlap>>

(* getValidSession deletes an expired session; every call begins with it. *)
SessionDropped(s) ==
    /\ s \in stored /\ session[s].expired
    /\ stored' = stored \ {s}
    /\ UNCHANGED <<challenge, session, call, token, tried, overlap>>

Valid(s) == s \in stored /\ ~session[s].expired

(* Mutant of VerifyCode: the attempt is counted when the code is wrong. *)
VerifyCodeCountedLater(c, s) ==
    /\ call[c] = Idle /\ Valid(s)
    /\ IF session[s].attempts < MaxAttempts
       THEN /\ Start(c, [pc |-> "code", session |-> s])
            /\ tried' = [tried EXCEPT ![s] = @ + 1]
            /\ UNCHANGED <<stored, session>>
       ELSE stored' = stored \ {s} /\ UNCHANGED <<call, tried, session>>
    /\ UNCHANGED <<challenge, token, overlap>>

(* verifyEmailRecoveryCode up to its first await: an exhausted session is  *)
(* deleted, else the attempt is counted. *)
VerifyCode(c, s) ==
    /\ call[c] = Idle /\ Valid(s)
    /\ IF session[s].attempts < MaxAttempts
       THEN /\ Start(c, [pc |-> "code", session |-> s])
            /\ session' = [session EXCEPT ![s].attempts = @ + 1]
            /\ tried' = [tried EXCEPT ![s] = @ + 1]
            /\ UNCHANGED stored
       ELSE stored' = stored \ {s} /\ UNCHANGED <<call, session, tried>>
    /\ UNCHANGED <<challenge, token, overlap>>

CodeWrong(c) ==
    /\ call[c].pc = "code"
    /\ Return(c)
    /\ UNCHANGED <<challenge, session, stored, token, tried, overlap>>

(* The object is marked, in the Map or not; the wallet is read next. *)
CodeRight(c) ==
    /\ call[c].pc = "code"
    /\ session' = [session EXCEPT ![call[c].session].verified = TRUE]
    /\ call' = [call EXCEPT ![c].pc = "issue"]
    /\ UNCHANGED <<challenge, stored, token, tried, overlap>>

IssueForRecovery(c, ch) ==
    /\ call[c].pc = "issue"
    /\ Issued(ch)
    /\ Return(c)
    /\ UNCHANGED <<session, stored, token, tried, overlap>>

(* completeRecovery: the session is checked, the wallet is read. *)
CompleteRecovery(c, s) ==
    /\ Valid(s) /\ session[s].verified
    /\ Start(c, [pc |-> "wallet", session |-> s])
    /\ overlap' = IF \E d \in Calls : call[d].pc \in {"wallet", "save"} /\ call[d].session = s
                  THEN overlap \cup {s} ELSE overlap
    /\ UNCHANGED <<challenge, session, stored, token, tried>>

(* The signature first, then any challenge there is: the address the       *)
(* challenge was issued for is not compared. *)
RecoverySigned(c, ch, valid) ==
    /\ call[c].pc = "wallet"
    /\ IF ~valid THEN Return(c) /\ UNCHANGED <<challenge, token>>
       ELSE /\ Consumed(ch)
            /\ IF challenge[ch] # "live" THEN Return(c) /\ UNCHANGED token
               ELSE LET s == call[c].session IN
                    /\ token' = token \cup {[by |-> ch, session |-> s]}
                    /\ call' = [call EXCEPT ![c] = [pc |-> "save", session |-> s, by |-> ch]]
    /\ UNCHANGED <<session, stored, tried, overlap>>

(* The wallet is saved and the session deleted; an error of the save keeps *)
(* the session, and the client has no token. *)
RecoverySaved(c) ==
    /\ call[c].pc = "save"
    /\ \/ stored' = stored \ {call[c].session} /\ UNCHANGED token
       \/ /\ token' = token \ {[by |-> call[c].by, session |-> call[c].session]}
          /\ UNCHANGED stored
    /\ Return(c)
    /\ UNCHANGED <<challenge, session, tried, overlap>>

CancelRecovery(s) ==
    /\ s \in stored
    /\ stored' = stored \ {s}
    /\ UNCHANGED <<challenge, session, call, token, tried, overlap>>

-----------------------------------------------------------------------------
Init ==
    /\ challenge = [ch \in Challenges |-> "new"]
    /\ session = [s \in Sessions |-> Idle]
    /\ stored = {} /\ overlap = {} /\ token = {}
    /\ call = [c \in Calls |-> Idle]
    /\ tried = [s \in Sessions |-> 0]

Next ==
    \/ \E ch \in Challenges : IssueChallenge(ch) \/ ChallengeExpires(ch)
    \/ \E s \in Sessions : InitiateEmailRecovery(s) \/ SessionExpires(s) \/ SessionDropped(s) \/ CancelRecovery(s)
    \/ \E c \in Calls :
          \/ SignIn(c) \/ CodeWrong(c) \/ CodeRight(c) \/ RecoverySaved(c)
          \/ \E s \in Sessions : VerifyCode(c, s) \/ CompleteRecovery(c, s)
          \/ \E ch \in Challenges :
                \/ IssueForRecovery(c, ch)
                \/ \E valid \in BOOLEAN : VerifySignature(c, ch, valid) \/ RecoverySigned(c, ch, valid)

Spec == Init /\ [][Next]_vars

-----------------------------------------------------------------------------
(* Requests that overlap share challenges and sessions.  A challenge is    *)
(* good for one token, for signing in or for recovery; a session looks at  *)
(* three codes however many requests bring them at once; and it is         *)
(* good for one token, issued after a right code, unless two requests      *)
(* completed it at once, each with a challenge of its own. *)
TokensAreEarned ==
    /\ \A t, u \in token : t.by = u.by => t = u
    /\ \A t \in token : challenge[t.by] = "gone"
    /\ \A s \in Sessions : tried[s] <= MaxAttempts
    /\ \A t, u \in token : t.session = u.session /\ t # u => t.session \in overlap \cup {"none"}
    /\ \A t \in token : t.session # "none" => session[t.session].verified

-----------------------------------------------------------------------------
(* Why it holds: what is in the hands of the requests.                     *)

Completing(s) == {c \in Calls : call[c].pc \in {"wallet", "save"} /\ call[c].session = s}

(* A challenge a request signs in with is consumed, and has no token yet. *)
ChallengesAreSpent ==
    /\ \A t \in token : challenge[t.by] = "gone"
    /\ \A t, u \in token : t.by = u.by => t = u
    /\ \A c \in Calls : call[c].pc = "user" =>
          challenge[call[c].by] = "gone" /\ \A t \in token : t.by # call[c].by
    /\ \A c, d \in Calls :
          call[c].pc = "user" /\ call[d].pc = "user" /\ call[c].by = call[d].by => c = d

(* The codes looked at are the attempts of the session object. *)
CodesAreCounted ==
    /\ \A s \in stored : session[s] # Idle
    /\ \A s \in Sessions :
          /\ tried[s] = IF session[s] = Idle THEN 0 ELSE session[s].attempts
          /\ tried[s] <= MaxAttempts

(* A right code came before whoever completes the session. *)
CodesComeFirst ==
    /\ \A c \in Calls :
          /\ call[c].pc = "code" => session[call[c].session] # Idle
          /\ call[c].pc \in {"wallet", "save"} =>
                session[call[c].session] # Idle /\ session[call[c].session].verified
    /\ \A t \in token : t.session # "none" => session[t.session] # Idle /\ session[t.session].verified

(* A session nobody completed twice at once has one token, and from then   *)
(* on either the request that got it alone completes the session, or the   *)
(* session is gone. *)
OneCompletes ==
    \A s \in Sessions \ (overlap \cup {"none"}) :
        /\ \A c, d \in Completing(s) : c = d
        /\ \A t, u \in token : t.session = s /\ u.session = s => t = u
        /\ \A t \in token : t.session = s =>
              \/ s \notin stored /\ Completing(s) = {}
              \/ \E c \in Completing(s) : call[c].pc = "save" /\ call[c].by = t.by

RecoveryInv == ChallengesAreSpent /\ CodesAreCounted /\ CodesComeFirst /\ OneCompletes

=============================================================================
