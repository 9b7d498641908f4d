---------------------- MODULE OracleSubmissionProofs -----------------------
(***************************************************************************)
(* Proofs about OracleSubmission, for any number of calls, monitors and    *)
(* transactions, any retry limit, every fault.                             *)
(*                                                                         *)
(* The safety properties speak of the row; the row is overwritten by       *)
(* entities loaded long before.  The inductive invariant therefore says of *)
(* every entity in flight what it may bring back when it is saved.         *)
(***************************************************************************)
EXTENDS OracleSubmission, TLAPS

OnChain == \E tx \in Txs : chain[tx] = "succeeded"

(* What the row, a call and a monitor may hold: no entity claims a         *)
(* confirmation the chain does not have; only a call at "save" is about to *)
(* save a submitted entity, and it is signed, so that a late signPayload,  *)
(* which loads unsigned rows, cannot bring a submitted row back.           *)
FineRow(r, mined) ==
    /\ r.status = "confirmed" => mined
    /\ r.status = "submitted" => r.signed

FineCall(r, mined) ==
    /\ r.doc.status = "confirmed" => mined
    /\ r.pc \in {"send", "save"} => r.doc.signed
    /\ r.pc \in {"close", "sign", "reset"} => r.doc.status # "submitted"
    /\ r.pc = "save" => r.doc.hash # NoTx

FineWatch(w, mined) ==
    /\ w.pc = "wait" => w.tx # NoTx
    /\ w.doc.status = "confirmed" => mined
    /\ w.pc \in {"update", "giveup"} => w.doc.status \in {"confirmed", "failed"}

EntitiesInFlight ==
    /\ FineRow(row, OnChain)
    /\ \A c \in Callers : FineCall(call[c], OnChain)
    /\ \A m \in Monitors : FineWatch(watch[m], OnChain)

IInv == TypeOK /\ EntitiesInFlight /\ SubmittedIsWatched

-----------------------------------------------------------------------------
(* Typing *)

LEMMA GotoTyped ==
    ASSUME TypeOK, NEW c \in Callers, NEW doc \in Row, NEW n \in 0..(MaxRetries + 1),
           NEW pc \in {"idle", "send", "save", "close", "sign", "reset", "resubmit"},
           Goto(c, pc, doc, n)
    PROVE  call' \in [Callers -> CallState]
BY DEF Goto, TypeOK, CallState

LEMMA ReturnTyped ==
    ASSUME TypeOK, NEW c \in Callers, Return(c)
    PROVE  call' \in [Callers -> CallState]
BY SubmissionAssumption DEF Return, TypeOK, CallState, Idle, NewRow, Row, Status

LEMMA NewRowTyped == NewRow \in Row /\ NoWatch \in WatchState /\ Idle \in CallState
BY SubmissionAssumption DEF NewRow, NoWatch, Idle, Row, Status, WatchState, CallState

LEMMA StartWatchTyped ==
    ASSUME TypeOK, NEW tx \in Txs \cup {NoTx}, StartWatch(tx)
    PROVE  watch' \in [Monitors -> WatchState]
<1>1. PICK m \in Monitors : watch' = [watch EXCEPT ![m] = [NoWatch EXCEPT !.pc = "wait", !.tx = tx]]
  BY DEF StartWatch
<1>2. [NoWatch EXCEPT !.pc = "wait", !.tx = tx] \in WatchState
  BY NewRowTyped DEF WatchState, NoWatch
<1>3. QED BY <1>1, <1>2 DEF TypeOK

LEMMA WatchingTyped ==
    ASSUME TypeOK, NEW m \in Monitors, NEW doc \in Row,
           NEW pc \in {"idle", "wait", "update", "giveup"}, Watching(m, pc, doc)
    PROVE  watch' \in [Monitors -> WatchState]
BY ZenonT(60) DEF Watching, TypeOK, WatchState

LEMMA RowTyped ==
    ASSUME TypeOK
    PROVE  /\ row \in Row
           /\ \A s \in Status : [row EXCEPT !.status = s] \in Row
           /\ [row EXCEPT !.signed = TRUE] \in Row
           /\ \A c \in Callers : call[c].doc \in Row /\ call[c].attempt \in 0..(MaxRetries + 1)
           /\ \A m \in Monitors : watch[m].doc \in Row /\ watch[m].tx \in Txs \cup {NoTx}
BY DEF TypeOK, Row, CallState, WatchState

LEMMA SubmitTyped ==
    ASSUME TypeOK, NEW c \in Callers, Submit(c)
    PROVE  call' \in [Callers -> CallState] /\ watch' \in [Monitors -> WatchState]
<1>1. CASE row.status = "submitted" /\ row.hash # NoTx /\ StartWatch(row.hash) /\ Return(c)
  <2>1. row.hash \in Txs
    BY <1>1 DEF TypeOK, Row
  <2>2. QED BY <1>1, <2>1, ReturnTyped, StartWatchTyped
<1>2. CASE Return(c) /\ UNCHANGED watch
  BY <1>2, ReturnTyped DEF TypeOK
<1>3. CASE /\ IF expired THEN Goto(c, "close", [row EXCEPT !.status = "failed"], 0)
              ELSE Goto(c, "send", row, 1)
           /\ UNCHANGED watch
  <2>1. 0 \in 0..(MaxRetries + 1) /\ 1 \in 0..(MaxRetries + 1)
    BY SubmissionAssumption
  <2>2. "failed" \in Status
    BY DEF Status
  <2>3. call' \in [Callers -> CallState]
    BY <1>3, <2>1, <2>2, GotoTyped, RowTyped
  <2>4. QED BY <1>3, <2>3 DEF TypeOK
<1>4. QED BY <1>1, <1>2, <1>3 DEF Submit

LEMMA AttemptFailedTyped ==
    ASSUME TypeOK, NEW c \in Callers, NEW doc \in Row, NEW permanent \in BOOLEAN,
           AttemptFailed(c, doc, permanent)
    PROVE  call' \in [Callers -> CallState]
<1> DEFINE tried == [doc EXCEPT !.attempts = call[c].attempt]
<1>1. call[c].attempt \in 0..(MaxRetries + 1)
  BY RowTyped
<1>2. tried \in Row /\ [tried EXCEPT !.status = "failed"] \in Row
  BY <1>1 DEF Row, Status
<1>3. CASE Goto(c, "close", [tried EXCEPT !.status = "failed"], 0)
  <2>1. 0 \in 0..(MaxRetries + 1)
    BY SubmissionAssumption
  <2>2. QED BY <1>2, <1>3, <2>1, GotoTyped
<1>4. CASE call[c].attempt <= MaxRetries /\ Goto(c, "send", tried, call[c].attempt + 1)
  <2>1. call[c].attempt + 1 \in 0..(MaxRetries + 1)
    BY <1>1, <1>4, SubmissionAssumption
  <2> HIDE DEF tried
  <2>2. QED BY <1>2, <1>4, <2>1, GotoTyped
<1>5. call[c].attempt <= MaxRetries \/ call[c].attempt > MaxRetries
  BY <1>1, SubmissionAssumption
<1>6. QED BY <1>3, <1>4, <1>5 DEF AttemptFailed

(* One call takes a step: typing. *)
LEMMA CallStepTyped ==
    ASSUME TypeOK, NEW c \in Callers, CallStep(c)
    PROVE  TypeOK'
<1>1. CASE Send(c)
  <2>1. PICK tx \in Txs :
          /\ Broadcast(tx)
          /\ Goto(c, "save", [call[c].doc EXCEPT !.hash = tx, !.status = "submitted",
                                                 !.attempts = call[c].attempt],
                  call[c].attempt)
    BY <1>1 DEF Send
  <2>2. [call[c].doc EXCEPT !.hash = tx, !.status = "submitted",
                            !.attempts = call[c].attempt] \in Row
    BY RowTyped DEF Row, Status
  <2>3. call' \in [Callers -> CallState]
    BY <2>1, <2>2, GotoTyped, RowTyped
  <2>4. QED BY <1>1, <2>1, <2>3 DEF Send, Broadcast, TypeOK
<1>2. CASE SendFails(c)
  BY <1>2, AttemptFailedTyped, RowTyped DEF SendFails, TypeOK
<1>3. CASE SendLost(c)
  <2>1. call' \in [Callers -> CallState]
    BY <1>3, AttemptFailedTyped, RowTyped DEF SendLost
  <2>2. QED BY <1>3, <2>1 DEF SendLost, Broadcast, TypeOK
<1>4. CASE SaveSent(c)
  <2>1. call[c].doc.hash \in Txs \cup {NoTx}
    BY RowTyped DEF Row
  <2>2. watch' \in [Monitors -> WatchState]
    BY <1>4, <2>1, StartWatchTyped DEF SaveSent
  <2>3. call' \in [Callers -> CallState]
    BY <1>4, ReturnTyped DEF SaveSent
  <2>4. QED BY <1>4, <2>2, <2>3, RowTyped DEF SaveSent, TypeOK
<1>5. CASE SaveSentFails(c)
  BY <1>5, AttemptFailedTyped, RowTyped DEF SaveSentFails, TypeOK
<1>6. CASE SaveDoc(c)
  BY <1>6, ReturnTyped, RowTyped DEF SaveDoc, TypeOK
<1>7. CASE SaveFails(c)
  BY <1>7, ReturnTyped DEF SaveFails, TypeOK
<1>8. CASE SaveReset(c)
  <2>1. 0 \in 0..(MaxRetries + 1)
    BY SubmissionAssumption
  <2>2. call' \in [Callers -> CallState]
    BY <1>8, <2>1, GotoTyped, NewRowTyped DEF SaveReset
  <2>3. QED BY <1>8, <2>2, RowTyped DEF SaveReset, TypeOK
<1>9. CASE Resubmit(c)
  BY <1>9, SubmitTyped DEF Resubmit, Submit, TypeOK
<1>10. QED
  BY <1>1, <1>2, <1>3, <1>4, <1>5, <1>6, <1>7, <1>8, <1>9 DEF CallStep

(* A call is accepted, or the clock or a crash strikes: typing. *)
LEMMA UserTyped ==
    ASSUME TypeOK, User
    PROVE  TypeOK'
<1>0. 0 \in 0..(MaxRetries + 1) /\ {"pending", "failed"} \subseteq Status
  BY SubmissionAssumption DEF Status
<1>1. ASSUME NEW c \in Callers, BeginSubmit(c) PROVE TypeOK'
  BY <1>1, SubmitTyped DEF BeginSubmit, Submit, TypeOK, Overlaps, Busy
<1>2. ASSUME NEW c \in Callers, BeginSign(c) PROVE TypeOK'
  <2>1. call' \in [Callers -> CallState]
    BY <1>0, <1>2, GotoTyped, RowTyped DEF BeginSign
  <2>2. QED BY <1>2, <2>1 DEF BeginSign, TypeOK, Overlaps, Busy
<1>3. ASSUME NEW c \in Callers, BeginRetry(c) PROVE TypeOK'
  <2>1. call' \in [Callers -> CallState]
    BY <1>0, <1>3, GotoTyped, RowTyped DEF BeginRetry
  <2>2. QED BY <1>3, <2>1 DEF BeginRetry, TypeOK
<1>4. ASSUME NEW c \in Callers, BeginCleanup(c) PROVE TypeOK'
  <2>1. call' \in [Callers -> CallState]
    BY <1>0, <1>4, GotoTyped, RowTyped DEF BeginCleanup
  <2>2. QED BY <1>4, <2>1 DEF BeginCleanup, TypeOK, Overlaps, Busy
<1>5. CASE Expire
  BY <1>5 DEF Expire, TypeOK
<1>6. CASE Crash
  BY <1>6, NewRowTyped DEF Crash, TypeOK
<1>7. QED
  BY <1>1, <1>2, <1>3, <1>4, <1>5, <1>6 DEF User

(* A monitor takes a step: typing. *)
LEMMA WatchStepTyped ==
    ASSUME TypeOK, NEW m \in Monitors, WatchStep(m)
    PROVE  TypeOK'
<1>0. {"confirmed", "failed"} \subseteq Status
  BY DEF Status
<1>1. CASE Receipt(m)
  <2>1. watch' \in [Monitors -> WatchState]
    BY <1>0, <1>1, WatchingTyped, RowTyped DEF Receipt
  <2>2. QED BY <1>1, <2>1 DEF Receipt, TypeOK
<1>2. CASE WatchFails(m)
  <2>1. watch' \in [Monitors -> WatchState]
    BY <1>0, <1>2, WatchingTyped, RowTyped DEF WatchFails
  <2>2. QED BY <1>2, <2>1 DEF WatchFails, TypeOK
<1>3. CASE SaveWatch(m)
  BY <1>3, NewRowTyped, RowTyped DEF SaveWatch, TypeOK
<1>4. CASE WatchVanishes(m)
  BY <1>4, NewRowTyped DEF WatchVanishes, TypeOK
<1>5. QED
  BY <1>1, <1>2, <1>3, <1>4 DEF WatchStep

LEMMA StepTyped == TypeOK /\ [Next]_vars => TypeOK'
<1> SUFFICES ASSUME TypeOK, [Next]_vars PROVE TypeOK'
  OBVIOUS
<1>1. CASE User
  BY <1>1, UserTyped
<1>2. ASSUME NEW c \in Callers, CallStep(c) PROVE TypeOK'
  BY <1>2, CallStepTyped
<1>3. ASSUME NEW m \in Monitors, WatchStep(m) PROVE TypeOK'
  BY <1>3, WatchStepTyped
<1>4. ASSUME NEW tx \in Txs, Mine(tx) PROVE TypeOK'
  BY <1>4 DEF Mine, TypeOK
<1>5. CASE UNCHANGED vars
  BY <1>5 DEF vars, TypeOK
<1>6. QED
  BY <1>1, <1>2, <1>3, <1>4, <1>5 DEF Next

(* Every variable keeps its type; in particular the catch block of         *)
(* submitPayload never counts beyond MaxRetries + 1 attempts. *)
THEOREM TypeCorrect == Spec => []TypeOK
<1>1. Init => TypeOK
  BY NewRowTyped DEF Init, TypeOK
<1>2. QED BY <1>1, StepTyped, PTL DEF Spec

-----------------------------------------------------------------------------
(* The entities in flight *)

LEMMA MinedForGood ==
    ASSUME TypeOK, [Next]_vars, OnChain
    PROVE  OnChain'
<1>1. PICK tx \in Txs : chain[tx] = "succeeded"
  BY DEF OnChain
<1>2. chain'[tx] = "succeeded"
  <2>1. CASE UNCHANGED chain
    BY <1>1, <2>1
  <2>2. ASSUME NEW u \in Txs, Broadcast(u) PROVE chain'[tx] = "succeeded"
    BY <1>1, <2>2 DEF Broadcast, TypeOK
  <2>3. ASSUME NEW u \in Txs, Mine(u) PROVE chain'[tx] = "succeeded"
    BY <1>1, <2>3 DEF Mine, TypeOK
  <2>4. CASE User
    BY <2>1, <2>4 DEF User, BeginSubmit, Submit, BeginSign, BeginRetry, BeginCleanup, Expire, Crash
  <2>5. ASSUME NEW c \in Callers, CallStep(c) PROVE chain'[tx] = "succeeded"
    BY <2>1, <2>2, <2>5 DEF CallStep, Send, SendFails, SendLost, SaveSent, SaveSentFails,
       SaveDoc, SaveFails, SaveReset, Resubmit, Submit
  <2>6. ASSUME NEW m \in Monitors, WatchStep(m) PROVE chain'[tx] = "succeeded"
    BY <2>1, <2>6 DEF WatchStep, Receipt, WatchFails, SaveWatch, WatchVanishes
  <2>7. QED
    BY <2>1, <2>3, <2>4, <2>5, <2>6 DEF Next, vars
<1>3. QED BY <1>2 DEF OnChain

(* A record put into one call, the other calls being left alone. *)
LEMMA CallsStayFine ==
    ASSUME TypeOK, EntitiesInFlight, OnChain => OnChain', NEW c \in Callers, NEW r,
           call' = [call EXCEPT ![c] = r], FineCall(r, OnChain)
    PROVE  \A d \in Callers : FineCall(call'[d], OnChain')
<1> TAKE d \in Callers
<1>1. FineCall(call'[d], OnChain)
  BY DEF EntitiesInFlight, TypeOK
<1>2. QED BY <1>1 DEF FineCall

LEMMA WatchesStayFine ==
    ASSUME TypeOK, EntitiesInFlight, OnChain => OnChain', NEW m \in Monitors, NEW w,
           watch' = [watch EXCEPT ![m] = w], FineWatch(w, OnChain)
    PROVE  \A n \in Monitors : FineWatch(watch'[n], OnChain')
<1> TAKE n \in Monitors
<1>1. FineWatch(watch'[n], OnChain)
  BY DEF EntitiesInFlight, TypeOK
<1>2. QED BY <1>1 DEF FineWatch

LEMMA EverythingElseFine ==
    ASSUME EntitiesInFlight, OnChain => OnChain'
    PROVE  /\ UNCHANGED row => FineRow(row', OnChain')
           /\ UNCHANGED call => \A c \in Callers : FineCall(call'[c], OnChain')
           /\ UNCHANGED watch => \A m \in Monitors : FineWatch(watch'[m], OnChain')
BY DEF EntitiesInFlight, FineRow, FineCall, FineWatch

LEMMA IdleIsFine ==
    ASSUME NEW mined
    PROVE  FineCall(Idle, mined) /\ FineWatch(NoWatch, mined)
BY DEF FineCall, FineWatch, Idle, NoWatch, NewRow

LEMMA StartWatchFine ==
    ASSUME TypeOK, EntitiesInFlight, OnChain => OnChain', NEW tx,
           tx # NoTx, StartWatch(tx)
    PROVE  \A n \in Monitors : FineWatch(watch'[n], OnChain')
<1>1. PICK m \in Monitors : watch' = [watch EXCEPT ![m] = [NoWatch EXCEPT !.pc = "wait", !.tx = tx]]
  BY DEF StartWatch
<1>2. FineWatch([NoWatch EXCEPT !.pc = "wait", !.tx = tx], OnChain)
  BY DEF FineWatch, NoWatch, NewRow
<1> DEFINE w == [NoWatch EXCEPT !.pc = "wait", !.tx = tx]
<1> HIDE DEF w
<1>3. QED BY <1>1, <1>2, WatchesStayFine DEF w

LEMMA GotoFine ==
    ASSUME TypeOK, EntitiesInFlight, OnChain => OnChain', NEW c \in Callers,
           NEW pc, NEW doc, NEW n, Goto(c, pc, doc, n),
           doc.status = "confirmed" => OnChain,
           pc \in {"send", "save"} => doc.signed,
           pc \in {"close", "sign", "reset"} => doc.status # "submitted",
           pc = "save" => doc.hash # NoTx
    PROVE  \A d \in Callers : FineCall(call'[d], OnChain')
<1> DEFINE r == [pc |-> pc, doc |-> doc, attempt |-> n]
<1>1. call' = [call EXCEPT ![c] = r]
  BY DEF Goto
<1>2. FineCall(r, OnChain)
  BY DEF FineCall
<1> HIDE DEF r
<1>3. QED BY <1>1, <1>2, CallsStayFine

LEMMA ReturnFine ==
    ASSUME TypeOK, EntitiesInFlight, OnChain => OnChain', NEW c \in Callers, Return(c)
    PROVE  \A d \in Callers : FineCall(call'[d], OnChain')
BY IdleIsFine, CallsStayFine DEF Return

LEMMA SubmitFine ==
    ASSUME TypeOK, EntitiesInFlight, OnChain => OnChain', NEW c \in Callers, Submit(c)
    PROVE  EntitiesInFlight'
<1>1. FineRow(row', OnChain')
  BY EverythingElseFine DEF Submit
<1>2. \A m \in Monitors : FineWatch(watch'[m], OnChain')
  BY EverythingElseFine, StartWatchFine DEF Submit
<1>3. \A d \in Callers : FineCall(call'[d], OnChain')
  <2>1. CASE Return(c)
    BY <2>1, ReturnFine
  <2>2. CASE Goto(c, "close", [row EXCEPT !.status = "failed"], 0)
    <3>1. [row EXCEPT !.status = "failed"].status = "failed"
      BY DEF TypeOK, Row
    <3>2. QED BY <2>2, <3>1, GotoFine
  <2>3. CASE row.status = "pending" /\ row.signed /\ Goto(c, "send", row, 1)
    BY <2>3, GotoFine
  <2>4. QED BY <2>1, <2>2, <2>3 DEF Submit
<1>4. QED BY <1>1, <1>2, <1>3 DEF EntitiesInFlight

LEMMA AttemptFailedFine ==
    ASSUME TypeOK, EntitiesInFlight, OnChain => OnChain', NEW c \in Callers,
           NEW permanent \in BOOLEAN, call[c].pc \in {"send", "save"},
           AttemptFailed(c, call[c].doc, permanent)
    PROVE  \A d \in Callers : FineCall(call'[d], OnChain')
<1> DEFINE tried == [call[c].doc EXCEPT !.attempts = call[c].attempt]
           closed == [tried EXCEPT !.status = "failed"]
<1>1. /\ tried.status = call[c].doc.status
      /\ tried.signed = call[c].doc.signed
      /\ closed.status = "failed"
  BY RowTyped DEF Row
<1>2. /\ call[c].doc.status = "confirmed" => OnChain
      /\ call[c].doc.signed
  BY DEF EntitiesInFlight, FineCall
<1>3. Goto(c, "close", closed, 0) \/ Goto(c, "send", tried, call[c].attempt + 1)
  BY DEF AttemptFailed
<1> HIDE DEF tried, closed
<1>4. CASE Goto(c, "close", closed, 0)
  BY <1>1, <1>4, GotoFine
<1>5. CASE Goto(c, "send", tried, call[c].attempt + 1)
  <2>1. tried.status = "confirmed" => OnChain
    BY <1>1, <1>2
  <2>2. tried.signed
    BY <1>1, <1>2
  <2>3. /\ "send" \in {"close", "sign", "reset"} => tried.status # "submitted"
        /\ "send" = "save" => tried.hash # NoTx
    OBVIOUS
  <2>4. QED BY <1>5, <2>1, <2>2, <2>3, GotoFine
<1>6. QED BY <1>3, <1>4, <1>5
LEMMA CallStepFine ==
    ASSUME TypeOK, EntitiesInFlight, OnChain => OnChain', NEW c \in Callers, CallStep(c)
    PROVE  EntitiesInFlight'
<1>0. /\ call[c].doc.status = "confirmed" => OnChain
      /\ call[c].pc \in {"send", "save"} => call[c].doc.signed
      /\ call[c].pc \in {"close", "sign", "reset"} => call[c].doc.status # "submitted"
      /\ call[c].pc = "save" => call[c].doc.hash # NoTx
  BY DEF EntitiesInFlight, FineCall
<1>1. CASE Send(c)
  <2>1. PICK tx \in Txs :
          Goto(c, "save", [call[c].doc EXCEPT !.hash = tx, !.status = "submitted",
                                              !.attempts = call[c].attempt],
               call[c].attempt)
    BY <1>1 DEF Send
  <2> DEFINE sent == [call[c].doc EXCEPT !.hash = tx, !.status = "submitted",
                                         !.attempts = call[c].attempt]
  <2>2. sent.status = "submitted" /\ sent.signed = call[c].doc.signed /\ sent.hash # NoTx
    BY RowTyped, SubmissionAssumption DEF Row
  <2>3. call[c].doc.signed
    BY <1>0, <1>1 DEF Send
  <2> HIDE DEF sent
  <2>4. \A d \in Callers : FineCall(call'[d], OnChain')
    BY <2>1, <2>2, <2>3, GotoFine DEF sent
  <2>5. QED BY <1>1, <2>4, EverythingElseFine DEF Send, EntitiesInFlight
<1>2. CASE SendFails(c)
  <2>1. \A d \in Callers : FineCall(call'[d], OnChain')
    BY <1>2, AttemptFailedFine DEF SendFails
  <2>2. QED BY <1>2, <2>1, EverythingElseFine DEF SendFails, EntitiesInFlight
<1>3. CASE SendLost(c)
  <2>1. \A d \in Callers : FineCall(call'[d], OnChain')
    BY <1>3, AttemptFailedFine DEF SendLost
  <2>2. QED BY <1>3, <2>1, EverythingElseFine DEF SendLost, EntitiesInFlight
<1>4. CASE SaveSent(c)
  <2>1. FineRow(row', OnChain')
    BY <1>0, <1>4 DEF SaveSent, FineRow
  <2>2. \A m \in Monitors : FineWatch(watch'[m], OnChain')
    BY <1>0, <1>4, StartWatchFine DEF SaveSent
  <2>3. \A d \in Callers : FineCall(call'[d], OnChain')
    BY <1>4, ReturnFine DEF SaveSent
  <2>4. QED BY <2>1, <2>2, <2>3 DEF EntitiesInFlight
<1>5. CASE SaveSentFails(c)
  <2>1. \A d \in Callers : FineCall(call'[d], OnChain')
    BY <1>5, AttemptFailedFine DEF SaveSentFails
  <2>2. QED BY <1>5, <2>1, EverythingElseFine DEF SaveSentFails, EntitiesInFlight
<1>6. CASE SaveDoc(c)
  <2>1. FineRow(row', OnChain')
    BY <1>0, <1>6 DEF SaveDoc, FineRow
  <2>2. \A d \in Callers : FineCall(call'[d], OnChain')
    BY <1>6, ReturnFine DEF SaveDoc
  <2>3. QED BY <1>6, <2>1, <2>2, EverythingElseFine DEF SaveDoc, EntitiesInFlight
<1>7. CASE SaveFails(c)
  <2>1. \A d \in Callers : FineCall(call'[d], OnChain')
    BY <1>7, ReturnFine DEF SaveFails
  <2>2. QED BY <1>7, <2>1, EverythingElseFine DEF SaveFails, EntitiesInFlight
<1>8. CASE SaveReset(c)
  <2>1. FineRow(row', OnChain')
    BY <1>0, <1>8 DEF SaveReset, FineRow
  <2>2. NewRow.status = "pending"
    BY DEF NewRow
  <2>3. \A d \in Callers : FineCall(call'[d], OnChain')
    BY <1>8, <2>2, GotoFine DEF SaveReset
  <2>4. QED BY <1>8, <2>1, <2>3, EverythingElseFine DEF SaveReset, EntitiesInFlight
<1>9. CASE Resubmit(c)
  BY <1>9, SubmitFine DEF Resubmit
<1>10. QED
  BY <1>1, <1>2, <1>3, <1>4, <1>5, <1>6, <1>7, <1>8, <1>9 DEF CallStep

LEMMA UserFine ==
    ASSUME TypeOK, EntitiesInFlight, OnChain => OnChain', User
    PROVE  EntitiesInFlight'
<1>0. /\ row.status = "confirmed" => OnChain
      /\ row.status = "submitted" => row.signed
      /\ \A s : [row EXCEPT !.status = s].status = s
      /\ [row EXCEPT !.signed = TRUE].status = row.status
  BY DEF EntitiesInFlight, FineRow, TypeOK, Row
<1>1. ASSUME NEW c \in Callers, BeginSubmit(c) PROVE EntitiesInFlight'
  BY <1>1, SubmitFine DEF BeginSubmit
<1>2. ASSUME NEW c \in Callers, BeginSign(c) PROVE EntitiesInFlight'
  <2> DEFINE doc == [row EXCEPT !.signed = TRUE]
  <2>1. doc.status # "submitted" /\ (doc.status = "confirmed" => OnChain)
    BY <1>0, <1>2 DEF BeginSign
  <2>2. Goto(c, "sign", doc, 0)
    BY <1>2 DEF BeginSign
  <2> HIDE DEF doc
  <2>3. \A d \in Callers : FineCall(call'[d], OnChain')
    BY <2>1, <2>2, GotoFine
  <2>4. QED BY <1>2, <2>3, EverythingElseFine DEF BeginSign, EntitiesInFlight
<1>3. ASSUME NEW c \in Callers, BeginRetry(c) PROVE EntitiesInFlight'
  <2> DEFINE doc == [row EXCEPT !.status = "pending"]
  <2>1. doc.status = "pending"
    BY <1>0
  <2>2. Goto(c, "reset", doc, 0)
    BY <1>3 DEF BeginRetry
  <2> HIDE DEF doc
  <2>3. \A d \in Callers : FineCall(call'[d], OnChain')
    BY <2>1, <2>2, GotoFine
  <2>4. QED BY <1>3, <2>3, EverythingElseFine DEF BeginRetry, EntitiesInFlight
<1>4. ASSUME NEW c \in Callers, BeginCleanup(c) PROVE EntitiesInFlight'
  <2> DEFINE doc == [row EXCEPT !.status = "failed"]
  <2>1. doc.status = "failed"
    BY <1>0
  <2>2. Goto(c, "close", doc, 0)
    BY <1>4 DEF BeginCleanup
  <2> HIDE DEF doc
  <2>3. \A d \in Callers : FineCall(call'[d], OnChain')
    BY <2>1, <2>2, GotoFine
  <2>4. QED BY <1>4, <2>3, EverythingElseFine DEF BeginCleanup, EntitiesInFlight
<1>5. CASE Expire
  BY <1>5, EverythingElseFine DEF Expire, EntitiesInFlight
<1>6. CASE Crash
  BY <1>6, IdleIsFine, EverythingElseFine DEF Crash, EntitiesInFlight
<1>7. QED
  BY <1>1, <1>2, <1>3, <1>4, <1>5, <1>6 DEF User

LEMMA WatchStepFine ==
    ASSUME TypeOK, EntitiesInFlight, OnChain => OnChain', NEW m \in Monitors, WatchStep(m)
    PROVE  EntitiesInFlight'
<1>0. \A s : [row EXCEPT !.status = s].status = s
  BY DEF TypeOK, Row
<1>1. ASSUME NEW pc \in {"update", "giveup"}, NEW s \in {"confirmed", "failed"}, s = "confirmed" => OnChain,
             Watching(m, pc, [row EXCEPT !.status = s])
      PROVE  \A n \in Monitors : FineWatch(watch'[n], OnChain')
  <2> DEFINE doc == [row EXCEPT !.status = s]
             w   == [watch[m] EXCEPT !.pc = pc, !.doc = doc]
  <2>1. watch' = [watch EXCEPT ![m] = w]
    BY <1>1 DEF Watching, TypeOK, WatchState
  <2>2. w.doc.status = s /\ w.pc = pc
    BY <1>0, ZenonT(60) DEF TypeOK, WatchState
  <2>3. FineWatch(w, OnChain)
    BY <1>1, <2>2 DEF FineWatch
  <2> HIDE DEF w
  <2>4. QED BY <2>1, <2>3, WatchesStayFine
<1>2. CASE Receipt(m)
  <2>1. chain[watch[m].tx] = "succeeded" => OnChain
    <3>1. watch[m].tx \in Txs
      BY <1>2, RowTyped DEF Receipt, EntitiesInFlight, FineWatch
    <3>2. QED BY <3>1 DEF OnChain
  <2> DEFINE s == IF chain[watch[m].tx] = "succeeded" THEN "confirmed" ELSE "failed"
  <2>2. s \in {"confirmed", "failed"} /\ (s = "confirmed" => OnChain)
    BY <2>1
  <2>3. Watching(m, "update", [row EXCEPT !.status = s])
    BY <1>2 DEF Receipt
  <2> HIDE DEF s
  <2>4. \A n \in Monitors : FineWatch(watch'[n], OnChain')
    BY <1>1, <2>2, <2>3
  <2>5. QED BY <1>2, <2>4, EverythingElseFine DEF Receipt, EntitiesInFlight
<1>3. CASE WatchFails(m)
  <2>1. \A n \in Monitors : FineWatch(watch'[n], OnChain')
    BY <1>1, <1>3 DEF WatchFails
  <2>2. QED BY <1>3, <2>1, EverythingElseFine DEF WatchFails, EntitiesInFlight
<1>4. CASE SaveWatch(m)
  <2>1. FineRow(row', OnChain')
    BY <1>4 DEF SaveWatch, EntitiesInFlight, FineWatch, FineRow
  <2>2. \A n \in Monitors : FineWatch(watch'[n], OnChain')
    BY <1>4, IdleIsFine, WatchesStayFine DEF SaveWatch
  <2>3. QED BY <1>4, <2>1, <2>2, EverythingElseFine DEF SaveWatch, EntitiesInFlight
<1>5. CASE WatchVanishes(m)
  <2>1. \A n \in Monitors : FineWatch(watch'[n], OnChain')
    BY <1>5, IdleIsFine, WatchesStayFine DEF WatchVanishes
  <2>2. QED BY <1>5, <2>1, EverythingElseFine DEF WatchVanishes, EntitiesInFlight
<1>6. QED
  BY <1>2, <1>3, <1>4, <1>5 DEF WatchStep

LEMMA StepFine == TypeOK /\ EntitiesInFlight /\ [Next]_vars => EntitiesInFlight'
<1> SUFFICES ASSUME TypeOK, EntitiesInFlight, [Next]_vars PROVE EntitiesInFlight'
  OBVIOUS
<1>0. OnChain => OnChain'
  BY MinedForGood
<1>1. CASE User
  BY <1>0, <1>1, UserFine
<1>2. ASSUME NEW c \in Callers, CallStep(c) PROVE EntitiesInFlight'
  BY <1>0, <1>2, CallStepFine
<1>3. ASSUME NEW m \in Monitors, WatchStep(m) PROVE EntitiesInFlight'
  BY <1>0, <1>3, WatchStepFine
<1>4. ASSUME NEW tx \in Txs, Mine(tx) PROVE EntitiesInFlight'
  BY <1>0, <1>4, EverythingElseFine DEF Mine, EntitiesInFlight
<1>5. CASE UNCHANGED vars
  BY <1>0, <1>5, EverythingElseFine DEF vars, EntitiesInFlight
<1>6. QED
  BY <1>1, <1>2, <1>3, <1>4, <1>5 DEF Next

LEMMA InitFine == Init => EntitiesInFlight
BY IdleIsFine DEF Init, EntitiesInFlight, FineRow, NewRow

(* Whatever the interleaving and the faults, a payload shown as confirmed  *)
(* has a transaction that succeeded on the chain. *)
THEOREM ConfirmationsAreTrue == Spec => []ConfirmedIsTrue
<1>1. EntitiesInFlight => ConfirmedIsTrue
  BY DEF EntitiesInFlight, FineRow, ConfirmedIsTrue, OnChain
<1>2. QED BY <1>1, InitFine, StepFine, TypeCorrect, PTL DEF Spec

-----------------------------------------------------------------------------
(* Who watches a submitted payload *)

Watched == \E m \in Monitors : watch[m].pc # "idle" /\ watch[m].tx = row.hash

(* A monitor that goes on watching keeps the payload watched. *)
LEMMA StillWatched ==
    ASSUME TypeOK, Watched, UNCHANGED row,
           \A m \in Monitors : watch[m].pc # "idle" =>
               watch'[m].pc # "idle" /\ watch'[m].tx = watch[m].tx
    PROVE  Watched'
BY DEF Watched

LEMMA StartWatchWatches ==
    ASSUME TypeOK, NEW tx, StartWatch(tx)
    PROVE  /\ \E m \in Monitors : watch'[m].pc # "idle" /\ watch'[m].tx = tx
           /\ \A m \in Monitors : watch[m].pc # "idle" =>
                 watch'[m].pc # "idle" /\ watch'[m].tx = watch[m].tx
<1>1. PICK m \in Monitors :
        /\ watch[m] = NoWatch
        /\ watch' = [watch EXCEPT ![m] = [NoWatch EXCEPT !.pc = "wait", !.tx = tx]]
  BY DEF StartWatch
<1>2. watch'[m].pc = "wait" /\ watch'[m].tx = tx
  BY <1>1 DEF TypeOK, NoWatch
<1>3. watch[m].pc = "idle"
  BY <1>1 DEF NoWatch
<1>4. \A n \in Monitors \ {m} : watch'[n] = watch[n]
  BY <1>1 DEF TypeOK
<1>5. QED BY <1>2, <1>3, <1>4

LEMMA SubmitWatched ==
    ASSUME TypeOK, SubmittedIsWatched, NEW c \in Callers, Submit(c)
    PROVE  SubmittedIsWatched'
<1>1. UNCHANGED <<row, unwatched>>
  BY DEF Submit
<1>2. CASE UNCHANGED watch
  BY <1>1, <1>2 DEF SubmittedIsWatched
<1>3. CASE StartWatch(row.hash)
  BY <1>1, <1>3, StartWatchWatches DEF SubmittedIsWatched
<1>4. QED BY <1>2, <1>3 DEF Submit

LEMMA StepWatched ==
    TypeOK /\ EntitiesInFlight /\ SubmittedIsWatched /\ [Next]_vars => SubmittedIsWatched'
<1> SUFFICES ASSUME TypeOK, EntitiesInFlight, SubmittedIsWatched, [Next]_vars
             PROVE  SubmittedIsWatched'
  OBVIOUS
<1>1. CASE UNCHANGED <<row, watch, unwatched>>
  BY <1>1 DEF SubmittedIsWatched
<1>2. CASE User
  <2>1. ASSUME NEW c \in Callers, BeginSubmit(c) PROVE SubmittedIsWatched'
    BY <2>1, SubmitWatched DEF BeginSubmit
  <2>2. CASE Crash
    BY <2>2 DEF Crash, SubmittedIsWatched
  <2>3. QED
    BY <1>1, <1>2, <2>1, <2>2 DEF User, BeginSign, BeginRetry, BeginCleanup, Expire
<1>3. ASSUME NEW c \in Callers, CallStep(c) PROVE SubmittedIsWatched'
  <2>1. CASE SaveSent(c)
    BY <2>1, StartWatchWatches DEF SaveSent, SubmittedIsWatched
  <2>2. CASE SaveDoc(c) \/ SaveReset(c)
    <3>1. call[c].doc.status # "submitted"
      BY <2>2 DEF SaveDoc, SaveReset, EntitiesInFlight, FineCall
    <3>2. QED BY <2>2, <3>1 DEF SaveDoc, SaveReset, SubmittedIsWatched
  <2>3. CASE Resubmit(c)
    BY <2>3, SubmitWatched DEF Resubmit
  <2>4. QED
    BY <1>1, <1>3, <2>1, <2>2, <2>3
       DEF CallStep, Send, SendFails, SendLost, SaveSentFails, SaveFails
<1>4. ASSUME NEW m \in Monitors, WatchStep(m) PROVE SubmittedIsWatched'
  <2>1. CASE Receipt(m) \/ WatchFails(m)
    <3>1. \E pc \in {"update", "giveup"} : \E doc : Watching(m, pc, doc)
      BY <2>1 DEF Receipt, WatchFails
    <3>2. \A n \in Monitors : watch[n].pc # "idle" =>
             watch'[n].pc # "idle" /\ watch'[n].tx = watch[n].tx
      BY <3>1 DEF Watching, TypeOK, WatchState
    <3>3. QED
      BY <2>1, <3>2, StillWatched DEF Receipt, WatchFails, SubmittedIsWatched, Watched
  <2>2. CASE SaveWatch(m)
    BY <2>2 DEF SaveWatch, EntitiesInFlight, FineWatch, SubmittedIsWatched
  <2>3. CASE WatchVanishes(m)
    BY <2>3 DEF WatchVanishes, SubmittedIsWatched
  <2>4. QED BY <1>4, <2>1, <2>2, <2>3 DEF WatchStep
<1>5. ASSUME NEW tx \in Txs, Mine(tx) PROVE SubmittedIsWatched'
  BY <1>1, <1>5 DEF Mine
<1>6. CASE UNCHANGED vars
  BY <1>1, <1>6 DEF vars
<1>7. QED
  BY <1>2, <1>3, <1>4, <1>5, <1>6 DEF Next

(* Whatever the interleaving, a payload shown as submitted has a monitor   *)
(* on its transaction, until a monitor vanishes in a crash or because the  *)
(* save of its catch block fails. *)
THEOREM SubmittedPayloadsAreWatched == Spec => []SubmittedIsWatched
<1>1. Init => SubmittedIsWatched
  BY DEF Init, NewRow, SubmittedIsWatched
<1>2. QED BY <1>1, InitFine, StepFine, StepWatched, TypeCorrect, PTL DEF Spec

-----------------------------------------------------------------------------
(* One call at a time, no retry and no fault *)

Quiet == \A c \in Callers : ~Busy(c)

Unsent == \A t \in Txs : chain[t] = "unsent"

(* The status of r is what became of t. *)
Told(r, t) ==
    \/ chain[t] = "succeeded" /\ r.status = "confirmed"
    \/ chain[t] = "reverted" /\ r.status = "failed"

Carries(r, t) == r.hash = t /\ r.signed /\ (r.status = "submitted" \/ Told(r, t))

Alone ==
    /\ ~unwatched
    /\ \A c \in Callers : call[c].pc \notin {"reset", "resubmit"}
    /\ \A c, d \in Callers : Busy(c) /\ Busy(d) => c = d
    /\ \A m \in Monitors : watch[m].pc # "giveup"

(* Before the broadcast nobody watches, and what a call may save is not    *)
(* the outcome of a transaction. *)
BeforeTheBroadcast ==
    /\ Unsent => /\ row.status \in {"pending", "failed"}
                 /\ \A m \in Monitors : watch[m].pc = "idle"
    /\ \A c \in Callers :
          /\ call[c].pc \in {"send", "close", "sign"} => Unsent
          /\ call[c].pc \in {"close", "sign"} => call[c].doc.status \in {"pending", "failed"}

(* Between the broadcast and its save the transaction is in the entity of  *)
(* the call only. *)
BeforeItsSave ==
    \A c \in Callers : call[c].pc = "save" =>
        /\ call[c].doc.status = "submitted"
        /\ chain[call[c].doc.hash] # "unsent"
        /\ \A m \in Monitors : watch[m].pc = "idle"

(* From then on the row and the entities of the monitors tell of it. *)
AfterTheSave ==
    /\ Quiet => \A t \in Txs : chain[t] # "unsent" => Carries(row, t)
    /\ \A m \in Monitors :
          /\ watch[m].pc # "idle" => watch[m].tx \in Txs /\ chain[watch[m].tx] # "unsent"
          /\ watch[m].pc = "update" =>
                watch[m].doc.hash = watch[m].tx /\ watch[m].doc.signed
                    /\ Told(watch[m].doc, watch[m].tx)

OneTransaction == \A t, u \in Txs : chain[t] # "unsent" /\ chain[u] # "unsent" => t = u

Serial == Alone /\ BeforeTheBroadcast /\ BeforeItsSave /\ AfterTheSave /\ OneTransaction

SerialInv == ~disturbed => Serial

(* While a monitor is at work no call is. *)
LEMMA WatchedIsQuiet ==
    ASSUME TypeOK, EntitiesInFlight, Serial, NEW m \in Monitors, watch[m].pc # "idle"
    PROVE  /\ Quiet
           /\ watch[m].tx \in Txs
           /\ Carries(row, watch[m].tx)
<1>1. watch[m].tx \in Txs /\ chain[watch[m].tx] # "unsent"
  BY DEF Serial, AfterTheSave
<1>2. Quiet
  <2> SUFFICES ASSUME NEW c \in Callers PROVE call[c].pc = "idle"
    BY DEF Quiet, Busy
  <2>1. call[c].pc \in {"idle", "send", "save", "close", "sign", "reset", "resubmit"}
    BY DEF TypeOK, CallState
  <2>2. call[c].pc \notin {"send", "close", "sign"}
    BY <1>1 DEF Serial, BeforeTheBroadcast, Unsent
  <2>3. call[c].pc # "save"
    BY DEF Serial, BeforeItsSave
  <2>4. QED BY <2>1, <2>2, <2>3 DEF Serial, Alone
<1>3. QED BY <1>1, <1>2 DEF Serial, AfterTheSave

(* A call that goes on, alone, keeps the others idle. *)
LEMMA GotoAlone ==
    ASSUME TypeOK, NEW c \in Callers, NEW pc, NEW doc, NEW n, Goto(c, pc, doc, n),
           \A d \in Callers \ {c} : ~Busy(d)
    PROVE  /\ call'[c] = [pc |-> pc, doc |-> doc, attempt |-> n]
           /\ \A d \in Callers \ {c} : call'[d].pc = "idle"
BY DEF Goto, TypeOK, Busy

LEMMA ReturnQuiet ==
    ASSUME TypeOK, NEW c \in Callers, Return(c), \A d \in Callers \ {c} : ~Busy(d)
    PROVE  \A d \in Callers : call'[d].pc = "idle"
BY DEF Return, Idle, TypeOK, Busy

(* A step of one call before the broadcast: it goes on to one of the       *)
(* actions that may follow, nothing else changes. *)
LEMMA GoesOnBefore ==
    ASSUME TypeOK, Serial, Unsent, NEW c \in Callers, \A d \in Callers \ {c} : ~Busy(d),
           NEW pc \in {"send", "close", "sign"}, NEW doc, NEW n, Goto(c, pc, doc, n),
           pc \in {"close", "sign"} => doc.status \in {"pending", "failed"},
           UNCHANGED <<row, chain, watch, unwatched>>
    PROVE  Serial'
<1>1. /\ call'[c] = [pc |-> pc, doc |-> doc, attempt |-> n]
      /\ \A d \in Callers \ {c} : call'[d].pc = "idle"
  BY GotoAlone
<1>2. call'[c].pc = pc /\ call'[c].doc = doc
  BY <1>1
<1>3. Alone'
  BY <1>1, <1>2 DEF Alone, Busy, Serial
<1>4. BeforeTheBroadcast'
  BY <1>1, <1>2 DEF BeforeTheBroadcast, Unsent, Serial
<1>5. BeforeItsSave'
  BY <1>1, <1>2 DEF BeforeItsSave
<1>6. AfterTheSave'
  BY DEF AfterTheSave, Serial, BeforeTheBroadcast, Unsent
<1>7. OneTransaction'
  BY DEF OneTransaction, Serial
<1>8. QED BY <1>3, <1>4, <1>5, <1>6, <1>7 DEF Serial

(* submitPayload, called when no other call runs. *)
LEMMA SubmitSerial ==
    ASSUME TypeOK, EntitiesInFlight, Serial, Quiet, NEW c \in Callers, Submit(c)
    PROVE  Serial'
<1>1. UNCHANGED <<row, chain, unwatched>> /\ \A d \in Callers \ {c} : ~Busy(d)
  BY DEF Submit, Quiet
<1>2. CASE /\ row.status = "submitted" /\ row.hash # NoTx
           /\ StartWatch(row.hash)
           /\ Return(c)
  <2>1. \A d \in Callers : call'[d].pc = "idle"
    BY <1>1, <1>2, ReturnQuiet
  <2>2. row.hash \in Txs /\ chain[row.hash] # "unsent" /\ ~Unsent
    BY <1>2 DEF Serial, BeforeTheBroadcast, AfterTheSave, Unsent, Carries
  <2>3. PICK m \in Monitors :
          /\ watch[m] = NoWatch
          /\ watch' = [watch EXCEPT ![m] = [NoWatch EXCEPT !.pc = "wait", !.tx = row.hash]]
    BY <1>2 DEF StartWatch
  <2>4. watch'[m].pc = "wait" /\ watch'[m].tx = row.hash
    BY <2>3 DEF TypeOK, NoWatch
  <2>5. \A n \in Monitors \ {m} : watch'[n] = watch[n]
    BY <2>3 DEF TypeOK
  <2>6. Alone'
    BY <1>1, <2>1, <2>4, <2>5 DEF Alone, Busy, Serial
  <2>7. BeforeTheBroadcast' /\ BeforeItsSave'
    BY <1>1, <2>1, <2>2 DEF BeforeTheBroadcast, BeforeItsSave, Unsent
  <2>8. AfterTheSave'
    <3>1. (Quiet => \A t \in Txs : chain[t] # "unsent" => Carries(row, t))'
      BY <1>1 DEF Serial, AfterTheSave, Carries, Told
    <3>2. ASSUME NEW n \in Monitors
          PROVE  (/\ watch[n].pc # "idle" => watch[n].tx \in Txs /\ chain[watch[n].tx] # "unsent"
                  /\ watch[n].pc = "update" =>
                        watch[n].doc.hash = watch[n].tx /\ watch[n].doc.signed
                            /\ Told(watch[n].doc, watch[n].tx))'
      BY <1>1, <2>2, <2>4, <2>5 DEF Serial, AfterTheSave, Told
    <3>3. QED BY <3>1, <3>2 DEF AfterTheSave
  <2>9. OneTransaction'
    BY <1>1 DEF OneTransaction, Serial
  <2>10. QED BY <2>6, <2>7, <2>8, <2>9 DEF Serial
<1>3. CASE Return(c) /\ UNCHANGED watch
  <2>1. \A d \in Callers : call'[d].pc = "idle"
    BY <1>1, <1>3, ReturnQuiet
  <2>2. Alone' /\ BeforeTheBroadcast' /\ BeforeItsSave'
    BY <1>1, <1>3, <2>1 DEF Alone, BeforeTheBroadcast, BeforeItsSave, Unsent, Busy, Serial
  <2>3. AfterTheSave' /\ OneTransaction'
    BY <1>1, <1>3 DEF AfterTheSave, OneTransaction, Serial, Carries, Told
  <2>4. QED BY <2>2, <2>3 DEF Serial
<1>4. CASE /\ row.status = "pending"
           /\ IF expired THEN Goto(c, "close", [row EXCEPT !.status = "failed"], 0)
              ELSE Goto(c, "send", row, 1)
           /\ UNCHANGED watch
  <2>1. Unsent
    BY <1>4 DEF Serial, AfterTheSave, Unsent, Carries, Told
  <2>2. [row EXCEPT !.status = "failed"].status = "failed"
    BY DEF TypeOK, Row
  <2>3. CASE expired
    BY <1>1, <1>4, <2>1, <2>2, <2>3, GoesOnBefore
  <2>4. CASE ~expired
    BY <1>1, <1>4, <2>1, <2>4, GoesOnBefore
  <2>5. QED BY <2>3, <2>4
<1>5. QED BY <1>2, <1>3, <1>4 DEF Submit

LEMMA SendSerial ==
    ASSUME TypeOK, EntitiesInFlight, Serial, NEW c \in Callers, Send(c)
    PROVE  Serial'
<1>1. \A d \in Callers \ {c} : ~Busy(d)
  BY DEF Send, Serial, Alone, Busy
<1>2. Unsent /\ \A m \in Monitors : watch[m].pc = "idle"
  BY DEF Send, Serial, BeforeTheBroadcast
<1>3. PICK tx \in Txs :
        /\ Broadcast(tx)
        /\ Goto(c, "save", [call[c].doc EXCEPT !.hash = tx, !.status = "submitted",
                                               !.attempts = call[c].attempt],
                call[c].attempt)
  BY DEF Send
<1>4. PICK doc : /\ Goto(c, "save", doc, call[c].attempt)
                 /\ doc.hash = tx /\ doc.status = "submitted"
  <2>1. call[c].doc \in Row
    BY RowTyped
  <2> DEFINE d == [call[c].doc EXCEPT !.hash = tx, !.status = "submitted",
                                      !.attempts = call[c].attempt]
  <2>2. d.hash = tx /\ d.status = "submitted"
    BY <2>1 DEF Row
  <2>3. Goto(c, "save", d, call[c].attempt)
    BY <1>3
  <2> HIDE DEF d
  <2>4. QED BY <2>2, <2>3
<1>5. /\ call'[c] = [pc |-> "save", doc |-> doc, attempt |-> call[c].attempt]
      /\ \A d \in Callers \ {c} : call'[d].pc = "idle"
  BY <1>1, <1>4, GotoAlone
<1>6. call'[c].pc = "save" /\ call'[c].doc = doc
  BY <1>5
<1>7. chain'[tx] = "pending" /\ \A t \in Txs \ {tx} : chain'[t] = "unsent"
  BY <1>2, <1>3 DEF Broadcast, TypeOK, Unsent
<1>8. UNCHANGED <<row, watch, unwatched>>
  BY DEF Send
<1>9. Alone'
  BY <1>5, <1>6, <1>8 DEF Alone, Busy, Serial
<1>10. BeforeTheBroadcast'
  BY <1>5, <1>6, <1>7 DEF BeforeTheBroadcast, Unsent
<1>11. BeforeItsSave'
  BY <1>2, <1>4, <1>5, <1>6, <1>7, <1>8 DEF BeforeItsSave
<1>12. AfterTheSave'
  BY <1>2, <1>6, <1>8 DEF AfterTheSave, Quiet, Busy
<1>13. OneTransaction'
  BY <1>7 DEF OneTransaction
<1>14. QED BY <1>9, <1>10, <1>11, <1>12, <1>13 DEF Serial

LEMMA SendFailsSerial ==
    ASSUME TypeOK, Serial, NEW c \in Callers, SendFails(c)
    PROVE  Serial'
<1>1. Unsent /\ UNCHANGED <<row, chain, watch, unwatched>>
  BY DEF SendFails, Serial, BeforeTheBroadcast
<1>2. \A d \in Callers \ {c} : ~Busy(d)
  BY DEF SendFails, Serial, Alone, Busy
<1>3. PICK permanent \in BOOLEAN : AttemptFailed(c, call[c].doc, permanent)
  BY DEF SendFails
<1> DEFINE tried == [call[c].doc EXCEPT !.attempts = call[c].attempt]
<1>4. tried \in Row
  BY RowTyped DEF Row
<1>5. [tried EXCEPT !.status = "failed"].status = "failed"
  BY <1>4 DEF Row
<1>6. \/ Goto(c, "close", [tried EXCEPT !.status = "failed"], 0)
      \/ Goto(c, "send", tried, call[c].attempt + 1)
  BY <1>3 DEF AttemptFailed
<1> HIDE DEF tried
<1>7. CASE Goto(c, "close", [tried EXCEPT !.status = "failed"], 0)
  BY <1>1, <1>2, <1>5, <1>7, GoesOnBefore
<1>8. CASE Goto(c, "send", tried, call[c].attempt + 1)
  BY <1>1, <1>2, <1>8, GoesOnBefore
<1>9. QED BY <1>6, <1>7, <1>8

LEMMA SaveSentSerial ==
    ASSUME TypeOK, EntitiesInFlight, Serial, NEW c \in Callers, SaveSent(c)
    PROVE  Serial'
<1>1. \A d \in Callers \ {c} : ~Busy(d)
  BY DEF SaveSent, Serial, Alone, Busy
<1>2. UNCHANGED <<chain, unwatched>> /\ row' = call[c].doc
  BY DEF SaveSent
<1>3. /\ row'.status = "submitted" /\ row'.signed
      /\ row'.hash \in Txs /\ chain[row'.hash] # "unsent"
      /\ \A m \in Monitors : watch[m].pc = "idle"
  <2>1. call[c].doc \in Row
    BY RowTyped
  <2>2. QED BY <1>2, <2>1 DEF SaveSent, Serial, BeforeItsSave, EntitiesInFlight, FineCall, Row
<1>4. \A d \in Callers : call'[d].pc = "idle"
  BY <1>1, ReturnQuiet DEF SaveSent
<1>5. PICK m \in Monitors :
        /\ watch[m] = NoWatch
        /\ watch' = [watch EXCEPT ![m] = [NoWatch EXCEPT !.pc = "wait", !.tx = row'.hash]]
  BY <1>2 DEF SaveSent, StartWatch
<1>6. watch'[m].pc = "wait" /\ watch'[m].tx = row'.hash
  BY <1>5 DEF TypeOK, NoWatch
<1>7. \A n \in Monitors \ {m} : watch'[n] = watch[n]
  BY <1>5 DEF TypeOK
<1>8. Alone'
  BY <1>2, <1>3, <1>4, <1>6, <1>7 DEF Alone, Busy, Serial
<1>9. BeforeTheBroadcast' /\ BeforeItsSave'
  BY <1>2, <1>3, <1>4 DEF BeforeTheBroadcast, BeforeItsSave, Unsent
<1>10. AfterTheSave'
  <2>1. (Quiet => \A t \in Txs : chain[t] # "unsent" => Carries(row, t))'
    BY <1>2, <1>3 DEF Serial, OneTransaction, Carries
  <2>2. ASSUME NEW n \in Monitors
        PROVE  (/\ watch[n].pc # "idle" => watch[n].tx \in Txs /\ chain[watch[n].tx] # "unsent"
                /\ watch[n].pc = "update" =>
                      watch[n].doc.hash = watch[n].tx /\ watch[n].doc.signed
                          /\ Told(watch[n].doc, watch[n].tx))'
    BY <1>2, <1>3, <1>6, <1>7
  <2>3. QED BY <2>1, <2>2 DEF AfterTheSave
<1>11. OneTransaction'
  BY <1>2 DEF OneTransaction, Serial
<1>12. QED BY <1>8, <1>9, <1>10, <1>11 DEF Serial

LEMMA SaveDocSerial ==
    ASSUME TypeOK, Serial, NEW c \in Callers, SaveDoc(c)
    PROVE  Serial'
<1>1. \A d \in Callers \ {c} : ~Busy(d)
  BY DEF SaveDoc, Serial, Alone, Busy
<1>2. UNCHANGED <<chain, watch, unwatched>> /\ row' = call[c].doc
  BY DEF SaveDoc
<1>3. Unsent /\ row'.status \in {"pending", "failed"}
  BY <1>2 DEF SaveDoc, Serial, BeforeTheBroadcast
<1>4. \A d \in Callers : call'[d].pc = "idle"
  BY <1>1, ReturnQuiet DEF SaveDoc
<1>5. Alone' /\ BeforeTheBroadcast' /\ BeforeItsSave'
  BY <1>2, <1>3, <1>4 DEF Alone, BeforeTheBroadcast, BeforeItsSave, Busy, Unsent, Serial
<1>6. AfterTheSave' /\ OneTransaction'
  BY <1>2, <1>3 DEF AfterTheSave, OneTransaction, Serial, BeforeTheBroadcast, Unsent
<1>7. QED BY <1>5, <1>6 DEF Serial

LEMMA CallStepSerial ==
    ASSUME TypeOK, EntitiesInFlight, SerialInv, NEW c \in Callers, CallStep(c)
    PROVE  SerialInv'
<1> SUFFICES ASSUME ~disturbed' PROVE Serial'
  BY DEF SerialInv
<1>1. CASE Send(c)
  BY <1>1, SendSerial DEF Send, SerialInv
<1>2. CASE SendFails(c)
  BY <1>2, SendFailsSerial DEF SendFails, SerialInv
<1>3. CASE SaveSent(c)
  BY <1>3, SaveSentSerial DEF SaveSent, SerialInv
<1>4. CASE SaveDoc(c)
  BY <1>4, SaveDocSerial DEF SaveDoc, SerialInv
<1>5. CASE SaveReset(c) \/ Resubmit(c)
  BY <1>5 DEF SaveReset, Resubmit, SerialInv, Serial, Alone
<1>6. CASE SendLost(c) \/ SaveSentFails(c) \/ SaveFails(c)
  BY <1>6 DEF SendLost, SaveSentFails, SaveFails
<1>7. QED BY <1>1, <1>2, <1>3, <1>4, <1>5, <1>6 DEF CallStep

LEMMA UserSerial ==
    ASSUME TypeOK, EntitiesInFlight, SerialInv, User
    PROVE  SerialInv'
<1> SUFFICES ASSUME ~disturbed' PROVE Serial'
  BY DEF SerialInv
<1>1. ASSUME NEW c \in Callers, BeginSubmit(c) PROVE Serial'
  <2>1. Serial /\ Quiet
    BY <1>1 DEF BeginSubmit, SerialInv, Overlaps, Quiet
  <2>2. QED BY <1>1, <2>1, SubmitSerial DEF BeginSubmit
<1>2. ASSUME NEW c \in Callers, BeginSign(c) PROVE Serial'
  <2>1. Serial /\ Quiet
    BY <1>2 DEF BeginSign, SerialInv, Overlaps, Quiet
  <2>2. Unsent
    BY <1>2, <2>1 DEF BeginSign, Serial, AfterTheSave, Unsent, Carries
  <2>3. [row EXCEPT !.signed = TRUE].status \in {"pending", "failed"}
    BY <2>1, <2>2 DEF TypeOK, Row, Serial, BeforeTheBroadcast
  <2>4. \A d \in Callers \ {c} : ~Busy(d)
    BY <2>1 DEF Quiet
  <2>5. /\ Goto(c, "sign", [row EXCEPT !.signed = TRUE], 0)
        /\ UNCHANGED <<row, chain, watch, unwatched>>
    BY <1>2 DEF BeginSign
  <2>6. QED BY <2>1, <2>2, <2>3, <2>4, <2>5, GoesOnBefore
<1>3. ASSUME NEW c \in Callers, BeginCleanup(c) PROVE Serial'
  <2>1. Serial /\ Quiet
    BY <1>3 DEF BeginCleanup, SerialInv, Overlaps, Quiet
  <2>2. Unsent
    BY <1>3, <2>1 DEF BeginCleanup, Serial, AfterTheSave, Unsent, Carries, Told
  <2>3. [row EXCEPT !.status = "failed"].status = "failed"
    BY DEF TypeOK, Row
  <2>4. \A d \in Callers \ {c} : ~Busy(d)
    BY <2>1 DEF Quiet
  <2>5. /\ Goto(c, "close", [row EXCEPT !.status = "failed"], 0)
        /\ UNCHANGED <<row, chain, watch, unwatched>>
    BY <1>3 DEF BeginCleanup
  <2>6. QED BY <2>1, <2>2, <2>3, <2>4, <2>5, GoesOnBefore
<1>4. ASSUME NEW c \in Callers, BeginRetry(c) PROVE FALSE
  BY <1>4 DEF BeginRetry
<1>5. CASE Crash
  BY <1>5 DEF Crash
<1>6. CASE Expire
  BY <1>6 DEF Expire, SerialInv, Serial, Alone, BeforeTheBroadcast, BeforeItsSave,
              AfterTheSave, OneTransaction, Quiet, Busy, Unsent, Carries, Told
<1>7. QED BY <1>1, <1>2, <1>3, <1>4, <1>5, <1>6 DEF User

LEMMA ReceiptSerial ==
    ASSUME TypeOK, EntitiesInFlight, Serial, NEW m \in Monitors, Receipt(m)
    PROVE  Serial'
<1>1. Quiet /\ watch[m].tx \in Txs /\ Carries(row, watch[m].tx)
  BY WatchedIsQuiet DEF Receipt
<1>2. UNCHANGED <<row, chain, call, unwatched>>
  BY DEF Receipt
<1> DEFINE doc == [row EXCEPT !.status =
                     IF chain[watch[m].tx] = "succeeded" THEN "confirmed" ELSE "failed"]
<1>3. doc.hash = watch[m].tx /\ doc.signed /\ Told(doc, watch[m].tx)
  BY <1>1 DEF Receipt, TypeOK, Row, Carries, Told
<1>4. watch' = [watch EXCEPT ![m].pc = "update", ![m].doc = doc]
  BY DEF Receipt, Watching
<1> HIDE DEF doc
<1>5. watch'[m].pc = "update" /\ watch'[m].tx = watch[m].tx /\ watch'[m].doc = doc
  BY <1>4 DEF TypeOK, WatchState
<1>6. \A n \in Monitors \ {m} : watch'[n] = watch[n]
  BY <1>4 DEF TypeOK
<1>7. chain[watch[m].tx] # "unsent" /\ ~Unsent
  BY <1>1 DEF Receipt, Unsent
<1>8. Alone'
  BY <1>2, <1>5, <1>6 DEF Alone, Busy, Serial
<1>9. BeforeTheBroadcast' /\ BeforeItsSave'
  BY <1>1, <1>2, <1>7 DEF BeforeTheBroadcast, BeforeItsSave, Unsent, Quiet, Busy
<1>10. AfterTheSave'
  <2>1. (Quiet => \A t \in Txs : chain[t] # "unsent" => Carries(row, t))'
    BY <1>1, <1>2 DEF Serial, AfterTheSave, Carries, Told
  <2>2. ASSUME NEW n \in Monitors
        PROVE  (/\ watch[n].pc # "idle" => watch[n].tx \in Txs /\ chain[watch[n].tx] # "unsent"
                /\ watch[n].pc = "update" =>
                      watch[n].doc.hash = watch[n].tx /\ watch[n].doc.signed
                          /\ Told(watch[n].doc, watch[n].tx))'
    BY <1>1, <1>2, <1>3, <1>5, <1>6, <1>7 DEF Serial, AfterTheSave, Told
  <2>3. QED BY <2>1, <2>2 DEF AfterTheSave
<1>11. OneTransaction'
  BY <1>2 DEF OneTransaction, Serial
<1>12. QED BY <1>8, <1>9, <1>10, <1>11 DEF Serial

LEMMA SaveWatchSerial ==
    ASSUME TypeOK, EntitiesInFlight, Serial, NEW m \in Monitors, SaveWatch(m)
    PROVE  Serial'
<1>1. Quiet /\ watch[m].tx \in Txs /\ chain[watch[m].tx] # "unsent"
  BY WatchedIsQuiet DEF SaveWatch, Serial, AfterTheSave
<1>2. UNCHANGED <<chain, call, unwatched>> /\ row' = watch[m].doc
  BY DEF SaveWatch
<1>3. Carries(row', watch[m].tx)
  BY <1>2 DEF SaveWatch, Serial, Alone, AfterTheSave, Carries
<1>4. watch'[m].pc = "idle" /\ \A n \in Monitors \ {m} : watch'[n] = watch[n]
  BY DEF SaveWatch, TypeOK, NoWatch
<1>5. Alone'
  BY <1>2, <1>4 DEF Alone, Busy, Serial
<1>6. BeforeTheBroadcast' /\ BeforeItsSave'
  BY <1>1, <1>2 DEF BeforeTheBroadcast, BeforeItsSave, Unsent, Quiet, Busy
<1>7. AfterTheSave'
  <2>1. (Quiet => \A t \in Txs : chain[t] # "unsent" => Carries(row, t))'
    BY <1>1, <1>2, <1>3 DEF Serial, OneTransaction, Carries, Told
  <2>2. ASSUME NEW n \in Monitors
        PROVE  (/\ watch[n].pc # "idle" => watch[n].tx \in Txs /\ chain[watch[n].tx] # "unsent"
                /\ watch[n].pc = "update" =>
                      watch[n].doc.hash = watch[n].tx /\ watch[n].doc.signed
                          /\ Told(watch[n].doc, watch[n].tx))'
    BY <1>2, <1>4 DEF Serial, AfterTheSave, Told
  <2>3. QED BY <2>1, <2>2 DEF AfterTheSave
<1>8. OneTransaction'
  BY <1>2 DEF OneTransaction, Serial
<1>9. QED BY <1>5, <1>6, <1>7, <1>8 DEF Serial

(* Mining changes a pending transaction: what was told stays told. *)
LEMMA MineSerial ==
    ASSUME TypeOK, EntitiesInFlight, Serial, NEW tx \in Txs, Mine(tx)
    PROVE  Serial'
<1>1. UNCHANGED <<row, call, watch, unwatched>>
  BY DEF Mine
<1>2. \A t \in Txs : /\ chain[t] # "unsent" <=> chain'[t] # "unsent"
                     /\ chain[t] \in {"succeeded", "reverted"} => chain'[t] = chain[t]
  BY DEF Mine, TypeOK
<1>3. \A r : \A t \in Txs : Told(r, t) => Told(r, t)'
  BY <1>2 DEF Told
<1>4. Alone'
  BY <1>1 DEF Alone, Busy, Serial
<1>5. BeforeTheBroadcast'
  BY <1>1, <1>2 DEF BeforeTheBroadcast, Unsent, Serial
<1>6. BeforeItsSave'
  <2>1. \A c \in Callers : call[c].pc = "save" => call[c].doc.hash \in Txs
    BY RowTyped DEF EntitiesInFlight, FineCall, Row
  <2>2. QED BY <1>1, <1>2, <2>1 DEF BeforeItsSave, Serial
<1>7. AfterTheSave'
  BY <1>1, <1>2, <1>3 DEF Serial, AfterTheSave, Quiet, Busy, Carries
<1>8. OneTransaction'
  BY <1>2 DEF OneTransaction, Serial
<1>9. QED BY <1>4, <1>5, <1>6, <1>7, <1>8 DEF Serial

LEMMA StepSerial == TypeOK /\ EntitiesInFlight /\ SerialInv /\ [Next]_vars => SerialInv'
<1> SUFFICES ASSUME TypeOK, EntitiesInFlight, SerialInv, [Next]_vars
             PROVE  SerialInv'
  OBVIOUS
<1>1. ASSUME NEW m \in Monitors, WatchStep(m) PROVE SerialInv'
  <2>1. CASE Receipt(m)
    BY <2>1, ReceiptSerial DEF Receipt, SerialInv
  <2>2. CASE SaveWatch(m)
    BY <2>2, SaveWatchSerial DEF SaveWatch, SerialInv
  <2>3. CASE WatchFails(m)
    BY <2>3 DEF WatchFails, SerialInv
  <2>4. CASE WatchVanishes(m)
    BY <2>4 DEF WatchVanishes, SerialInv, Serial, Alone
  <2>5. QED BY <1>1, <2>1, <2>2, <2>3, <2>4 DEF WatchStep
<1>2. ASSUME NEW tx \in Txs, Mine(tx) PROVE SerialInv'
  BY <1>2, MineSerial DEF Mine, SerialInv
<1>3. CASE UNCHANGED vars
  BY <1>3 DEF vars, SerialInv, Serial, Alone, BeforeTheBroadcast, BeforeItsSave,
              AfterTheSave, OneTransaction, Quiet, Busy, Unsent, Carries, Told
<1>4. QED BY <1>1, <1>2, <1>3, UserSerial, CallStepSerial DEF Next

(* Used by one caller at a time, without retries and faults, a payload is  *)
(* broadcast at most once, and once its call and its monitors are done its *)
(* row tells what became of its transaction. *)
THEOREM SerialSubmissionIsExact == Spec => []SerialUseIsExact
<1>1. Init => SerialInv
  BY DEF Init, SerialInv, Serial, Alone, BeforeTheBroadcast, BeforeItsSave, AfterTheSave,
         OneTransaction, Quiet, Busy, Unsent, Idle, NoWatch, NewRow
<1>2. TypeOK /\ SubmittedIsWatched /\ SerialInv => SerialUseIsExact
  <2> SUFFICES ASSUME TypeOK, SubmittedIsWatched, SerialInv, ~disturbed, AtRest,
                      NEW t \in Txs, chain[t] # "unsent"
               PROVE  /\ row.hash = t
                      /\ row.status = IF chain[t] = "succeeded" THEN "confirmed" ELSE "failed"
    BY DEF SerialUseIsExact, SerialInv, Serial, OneTransaction
  <2>1. Quiet /\ ~unwatched /\ Carries(row, t)
    BY DEF AtRest, Quiet, SerialInv, Serial, Alone, AfterTheSave
  <2>2. row.status # "submitted"
    BY <2>1 DEF AtRest, SubmittedIsWatched
  <2>3. QED BY <2>1, <2>2 DEF Carries, Told
<1>3. QED
  BY <1>1, <1>2, InitFine, StepFine, StepSerial, SubmittedPayloadsAreWatched, TypeCorrect, PTL
     DEF Spec

=============================================================================
