--------------------------- MODULE EventScheduler ---------------------------
(***************************************************************************)
(* EventSchedulerService                                                   *)
(* (src/src/scheduling/event-scheduler.service.ts): the monitor that       *)
(* starts and ends time-based events once a minute, and the calls that     *)
(* terminate, extend or pause them.                                        *)
(*                                                                         *)
(* The timer does not wait for the pass before, every pass works through   *)
(* lists it read earlier, and every save writes the whole row.  An action  *)
(* runs from one await to the next.  The rows of events and participations *)
(* come from outside: the handlers that would create them are stubs.       *)
(***************************************************************************)
EXTENDS Naturals

CONSTANTS
    Events,
    Users,
    Passes,      \* passes of the monitor at once (the bound)
    Calls,       \* calls of an administrator in flight
    LastTime     \* bound of the clock

VARIABLES
    event,       \* the stored events
    active,      \* participations with status active
    now,
    pass,        \* the passes of checkAndUpdateEventStatuses
    call,        \* terminateEvent, extendEvent, resolveConflicts
    rewarded,    \* history: how often each participant was rewarded at the end
    raced,       \* history: events read by one while held by another
    cut,         \* history: events whose ending broke off
    terminated   \* history: events somebody terminated

vars == <<event, active, now, pass, call, rewarded, raced, cut, terminated>>

Status == {"scheduled", "active", "paused", "completed", "cancelled"}

Row == [status : Status, end : 1..LastTime]

Rows == UNION {[es -> Row] : es \in SUBSET Events}

Idle == [pc |-> "idle"]

(* at: the time the pass looked at the clock; left: rows still to handle. *)
Pass == {Idle}
    \cup [pc : {"activate", "complete"}, at : 0..LastTime, left : Rows]
    \cup [pc : {"parts"}, at : 0..LastTime, left : Rows, event : Events]
    \cup [pc : {"reward"}, at : 0..LastTime, left : Rows, event : Events, users : SUBSET Users]
    \cup [pc : {"mark"}, at : 0..LastTime, left : Rows, event : Events, users : SUBSET Users,
          user : Users]

TypeOK ==
    /\ event \in [Events -> Row]
    /\ active \subseteq Events \X Users
    /\ now \in 0..LastTime
    /\ pass \in [Passes -> Pass]
    /\ call \in [Calls -> {Idle} \cup [pc : {"terminate", "extend", "pause"}, event : Events, row : Row]]
    /\ rewarded \in [Events \X Users -> 0..2]
    /\ raced \subseteq Events /\ cut \subseteq Events /\ terminated \subseteq Events

-----------------------------------------------------------------------------
HeldByPass(p) ==
    (IF pass[p].pc = "idle" THEN {} ELSE DOMAIN pass[p].left)
        \cup (IF pass[p].pc \in {"parts", "reward", "mark"} THEN {pass[p].event} ELSE {})

Held(e) ==
    \/ \E p \in Passes : e \in HeldByPass(p)
    \/ \E c \in Calls : call[c] # Idle /\ call[c].event = e

Reads(es) == raced' = raced \cup {e \in es : Held(e)}

Found(es) == [e \in es |-> event[e]]

Without(f, e) == [x \in DOMAIN f \ {e} |-> f[x]]

(* Mutant of ToActivate: whatever has not ended is started. *)
ToActivateUnended == {e \in Events : event[e].status \notin {"completed", "active"} /\ now > 0}

(* Scheduled events whose start (0) has passed. *)
ToActivate == {e \in Events : event[e].status = "scheduled" /\ now > 0}

(* The timer.  Bound: once events were raced for, no pass or call begins. *)
Begin(p) ==
    /\ pass[p] = Idle /\ now > 0 /\ raced = {}
    /\ pass' = [pass EXCEPT ![p] = [pc |-> "activate", at |-> now, left |-> Found(ToActivate)]]
    /\ Reads(ToActivate)
    /\ UNCHANGED <<event, active, now, call, rewarded, cut, terminated>>

ActivateEvent(p) ==
    /\ pass[p].pc = "activate"
    /\ \E e \in DOMAIN pass[p].left :
          /\ event' = [event EXCEPT ![e] = [pass[p].left[e] EXCEPT !.status = "active"]]
          /\ pass' = [pass EXCEPT ![p].left = Without(@, e)]
    /\ UNCHANGED <<active, now, call, rewarded, raced, cut, terminated>>

ToComplete(at) == {e \in Events : event[e].status = "active" /\ event[e].end < at}

FindExpired(p) ==
    /\ pass[p].pc = "activate" /\ DOMAIN pass[p].left = {}
    /\ LET es == ToComplete(pass[p].at) IN
         /\ pass' = [pass EXCEPT ![p] = [@ EXCEPT !.pc = "complete", !.left = Found(es)]]
         /\ Reads(es)
    /\ UNCHANGED <<event, active, now, call, rewarded, cut, terminated>>

CompleteEvent(p) ==
    /\ pass[p].pc = "complete"
    /\ \E e \in DOMAIN pass[p].left :
          /\ event' = [event EXCEPT ![e] = [pass[p].left[e] EXCEPT !.status = "completed"]]
          /\ pass' = [pass EXCEPT ![p] = [pc |-> "parts", at |-> pass[p].at,
                                          left |-> Without(pass[p].left, e), event |-> e]]
    /\ UNCHANGED <<active, now, call, rewarded, raced, cut, terminated>>

End(p) ==
    /\ pass[p].pc = "complete" /\ DOMAIN pass[p].left = {}
    /\ pass' = [pass EXCEPT ![p] = Idle]
    /\ UNCHANGED <<event, active, now, call, rewarded, raced, cut, terminated>>

-----------------------------------------------------------------------------
(* processEventCompletion *)

GoOn(p, users) ==
    pass' = [pass EXCEPT ![p] =
                IF users = {} THEN [pc |-> "complete", at |-> pass[p].at, left |-> pass[p].left]
                ELSE [pc |-> "reward", at |-> pass[p].at, left |-> pass[p].left,
                      event |-> pass[p].event, users |-> users]]

FindParticipants(p) ==
    /\ pass[p].pc = "parts"
    /\ GoOn(p, {u \in Users : <<pass[p].event, u>> \in active})
    /\ UNCHANGED <<event, active, now, call, rewarded, raced, cut, terminated>>

(* processRewardEvent; its error is logged and the next participant's turn *)
(* comes.  Bound: no history above 2. *)
Reward(p) ==
    /\ pass[p].pc = "reward"
    /\ \E u \in pass[p].users :
          LET e == pass[p].event  rest == pass[p].users \ {u} IN
          \/ /\ rewarded[<<e, u>>] < 2
             /\ rewarded' = [rewarded EXCEPT ![<<e, u>>] = @ + 1]
             /\ pass' = [pass EXCEPT ![p] =
                            [pc |-> "mark", at |-> pass[p].at, left |-> pass[p].left,
                             event |-> e, users |-> rest, user |-> u]]
             /\ UNCHANGED cut
          \/ GoOn(p, rest) /\ cut' = cut \cup {e} /\ UNCHANGED rewarded
    /\ UNCHANGED <<event, active, now, call, raced, terminated>>

(* The participation is saved as completed, or it fails and stays active. *)
Mark(p) ==
    /\ pass[p].pc = "mark"
    /\ LET e == pass[p].event IN
         \/ active' = active \ {<<e, pass[p].user>>} /\ UNCHANGED cut
         \/ cut' = cut \cup {e} /\ UNCHANGED active
    /\ GoOn(p, pass[p].users)
    /\ UNCHANGED <<event, now, call, rewarded, raced, terminated>>

(* An error of the database elsewhere ends the pass. *)
Break(p) ==
    /\ pass[p].pc \in {"activate", "complete", "parts"}
    /\ cut' = IF pass[p].pc = "parts" THEN cut \cup {pass[p].event} ELSE cut
    /\ pass' = [pass EXCEPT ![p] = Idle]
    /\ UNCHANGED <<event, active, now, call, rewarded, raced, terminated>>

(* The process restarts: what was under way is not looked at again. *)
Restart ==
    /\ \/ \E p \in Passes : pass[p] # Idle
       \/ \E c \in Calls : call[c] # Idle
    /\ cut' = cut \cup {pass[p].event : p \in {q \in Passes : pass[q].pc \in {"parts", "reward", "mark"}}}
    /\ pass' = [p \in Passes |-> Idle]
    /\ call' = [c \in Calls |-> Idle]
    /\ UNCHANGED <<event, active, now, rewarded, raced, terminated>>

-----------------------------------------------------------------------------
(* terminateEvent and extendEvent take an event in any state,              *)
(* resolveConflicts those that are active or scheduled. *)
Read(c, op, e) ==
    /\ call[c] = Idle /\ raced = {}
    /\ op = "pause" => event[e].status \in {"active", "scheduled"}
    /\ call' = [call EXCEPT ![c] = [pc |-> op, event |-> e, row |-> event[e]]]
    /\ Reads({e})
    /\ UNCHANGED <<event, active, now, pass, rewarded, cut, terminated>>

Asked(c) ==
    CASE call[c].pc = "terminate" -> {[call[c].row EXCEPT !.status = "cancelled"]}
      [] call[c].pc = "pause"     -> {[call[c].row EXCEPT !.status = "paused"]}
      [] call[c].pc = "extend"    -> {[call[c].row EXCEPT !.end = t] : t \in 1..LastTime}

Save(c) ==
    /\ call[c] # Idle
    /\ \E r \in Asked(c) : event' = [event EXCEPT ![call[c].event] = r]
    /\ terminated' = IF call[c].pc = "terminate" THEN terminated \cup {call[c].event} ELSE terminated
    /\ call' = [call EXCEPT ![c] = Idle]
    /\ UNCHANGED <<active, now, pass, rewarded, raced, cut>>

Tick ==
    /\ now < LastTime
    /\ now' = now + 1
    /\ UNCHANGED <<event, active, pass, call, rewarded, raced, cut, terminated>>

-----------------------------------------------------------------------------
Init ==
    /\ event = [e \in Events |-> [status |-> "scheduled", end |-> 1]]
    /\ active = Events \X Users
    /\ now = 0
    /\ pass = [p \in Passes |-> Idle]
    /\ call = [c \in Calls |-> Idle]
    /\ rewarded = [x \in Events \X Users |-> 0]
    /\ raced = {} /\ cut = {} /\ terminated = {}

Next ==
    \/ \E p \in Passes :
          \/ Begin(p) \/ ActivateEvent(p) \/ FindExpired(p) \/ CompleteEvent(p) \/ End(p)
          \/ FindParticipants(p) \/ Reward(p) \/ Mark(p) \/ Break(p)
    \/ \E c \in Calls :
          \/ \E op \in {"terminate", "extend", "pause"}, e \in Events : Read(c, op, e)
          \/ Save(c)
    \/ Restart \/ Tick

Spec == Init /\ [][Next]_vars

-----------------------------------------------------------------------------
(* An event that nobody read while another held it ends once.  A           *)
(* participant is rewarded at most once, and only by an event that ended;  *)
(* who is no longer active was rewarded; when nobody works on an ended     *)
(* event any more, all its participants were, unless its ending broke off  *)
(* (nothing takes it up again); and a terminated event stays so. *)
EventEndsOnce ==
    \A e \in Events \ raced :
        /\ \A u \in Users :
              /\ rewarded[<<e, u>>] <= 1
              /\ rewarded[<<e, u>>] = 1 => event[e].status \in {"completed", "cancelled"}
              /\ <<e, u>> \notin active => rewarded[<<e, u>>] = 1
              /\ event[e].status = "completed" /\ ~Held(e) /\ e \notin cut =>
                    <<e, u>> \notin active
        /\ e \in terminated => event[e].status = "cancelled"

-----------------------------------------------------------------------------
(* Why it holds: an event that was not raced for has one holder, whose     *)
(* copy is the stored row.                                                 *)

Ended(e) == event[e].status \in {"completed", "cancelled"}

HeldByCall(c, e) == call[c].pc # "idle" /\ call[c].event = e

Working(p, e) == pass[p].pc \in {"parts", "reward", "mark"} /\ pass[p].event = e

OneHolder(e) ==
    /\ \A p, q \in Passes : e \in HeldByPass(p) /\ e \in HeldByPass(q) => p = q
    /\ \A c, d \in Calls : HeldByCall(c, e) /\ HeldByCall(d, e) => c = d
    /\ \A p \in Passes, c \in Calls : ~(e \in HeldByPass(p) /\ HeldByCall(c, e))

CopiesAreTrue(e) ==
    /\ \A p \in Passes : pass[p].pc # "idle" /\ e \in DOMAIN pass[p].left =>
          /\ pass[p].left[e] = event[e]
          /\ event[e].status = IF pass[p].pc = "activate" THEN "scheduled" ELSE "active"
    /\ \A p \in Passes : Working(p, e) => event[e].status = "completed"
    /\ \A c \in Calls : HeldByCall(c, e) =>
          /\ call[c].row = event[e]
          /\ call[c].pc = "pause" => event[e].status \in {"scheduled", "active"}

(* The share of participant u in the end of event e: what the pass that    *)
(* works on it has done and has still to do. *)
ShareIsTrue(e, u) ==
    /\ rewarded[<<e, u>>] <= 1
    /\ ~Ended(e) => <<e, u>> \in active /\ rewarded[<<e, u>>] = 0
    /\ <<e, u>> \notin active => rewarded[<<e, u>>] = 1
    /\ \A p \in Passes : Working(p, e) =>
          /\ pass[p].pc = "parts" => <<e, u>> \in active /\ rewarded[<<e, u>>] = 0
          /\ pass[p].pc # "parts" =>
                IF u \in pass[p].users THEN <<e, u>> \in active /\ rewarded[<<e, u>>] = 0
                ELSE \/ <<e, u>> \notin active \/ e \in cut
                     \/ pass[p].pc = "mark" /\ pass[p].user = u
          /\ pass[p].pc = "mark" /\ pass[p].user = u => rewarded[<<e, u>>] = 1
    /\ event[e].status = "completed" /\ (\A p \in Passes : ~Working(p, e)) /\ e \notin cut =>
          <<e, u>> \notin active

EventInv ==
    \A e \in Events \ raced :
        /\ OneHolder(e)
        /\ CopiesAreTrue(e)
        /\ \A u \in Users : ShareIsTrue(e, u)
        /\ e \in terminated => event[e].status = "cancelled"

=============================================================================
