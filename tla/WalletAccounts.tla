-------------------------- MODULE WalletAccounts ---------------------------
(***************************************************************************)
(* The wallets of one user: linkWallet, setPrimaryWallet and unlinkWallet  *)
(* of WalletAuthService (src/src/auth/wallet-auth.service.ts) and          *)
(* requestDelegation of DelegationService (delegation.service.ts).         *)
(*                                                                         *)
(* Nothing runs in a transaction: a call is a row of reads and saves with  *)
(* other calls between them, and a save writes the whole row that was      *)
(* read.  Rows are never deleted, and their address is unique.             *)
(***************************************************************************)
EXTENDS Naturals, FiniteSets

CONSTANTS
    Wallets,      \* addresses, and the rows under them
    NoWallet,
    Calls         \* requests in flight at once (the bound)

VARIABLES
    row,         \* the table of wallets
    address,     \* walletAddress of the user
    verified,    \* emailVerified of the user
    call,        \* the requests in flight
    clash        \* history: two calls over the primary wallet overlapped, or one broke off

vars == <<row, address, verified, call, clash>>

Absent == [status |-> "absent", type |-> "none", primary |-> FALSE]

Row == [status : {"PENDING", "ACTIVE", "UNLINKED"},
        type : {"PRIMARY", "SECONDARY", "DELEGATED"}, primary : BOOLEAN]

Idle == [pc |-> "idle", op |-> "none", id |-> NoWallet, entity |-> Absent]

TypeOK ==
    /\ row \in [Wallets -> {Absent} \cup Row]
    /\ address \in Wallets \cup {NoWallet}
    /\ verified \in BOOLEAN
    /\ call \in [Calls -> [pc : {"idle", "count", "insert", "unset", "save", "address", "promote"},
                           op : {"none", "link", "primary", "unlink", "delegate"},
                           id : Wallets \cup {NoWallet}, entity : {Absent} \cup Row]]
    /\ clash \in BOOLEAN

-----------------------------------------------------------------------------
Linked == {w \in Wallets : row[w] # Absent}

Active == {w \in Wallets : row[w].status = "ACTIVE"}

Primaries == {w \in Wallets : row[w].primary}

InFlight == {c \in Calls : call[c].pc # "idle"}

(* Calls that decide by, or write, what another is about to change. *)
Clashes(op, w, d) ==
    \/ {op, d.op} = {"primary"}
    \/ {op, d.op} = {"primary", "unlink"}
    \/ {op, d.op} = {"unlink"} /\ w # d.id
    \/ {op, d.op} = {"link"} /\ Linked = {}
    \/ op = "primary" /\ d.op = "link" /\ d.entity.primary

(* Bound: once calls have clashed, no further one begins. *)
Begin(c, pc, op, w, entity) ==
    /\ call[c].pc = "idle" /\ ~clash
    /\ call' = [call EXCEPT ![c] = [pc |-> pc, op |-> op, id |-> w, entity |-> entity]]
    /\ clash' = (clash \/ \E d \in InFlight : Clashes(op, w, call[d]))
    /\ UNCHANGED <<row, address, verified>>

Goto(c, pc) == call' = [call EXCEPT ![c].pc = pc]

Return(c) == call' = [call EXCEPT ![c] = Idle]

(* linkWallet, after the signature: no row has the address. *)
LinkWallet(c, w) == row[w] = Absent /\ Begin(c, "count", "link", w, Absent)

(* The first wallet of the user, unlinked ones included, is the primary. *)
LinkCounts(c) ==
    /\ call[c].pc = "count" /\ call[c].op = "link"
    /\ LET first == Linked = {} IN
         call' = [call EXCEPT ![c].pc = "insert", ![c].entity =
                    [status |-> "ACTIVE", primary |-> first,
                     type |-> IF first THEN "PRIMARY" ELSE "SECONDARY"]]
    /\ UNCHANGED <<row, address, verified, clash>>

(* A row that got the address meanwhile makes the save fail. *)
Insert(c) ==
    /\ call[c].pc = "insert"
    /\ LET w == call[c].id  new == call[c].entity IN
         IF row[w] # Absent THEN Return(c) /\ UNCHANGED row
         ELSE /\ row' = [row EXCEPT ![w] = new]
              /\ IF new.primary THEN Goto(c, "address") ELSE Return(c)
    /\ UNCHANGED <<address, verified, clash>>

SetAddress(c) ==
    /\ call[c].pc = "address"
    /\ address' = call[c].id
    /\ Return(c)
    /\ UNCHANGED <<row, verified, clash>>

(* setPrimaryWallet: an active wallet. *)
SetPrimaryWallet(c, w) ==
    row[w].status = "ACTIVE" /\ Begin(c, "unset", "primary", w, row[w])

(* Mutant of UnsetPrimary: the wallet that was primary stays it. *)
UnsetNothing(c) ==
    /\ call[c].pc = "unset"
    /\ call' = [call EXCEPT ![c].pc = "save", ![c].entity.primary = TRUE, ![c].entity.type = "PRIMARY"]
    /\ UNCHANGED <<row, address, verified, clash>>

UnsetPrimary(c) ==
    /\ call[c].pc = "unset"
    /\ row' = [w \in Wallets |-> [row[w] EXCEPT !.primary = FALSE]]
    /\ call' = [call EXCEPT ![c].pc = "save", ![c].entity.primary = TRUE, ![c].entity.type = "PRIMARY"]
    /\ UNCHANGED <<address, verified, clash>>

(* The row as it was read, with the changes of the call. *)
SaveEntity(c) ==
    /\ call[c].pc = "save"
    /\ row' = [row EXCEPT ![call[c].id] = call[c].entity]
    /\ IF call[c].entity.status # "UNLINKED" THEN Goto(c, "address")
       ELSE IF call[c].entity.primary THEN Goto(c, "promote") ELSE Return(c)
    /\ UNCHANGED <<address, verified, clash>>

(* unlinkWallet: any row of the user. *)
UnlinkWallet(c, w) == row[w] # Absent /\ Begin(c, "count", "unlink", w, row[w])

(* The only active wallet is kept unless the user has a verified e-mail. *)
UnlinkCounts(c) ==
    /\ call[c].pc = "count" /\ call[c].op = "unlink"
    /\ IF Cardinality(Active) = 1 /\ ~verified THEN Return(c)
       ELSE call' = [call EXCEPT ![c].pc = "save", ![c].entity.status = "UNLINKED"]
    /\ UNCHANGED <<row, address, verified, clash>>

(* The next primary is looked for under the id just unlinked: there is     *)
(* one only if another call has made the row active again. *)
Promote(c) ==
    /\ call[c].pc = "promote"
    /\ LET w == call[c].id IN
         IF row[w].status # "ACTIVE" THEN Return(c)
         ELSE call' = [call EXCEPT ![c].pc = "save",
                          ![c].entity = [row[w] EXCEPT !.primary = TRUE, !.type = "PRIMARY"]]
    /\ UNCHANGED <<row, address, verified, clash>>

(* requestDelegation by an active wallet of the user to an address without *)
(* a row; to one of the user's own it changes nothing. *)
RequestDelegation(c, w, d) ==
    /\ row[w].status = "ACTIVE" /\ (row[w].primary \/ row[w].type = "SECONDARY")
    /\ row[d] = Absent
    /\ Begin(c, "insert", "delegate", d, [status |-> "PENDING", type |-> "DELEGATED", primary |-> FALSE])

(* verifyEmail, elsewhere. *)
VerifyEmail ==
    /\ ~verified /\ verified' = TRUE
    /\ UNCHANGED <<row, address, call, clash>>

(* The database fails between two of the call's commands. *)
Break(c) ==
    /\ call[c].pc # "idle"
    /\ clash' = (clash \/ (call[c].pc \in {"save", "address"} /\ call[c].entity.primary))
    /\ Return(c)
    /\ UNCHANGED <<row, address, verified>>

-----------------------------------------------------------------------------
(* Before the first wallet is linked, the user's address has no row. *)
Init ==
    /\ row = [w \in Wallets |-> Absent]
    /\ address = NoWallet
    /\ verified = FALSE
    /\ call = [c \in Calls |-> Idle]
    /\ clash = FALSE

Next ==
    \/ \E c \in Calls, w \in Wallets :
          \/ LinkWallet(c, w) \/ SetPrimaryWallet(c, w) \/ UnlinkWallet(c, w)
          \/ \E d \in Wallets : RequestDelegation(c, w, d)
    \/ \E c \in Calls :
          \/ LinkCounts(c) \/ Insert(c) \/ SetAddress(c) \/ UnsetPrimary(c)
          \/ SaveEntity(c) \/ UnlinkCounts(c) \/ Promote(c) \/ Break(c)
    \/ VerifyEmail

Spec == Init /\ [][Next]_vars

-----------------------------------------------------------------------------
(* The rows, the flag that marks one of them as primary and the address in *)
(* the user's own row are written one after the other.  When no call is in *)
(* flight, and none ever met another one over the primary wallet or broke  *)
(* off in the middle, a user with wallets has exactly one primary wallet,  *)
(* the user's address is its address, and a user without a verified e-mail *)
(* still has an active wallet.  The primary may be unlinked. *)
PrimaryIsTrue ==
    InFlight = {} /\ ~clash /\ Linked # {} =>
        /\ Cardinality(Primaries) = 1
        /\ Primaries = {address}
        /\ verified \/ Active # {}

-----------------------------------------------------------------------------
(* Why the primary wallet is true: the forms of a call, whatever clashed,  *)
(* and what calls that never clashed leave to each other. *)

FormOf(x) ==
    /\ x.pc = "idle" => x = Idle
    /\ x.op = "none" => x.pc = "idle"
    /\ x.pc # "idle" => x.id \in Wallets
    /\ x.op = "link" => /\ x.pc \in {"count", "insert", "address"}
                        /\ x.pc # "count" => x.entity \in Row /\ x.entity.status = "ACTIVE"
                        /\ x.pc = "address" => x.entity.primary
    /\ x.op = "delegate" => x.pc = "insert" /\ x.entity \in Row /\ ~x.entity.primary
    /\ x.op = "primary" => /\ x.pc \in {"unset", "save", "address"}
                           /\ x.entity \in Row /\ x.entity.status = "ACTIVE"
                           /\ x.pc # "unset" => x.entity.primary
    /\ x.op = "unlink" => x.pc \in {"count", "save", "promote", "address"} /\ x.entity \in Row

CallsHaveForms == \A c \in Calls : FormOf(call[c])

(* A call over the primary wallet meets no other and no unlinking, and     *)
(* unlinkings that meet are of the same wallet. *)
OneOverThePrimary ==
    \A c, d \in Calls :
        /\ c # d /\ call[c].op = "primary" =>
              /\ call[d].op \notin {"primary", "unlink"}
              /\ call[d].op = "link" => ~call[d].entity.primary
        /\ {call[c].op, call[d].op} = {"unlink"} => call[c].id = call[d].id

(* Until the first row is there, only one link is in flight. *)
TheFirstIsAlone ==
    /\ Linked = {} =>
          \A c, d \in InFlight : c = d /\ call[c].op = "link" /\ call[c].pc \in {"count", "insert"}
    /\ \A c \in Calls : call[c].op = "link" /\ call[c].pc = "insert" =>
          (call[c].entity.primary <=> Linked = {})

Settled ==
    \A c \in Calls : call[c].pc # "address" /\ ~(call[c].op = "primary" /\ call[c].pc = "save")

(* The flag and the user's address, before and after each save. *)
FlagAndAddress ==
    /\ Linked # {} /\ Settled => Primaries = {address}
    /\ \A c \in Calls :
          /\ call[c].pc = "address" => Primaries = {call[c].id}
          /\ call[c].op = "primary" /\ call[c].pc = "save" => Primaries = {}

(* What an unlinking read is what it writes over, but for the status. *)
UnlinkingIsTrue ==
    \A c \in Calls : call[c].op = "unlink" =>
        LET x == call[c] IN
        /\ x.pc # "address" /\ row[x.id] # Absent
        /\ x.pc \in {"count", "save"} => x.entity.primary = row[x.id].primary
        /\ x.pc = "save" => /\ x.entity.status = "UNLINKED"
                            /\ verified \/ Active \ {x.id} # {}
        /\ x.pc = "promote" => row[x.id].status = "UNLINKED"

OneIsActive == Linked # {} => verified \/ Active # {}

WalletInv ==
    /\ CallsHaveForms
    /\ ~clash => /\ OneOverThePrimary /\ TheFirstIsAlone /\ FlagAndAddress
                 /\ UnlinkingIsTrue /\ OneIsActive
=============================================================================
