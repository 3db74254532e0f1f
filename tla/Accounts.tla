------------------------------ MODULE Accounts ------------------------------
(***************************************************************************)
(* Login rows, passwords and tokens.  A token carries the tier and the     *)
(* number its holder had at login, and the guards of all routes look at    *)
(* nothing else, so what matters is how far the claims may lag behind the  *)
(* rows.  Password and tier changes and the import are transactions that   *)
(* read a row and later write the columns they changed in it.              *)
(***************************************************************************)
EXTENDS Integers, FiniteSets

CONSTANTS
  Threads,     \* worker threads, and the process of a CSV import
  Clients,     \* holders of tokens
  Numbers,     \* employee numbers
  Tiers,       \* bound: tiers handed out
  MaxId,       \* bound: rows of employees ever inserted
  AccessTTL,   \* lifetime of an access token
  RefreshTTL,  \* lifetime of a refresh token
  None,        \* no row, no token
  MaxTime,     \* bound: the clock stops here
  MaxChanges,  \* bound: writes of rows
  SnapshotIsolation   \* innodb_snapshot_isolation: an UPDATE of a row changed since it was read fails

ASSUME AccountsAssumption ==
  /\ MaxId \in Nat /\ MaxTime \in Nat /\ MaxChanges \in Nat
  /\ AccessTTL \in Nat \ {0} /\ RefreshTTL \in Nat \ {0}
  /\ SnapshotIsolation \in BOOLEAN

AUTH_GROUPS == {"employee", "staff", "admin"}

ASSUME TiersAssumption == Tiers \subseteq AUTH_GROUPS

Ids == 1 .. MaxId

Accounts == [number : Numbers, active : BOOLEAN, auth_group : AUTH_GROUPS,
             password : {"last_name", "chosen"}, password_must_change : BOOLEAN]

Tokens == [identity : Ids, employee_number : Numbers, auth_group : AUTH_GROUPS, expires : Int]

Requests ==
  [op : {"set_password", "reset_password"}, id : Ids]
    \union [op : {"set_auth_group"}, id : Ids, auth_group : AUTH_GROUPS]
    \union [op : {"import_row"}, id : Ids, auth_group : AUTH_GROUPS, active : BOOLEAN]

NoRequest == [op |-> "none"]

AuthenticateRequest == [employee_number : Numbers, password : {"last_name", "chosen"}]

ASSUME NoneAssumption == None \notin Accounts /\ None \notin Tokens

VARIABLES
  now,      \* the clock
  account,  \* id -> committed row of employees with its row of authentications
  changes,  \* number of writes so far (see MaxChanges)
  token,    \* the access and the refresh token each client holds
  req,      \* the transaction each thread is in
  seen,     \* the row it read
  stale,    \* <<thread, table>>: the row it read there has been written since
  lapsed,   \* history: when an id last ceased to have a tier
  vacated   \* history: when a number last ceased to be an active participant's

data    == <<account, changes, lapsed, vacated>>
session == <<req, seen, stale>>
vars    == <<now, data, token, session>>

LongAgo == 0 - AccessTTL - RefreshTTL

TypeOK ==
  /\ now \in Nat /\ changes \in Nat
  /\ account \in [Ids -> Accounts \union {None}]
  /\ token \in [Clients -> [access : Tokens \union {None}, refresh : Tokens \union {None}]]
  /\ req \in [Threads -> Requests \union {NoRequest}]
  /\ seen \in [Threads -> Accounts \union {None}]
  /\ stale \subseteq Threads \X {"employees", "authentications"}
  /\ lapsed \in [Ids -> [AUTH_GROUPS -> Int]] /\ vacated \in [Numbers -> Int]
-----------------------------------------------------------------------------
(* Reads.  Row i of any function like account. *)

HasTier(a, i, g) == a[i] # None /\ a[i].auth_group = g

Bears(a, n) == \E i \in Ids : a[i] # None /\ a[i].active /\ a[i].number = n

get_by_employee_number(n) == {i \in Ids : account[i] # None /\ account[i].number = n}

(* A guard: an access token with an allowed claim.  No row is read. *)
access_required(c, groups) ==
  token[c].access # None /\ token[c].access.auth_group \in groups

admin_required(c) == access_required(c, {"admin"})

staff_required(c) == access_required(c, {"admin", "staff"})

employee_required(c) == access_required(c, {"admin", "staff", "employee"})

-----------------------------------------------------------------------------
(* Tokens *)

Claims(i) == [identity |-> i, employee_number |-> account[i].number,
              auth_group |-> account[i].auth_group]

access_token_expires == now + AccessTTL

refresh_token_expires == now + RefreshTTL

create_token(claims, expires) ==
  [identity |-> claims.identity, employee_number |-> claims.employee_number,
   auth_group |-> claims.auth_group, expires |-> expires]

LoginResponse(i) ==
  [access |-> create_token(Claims(i), access_token_expires),
   refresh |-> create_token(Claims(i), refresh_token_expires)]

(* Login: the row exists, is active, and the password is its password. *)
Authenticate(c, q) ==
  \E i \in get_by_employee_number(q.employee_number) :
    /\ account[i].active /\ account[i].password = q.password
    /\ token' = [token EXCEPT ![c] = LoginResponse(i)]
    /\ UNCHANGED <<now, data, session>>

(* The claims of the refresh token, which are all that the service is told. *)
RefreshClaims(c) == token[c].refresh

RefreshResponse(c) == create_token(RefreshClaims(c), access_token_expires)

(* Slip: only the token is looked at. *)
RefreshWithoutRow(c) ==
  /\ RefreshClaims(c) # None
  /\ token' = [token EXCEPT ![c].access = RefreshResponse(c)]
  /\ UNCHANGED <<now, data, session>>

(* Slip: the refresh token is renewed as well. *)
RefreshBoth(c) ==
  /\ RefreshClaims(c) # None
  /\ \E i \in get_by_employee_number(RefreshClaims(c).employee_number) : account[i].active
  /\ token' = [token EXCEPT ![c] = [access |-> RefreshResponse(c),
                                    refresh |-> create_token(RefreshClaims(c), refresh_token_expires)]]
  /\ UNCHANGED <<now, data, session>>

(* A new access token with the refresh token's claims, if whoever bears that number now
   is active. *)
Refresh(c) ==
  /\ RefreshClaims(c) # None
  /\ \E i \in get_by_employee_number(RefreshClaims(c).employee_number) : account[i].active
  /\ token' = [token EXCEPT ![c].access = RefreshResponse(c)]
  /\ UNCHANGED <<now, data, session>>

(* Nothing happens on the server; the client forgets its tokens. *)
Logout(c) ==
  /\ employee_required(c)
  /\ token' = [token EXCEPT ![c] = [access |-> None, refresh |-> None]]
  /\ UNCHANGED <<now, data, session>>
-----------------------------------------------------------------------------
(* Committed writes *)

(* Other transactions that have read the rows of id i in these tables. *)
Outdated(i, tables) ==
  {p \in Threads \X tables : req[p[1]] # NoRequest /\ req[p[1]].id = i}

(* The rows become a. *)
Store(a) ==
  /\ changes < MaxChanges /\ changes' = changes + 1
  /\ account' = a
  /\ lapsed' = [i \in Ids |-> [g \in AUTH_GROUPS |->
       IF HasTier(account, i, g) /\ ~HasTier(a, i, g) THEN now ELSE lapsed[i][g]]]
  /\ vacated' = [n \in Numbers |->
       IF Bears(account, n) /\ ~Bears(a, n) THEN now ELSE vacated[n]]

(* The statement of an employee service request that changes one committed row, or that
   inserts or deletes it. *)
StoreEmployee(i, row, tables) ==
  /\ \A j \in Ids \ {i} : row # None /\ account[j] # None => account[j].number # row.number
  /\ Store([account EXCEPT ![i] = row])
  /\ stale' = stale \union Outdated(i, tables)
  /\ UNCHANGED <<now, token, req, seen>>

(* Slip: the default of the column is left out. *)
NewAccountNoTier(n, g, act) ==
  [number |-> n, active |-> act, auth_group |-> None,
   password |-> "last_name", password_must_change |-> TRUE]

NewAccount(n, g, act) ==
  [number |-> n, active |-> act, auth_group |-> g,
   password |-> "last_name", password_must_change |-> TRUE]

(* Ids are not given twice, so a row is new only when all later ones are. *)
Unused(i) ==
  /\ \A j \in Ids : j >= i => account[j] = None
  /\ \A j \in Ids, g \in AUTH_GROUPS : j >= i => lapsed[j][g] = LongAgo

(* POST /employees, and a row of an import whose number is new. *)
Create(i, n, g, act) ==
  /\ Unused(i)
  /\ StoreEmployee(i, NewAccount(n, g, act), {"employees", "authentications"})

(* PUT /employees/<n>, and DELETE without hard: the tier and the password stay. *)
UpdateEmployee(i, n, act) ==
  /\ account[i] # None
  /\ StoreEmployee(i, [account[i] EXCEPT !.number = n, !.active = act], {"employees"})

(* The login row goes with the participant. *)
HardDelete(i) ==
  /\ account[i] # None
  /\ StoreEmployee(i, None, {"employees", "authentications"})

AdminRequest(c) ==
  /\ admin_required(c)
  /\ \E i \in Ids :
       \/ \E n \in Numbers, g \in Tiers : Create(i, n, g, TRUE)
       \/ \E n \in Numbers, act \in BOOLEAN : UpdateEmployee(i, n, act)
       \/ HardDelete(i)

ImportNew == \E i \in Ids, n \in Numbers, g \in Tiers : Create(i, n, g, TRUE)
-----------------------------------------------------------------------------
(* Transactions that read a row and write it later *)

Begin(t, q) ==
  /\ req[t] = NoRequest
  /\ changes + Cardinality({u \in Threads : req[u] # NoRequest}) < MaxChanges
  /\ req' = [req EXCEPT ![t] = q]
  /\ seen' = [seen EXCEPT ![t] = account[q.id]]
  /\ UNCHANGED <<now, data, token, stale>>

(* The old password is compared with the row that was read. *)
BeginSetPassword(t, c, old) ==
  /\ employee_required(c)
  /\ \E i \in get_by_employee_number(token[c].access.employee_number) :
       /\ account[i].active /\ account[i].password = old
       /\ Begin(t, [op |-> "set_password", id |-> i])

(* Active is not checked. *)
BeginResetPassword(t, c, n) ==
  /\ staff_required(c)
  /\ \E i \in get_by_employee_number(n) : Begin(t, [op |-> "reset_password", id |-> i])

BeginSetAuthGroup(t, c, n, g) ==
  /\ admin_required(c)
  /\ \E i \in get_by_employee_number(n) :
       /\ account[i].active
       /\ Begin(t, [op |-> "set_auth_group", id |-> i, auth_group |-> g])

(* A row of employees.csv whose number exists. *)
BeginImportRow(t, n, g, act) ==
  \E i \in get_by_employee_number(n) :
    Begin(t, [op |-> "import_row", id |-> i, auth_group |-> g, active |-> act])

(* A column is written only if the value assigned differs from the value read. *)
Column(read, assigned, current) == IF assigned = read THEN current ELSE assigned

(* What is assigned to a row that was read as r and is row by now.  The salted hash always
   differs, the other columns may not. *)
SetPassword(r, row) ==
  [row EXCEPT !.password = "chosen",
              !.password_must_change = Column(r.password_must_change, FALSE, @)]

ResetPassword(r, row) ==
  [row EXCEPT !.password = "last_name",
              !.password_must_change = Column(r.password_must_change, TRUE, @)]

SetAuthGroup(r, row, g) == [row EXCEPT !.auth_group = Column(r.auth_group, g, @)]

ImportRow(r, row, g, act) ==
  [SetAuthGroup(r, ResetPassword(r, row), g) EXCEPT !.active = Column(r.active, act, @)]

Written(t) ==
  LET q == req[t] r == seen[t] row == account[q.id]
  IN  IF q.op = "set_password" THEN SetPassword(r, row)
      ELSE IF q.op = "reset_password" THEN ResetPassword(r, row)
      ELSE IF q.op = "set_auth_group" THEN SetAuthGroup(r, row, q.auth_group)
      ELSE ImportRow(r, row, q.auth_group, q.active)

(* The tables that the transaction's UPDATEs address. *)
TablesWritten(t) ==
  (IF req[t].op = "set_auth_group" /\ req[t].auth_group = seen[t].auth_group
     THEN {} ELSE {"authentications"})
  \union (IF req[t].op = "import_row" /\ req[t].active # seen[t].active
            THEN {"employees"} ELSE {})

(* Slip: nothing is compared with what was read. *)
NeverConflicts(t) == FALSE

Conflicts(t) == SnapshotIsolation /\ \E table \in TablesWritten(t) : <<t, table>> \in stale

Finish(t) ==
  /\ req' = [req EXCEPT ![t] = NoRequest]
  /\ seen' = [seen EXCEPT ![t] = None]

(* UPDATE and commit.  A row that is gone cannot be updated, and the request fails. *)
Write(t) ==
  /\ req[t] # NoRequest /\ account[req[t].id] # None /\ ~Conflicts(t)
  /\ Store([account EXCEPT ![req[t].id] = Written(t)])
  /\ stale' = {p \in stale \union Outdated(req[t].id, TablesWritten(t)) : p[1] # t}
  /\ Finish(t)
  /\ UNCHANGED <<now, token>>

Rollback(t) ==
  /\ req[t] # NoRequest
  /\ stale' = {p \in stale : p[1] # t}
  /\ Finish(t)
  /\ UNCHANGED <<now, data, token>>
-----------------------------------------------------------------------------
(* An expired token is refused by every route, so it is forgotten. *)
Unexpired(k) == IF k # None /\ k.expires <= now + 1 THEN None ELSE k

Tick ==
  /\ now < MaxTime /\ now' = now + 1
  /\ token' = [c \in Clients |-> [access |-> Unexpired(token[c].access),
                                 refresh |-> Unexpired(token[c].refresh)]]
  /\ UNCHANGED <<data, session>>

(* After an import into an empty database. *)
Init ==
  /\ now = 0 /\ changes = 0
  /\ account \in [Ids -> Accounts \union {None}]
  /\ \A i \in Ids : account[i] # None =>
       account[i] = NewAccount(account[i].number, account[i].auth_group, TRUE)
         /\ account[i].auth_group \in Tiers
  /\ \A i, j \in Ids : i < j /\ account[j] # None =>
       account[i] # None /\ account[i].number # account[j].number
  /\ token = [c \in Clients |-> [access |-> None, refresh |-> None]]
  /\ req = [t \in Threads |-> NoRequest] /\ seen = [t \in Threads |-> None] /\ stale = {}
  /\ lapsed = [i \in Ids |-> [g \in AUTH_GROUPS |-> LongAgo]]
  /\ vacated = [n \in Numbers |-> LongAgo]

ClientStep(c) ==
  \/ \E q \in AuthenticateRequest : Authenticate(c, q)
  \/ Refresh(c) \/ Logout(c) \/ AdminRequest(c)

Transaction(t) ==
  \/ \E c \in Clients, p \in {"last_name", "chosen"} : BeginSetPassword(t, c, p)
  \/ \E c \in Clients, n \in Numbers : BeginResetPassword(t, c, n)
  \/ \E c \in Clients, n \in Numbers, g \in Tiers : BeginSetAuthGroup(t, c, n, g)
  \/ \E n \in Numbers, g \in Tiers, act \in BOOLEAN : BeginImportRow(t, n, g, act)
  \/ Write(t) \/ Rollback(t)

Next ==
  \/ \E c \in Clients : ClientStep(c)
  \/ \E t \in Threads : Transaction(t)
  \/ ImportNew \/ Tick

Spec == Init /\ [][Next]_vars
-----------------------------------------------------------------------------
TierUntil(i, g) == IF HasTier(account, i, g) THEN now ELSE lapsed[i][g]

BearerUntil(n) == IF Bears(account, n) THEN now ELSE vacated[n]

(* Guards trust the tier in the token, and refresh copies it; still, no request passes a
   guard with a tier that its holder lost longer ago than both lifetimes together. *)
TierIsRecent ==
  \A c \in Clients : employee_required(c) =>
    now < TierUntil(token[c].access.identity, token[c].access.auth_group)
            + AccessTTL + RefreshTTL

(* A deactivated or deleted participant gets through for the rest of one access token at
   most, unless the number went to someone else. *)
BearerIsRecent ==
  \A c \in Clients : employee_required(c) =>
    now < BearerUntil(token[c].access.employee_number) + AccessTTL

(* The flag tells the password, whichever changes, resets and imports race: one made from
   the last name is flagged until its owner chose another, and from then on it is not. *)
FlagTellsPassword ==
  \A i \in Ids : account[i] # None =>
    (account[i].password = "last_name") = account[i].password_must_change
-----------------------------------------------------------------------------
(* What the proofs need besides. *)

HistoryInv ==
  /\ \A i \in Ids, g \in AUTH_GROUPS : lapsed[i][g] <= now
  /\ \A n \in Numbers : vacated[n] <= now

(* Claims were true when a token was made from a row. *)
AccessFits(k) ==
  /\ now < k.expires
  /\ k.expires <= TierUntil(k.identity, k.auth_group) + AccessTTL + RefreshTTL
  /\ k.expires <= BearerUntil(k.employee_number) + AccessTTL

RefreshFits(k) ==
  now < k.expires /\ k.expires <= TierUntil(k.identity, k.auth_group) + RefreshTTL

TokenInv ==
  \A c \in Clients :
    /\ \A k \in {token[c].access} \ {None} : AccessFits(k)
    /\ \A k \in {token[c].refresh} \ {None} : RefreshFits(k)

(* Who has read a login row that nobody wrote since knows its flag. *)
SeenInv ==
  \A t \in Threads :
    req[t] # NoRequest /\ <<t, "authentications">> \notin stale /\ account[req[t].id] # None =>
      seen[t] # None /\ seen[t].password_must_change = account[req[t].id].password_must_change

Inv == TypeOK /\ HistoryInv /\ TokenInv /\ SeenInv
=============================================================================
