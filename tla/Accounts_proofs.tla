--------------------------- MODULE Accounts_proofs ---------------------------
(* Proofs about Accounts, for every number of clients, threads, participants   *)
(* and numbers and for any lifetimes of the tokens.                            *)
EXTENDS Accounts, TLAPS

-----------------------------------------------------------------------------
(* Types *)

(* A guard is passed with a token whose claims are of the right kind. *)
LEMMA GuardGivesToken ==
  ASSUME TypeOK, NEW c \in Clients, employee_required(c)
  PROVE  token[c].access # None /\ token[c].access \in Tokens
  BY DEF TypeOK, employee_required, access_required

(* Every way to write a row writes a row of the right type. *)
LEMMA WrittenType ==
  ASSUME TypeOK, NEW t \in Threads, req[t] # NoRequest, account[req[t].id] # None
  PROVE  Written(t) \in Accounts /\ req[t].id \in Ids
<1> DEFINE q == req[t] row == account[req[t].id]
<1>1. q \in Requests /\ q.id \in Ids /\ row \in Accounts
  BY DEF TypeOK, Requests
<1>2. \A r : SetPassword(r, row) \in Accounts /\ ResetPassword(r, row) \in Accounts
  BY <1>1 DEF SetPassword, ResetPassword, Column, Accounts
<1>3. \A r : \A g \in AUTH_GROUPS, x \in Accounts : SetAuthGroup(r, x, g) \in Accounts
  BY DEF SetAuthGroup, Column, Accounts
<1>4. ASSUME NEW r, NEW g \in AUTH_GROUPS, NEW act \in BOOLEAN PROVE ImportRow(r, row, g, act) \in Accounts
  <2>0. ResetPassword(r, row) \in Accounts
    BY <1>2
  <2>1. SetAuthGroup(r, ResetPassword(r, row), g) \in Accounts
    BY <1>3, <2>0
  <2>2. Column(r.active, act, SetAuthGroup(r, ResetPassword(r, row), g).active) \in BOOLEAN
    BY <2>1 DEF Column, Accounts
  <2> QED BY <2>1, <2>2 DEF ImportRow, Accounts
<1>5. q.op = "set_password" \/ q.op = "reset_password"
        \/ (q.op = "set_auth_group" /\ q.auth_group \in AUTH_GROUPS)
        \/ (q.op = "import_row" /\ q.auth_group \in AUTH_GROUPS /\ q.active \in BOOLEAN)
  BY <1>1 DEF Requests
<1>6. CASE q.op = "set_password"
  BY <1>1, <1>2, <1>6 DEF Written
<1>7. CASE q.op = "reset_password"
  BY <1>1, <1>2, <1>7 DEF Written
<1>8. CASE q.op = "set_auth_group" /\ q.auth_group \in AUTH_GROUPS
  BY <1>1, <1>3, <1>8 DEF Written
<1>9. CASE q.op = "import_row" /\ q.auth_group \in AUTH_GROUPS /\ q.active \in BOOLEAN
  BY <1>1, <1>4, <1>9 DEF Written
<1> QED BY <1>5, <1>6, <1>7, <1>8, <1>9

(* A token made from claims of the right kind is a token. *)
LEMMA TokenType ==
  ASSUME TypeOK, NEW k, k.identity \in Ids, k.employee_number \in Numbers,
         k.auth_group \in AUTH_GROUPS, NEW e \in Int
  PROVE  create_token(k, e) \in Tokens
  BY DEF create_token, Tokens

(* Stored rows leave the histories typed. *)
LEMMA StoreType ==
  ASSUME TypeOK, NEW a \in [Ids -> Accounts \union {None}], Store(a), now' = now
  PROVE  /\ account' \in [Ids -> Accounts \union {None}] /\ changes' \in Nat
         /\ lapsed' \in [Ids -> [AUTH_GROUPS -> Int]] /\ vacated' \in [Numbers -> Int]
  BY DEF TypeOK, Store

-----------------------------------------------------------------------------
(* Claims and rows *)

(* Until when an id had a tier, and a number a bearer, never moves back. *)
LEMMA UntilGrowsStore ==
  ASSUME TypeOK, HistoryInv, NEW a \in [Ids -> Accounts \union {None}], Store(a), now' = now
  PROVE  /\ \A i \in Ids, g \in AUTH_GROUPS : TierUntil(i, g) <= TierUntil(i, g)'
         /\ \A n \in Numbers : BearerUntil(n) <= BearerUntil(n)'
         /\ HistoryInv'
<1>1. ASSUME NEW i \in Ids, NEW g \in AUTH_GROUPS
      PROVE  TierUntil(i, g) <= TierUntil(i, g)' /\ lapsed'[i][g] <= now'
  BY DEF TypeOK, HistoryInv, Store, TierUntil, HasTier
<1>2. ASSUME NEW n \in Numbers
      PROVE  BearerUntil(n) <= BearerUntil(n)' /\ vacated'[n] <= now'
  <2>1. vacated'[n] = IF Bears(account, n) /\ ~Bears(a, n) THEN now ELSE vacated[n]
    BY DEF Store
  <2>2. vacated[n] <= now /\ vacated[n] \in Int /\ now \in Int
    BY DEF TypeOK, HistoryInv
  <2>3. BearerUntil(n)' = IF Bears(a, n) THEN now ELSE vacated'[n]
    BY DEF BearerUntil, Store, Bears
  <2> QED BY <2>1, <2>2, <2>3 DEF BearerUntil
<1> QED BY <1>1, <1>2 DEF HistoryInv

(* So a step that writes rows leaves a token as recent as it was. *)
LEMMA FitsAfterStore ==
  ASSUME TypeOK, HistoryInv, NEW a \in [Ids -> Accounts \union {None}], Store(a), now' = now,
         NEW k \in Tokens
  PROVE  /\ AccessFits(k) => AccessFits(k)'
         /\ RefreshFits(k) => RefreshFits(k)'
<1> DEFINE i == k.identity g == k.auth_group n == k.employee_number
<1>1. i \in Ids /\ g \in AUTH_GROUPS /\ n \in Numbers /\ k.expires \in Int
  BY DEF Tokens
<1>2. TierUntil(i, g) <= TierUntil(i, g)' /\ BearerUntil(n) <= BearerUntil(n)'
  BY <1>1, UntilGrowsStore
<1>3. /\ lapsed' \in [Ids -> [AUTH_GROUPS -> Int]] /\ vacated' \in [Numbers -> Int]
  BY StoreType
<1>4. /\ TierUntil(i, g) \in Int /\ TierUntil(i, g)' \in Int
      /\ BearerUntil(n) \in Int /\ BearerUntil(n)' \in Int
  BY <1>1, <1>3 DEF TierUntil, BearerUntil, TypeOK
<1> HIDE DEF i, g, n
<1>5. AccessTTL \in Int /\ RefreshTTL \in Int
  BY AccountsAssumption
<1> QED BY <1>1, <1>2, <1>4, <1>5 DEF AccessFits, RefreshFits, i, g, n

(* A step that leaves the rows and the clock leaves every token as recent as it was. *)
LEMMA FitsFrame ==
  ASSUME UNCHANGED <<now, account, lapsed, vacated>>, NEW k
  PROVE  /\ AccessFits(k) => AccessFits(k)'
         /\ RefreshFits(k) => RefreshFits(k)'
  BY DEF AccessFits, RefreshFits, TierUntil, BearerUntil, HasTier, Bears

LEMMA TokensSurviveStore ==
  ASSUME TypeOK, HistoryInv, TokenInv,
         NEW a \in [Ids -> Accounts \union {None}], Store(a), now' = now, token' = token
  PROVE  HistoryInv' /\ TokenInv'
<1>1. HistoryInv'
  BY UntilGrowsStore
<1>2. ASSUME NEW k \in Tokens
      PROVE  (AccessFits(k) => AccessFits(k)') /\ (RefreshFits(k) => RefreshFits(k)')
  BY FitsAfterStore
<1>3. \A c \in Clients : /\ token[c].access # None => token[c].access \in Tokens
                         /\ token[c].refresh # None => token[c].refresh \in Tokens
  BY DEF TypeOK
<1> QED BY <1>1, <1>2, <1>3 DEF TokenInv

-----------------------------------------------------------------------------
(* Steps *)

LEMMA InitInv == Init => Inv /\ FlagTellsPassword
<1> SUFFICES ASSUME Init PROVE Inv /\ FlagTellsPassword
  OBVIOUS
<1>2. account \in [Ids -> Accounts \union {None}]
  BY DEF Init
<1>3. LongAgo \in Int /\ LongAgo <= 0
  BY AccountsAssumption DEF LongAgo
<1>4. TypeOK
  BY <1>2, <1>3 DEF Init, TypeOK
<1>5. HistoryInv /\ TokenInv /\ SeenInv
  BY <1>3 DEF Init, HistoryInv, TokenInv, SeenInv
<1>6. ASSUME NEW i \in Ids, account[i] # None
      PROVE  account[i].password = "last_name" /\ account[i].password_must_change = TRUE
  BY <1>6 DEF Init, NewAccount
<1> QED BY <1>4, <1>5, <1>6 DEF Inv, FlagTellsPassword

(* Login: the claims are those of a row, so they are as recent as can be. *)
LEMMA AuthenticateInv ==
  ASSUME Inv, NEW c \in Clients, NEW q \in AuthenticateRequest, Authenticate(c, q)
  PROVE  Inv'
<1> USE DEF Inv
<1>1. PICK i \in Ids :
        /\ account[i] # None /\ account[i].active
        /\ token' = [token EXCEPT ![c] = LoginResponse(i)]
        /\ UNCHANGED <<now, data, session>>
  BY DEF Authenticate, get_by_employee_number
<1>2. account[i] \in Accounts
  BY <1>1 DEF TypeOK
<1>3. /\ Claims(i).identity = i /\ Claims(i).employee_number = account[i].number
      /\ Claims(i).auth_group = account[i].auth_group
      /\ account[i].number \in Numbers /\ account[i].auth_group \in AUTH_GROUPS
  BY <1>2 DEF Claims, Accounts
<1>4. now \in Nat /\ AccessTTL \in Nat \ {0} /\ RefreshTTL \in Nat \ {0}
  BY AccountsAssumption DEF TypeOK
<1>5. PICK x \in Tokens : x = create_token(Claims(i), access_token_expires)
  BY <1>3, <1>4, TokenType DEF access_token_expires
<1>6. PICK y \in Tokens : y = create_token(Claims(i), refresh_token_expires)
  BY <1>3, <1>4, TokenType DEF refresh_token_expires
<1>7. /\ x.expires = now + AccessTTL /\ y.expires = now + RefreshTTL
      /\ x.identity = i /\ y.identity = i
      /\ x.auth_group = account[i].auth_group /\ y.auth_group = account[i].auth_group
      /\ x.employee_number = account[i].number
  BY <1>3, <1>5, <1>6 DEF create_token, access_token_expires, refresh_token_expires
<1>8. TierUntil(i, account[i].auth_group) = now /\ BearerUntil(account[i].number) = now
  BY <1>1 DEF TierUntil, HasTier, BearerUntil, Bears
<1>9. AccessFits(x) /\ RefreshFits(y)
  BY <1>4, <1>7, <1>8 DEF AccessFits, RefreshFits
<1>10. AccessFits(x)' /\ RefreshFits(y)'
  BY <1>1, <1>9, FitsFrame DEF data
<1>11. token' = [token EXCEPT ![c] = [access |-> x, refresh |-> y]]
  BY <1>1, <1>5, <1>6 DEF LoginResponse
<1>12. TypeOK'
  BY <1>1, <1>11 DEF TypeOK, data, session
<1>13. TokenInv'
  <2> SUFFICES ASSUME NEW d \in Clients
               PROVE  /\ \A k \in {token'[d].access} \ {None} : AccessFits(k)'
                      /\ \A k \in {token'[d].refresh} \ {None} : RefreshFits(k)'
    BY DEF TokenInv
  <2>1. CASE d = c
    BY <2>1, <1>10, <1>11 DEF TypeOK
  <2>2. CASE d # c
    BY <2>2, <1>1, <1>11, FitsFrame DEF TypeOK, TokenInv, data
  <2> QED BY <2>1, <2>2
<1>14. HistoryInv' /\ SeenInv'
  BY <1>1 DEF HistoryInv, SeenInv, data, session
<1> QED BY <1>12, <1>13, <1>14

(* Refresh: the tier is as old as the refresh token says, the number is borne now. *)
LEMMA RefreshStepInv ==
  ASSUME Inv, NEW c \in Clients, Refresh(c)
  PROVE  Inv'
<1> USE DEF Inv
<1>1. PICK k \in Tokens : k = token[c].refresh /\ RefreshFits(k)
  BY DEF Refresh, RefreshClaims, TypeOK, TokenInv
<1>2. UNCHANGED <<now, data, session>>
  BY DEF Refresh
<1>3. BearerUntil(k.employee_number) = now
  BY <1>1 DEF Refresh, RefreshClaims, get_by_employee_number, BearerUntil, Bears
<1>4. now \in Nat /\ AccessTTL \in Nat \ {0} /\ RefreshTTL \in Nat \ {0}
  BY AccountsAssumption DEF TypeOK
<1>5. PICK x \in Tokens : x = create_token(k, access_token_expires)
  <2>1. k.identity \in Ids /\ k.employee_number \in Numbers /\ k.auth_group \in AUTH_GROUPS
    BY DEF Tokens
  <2>2. access_token_expires \in Int
    BY <1>4 DEF access_token_expires
  <2> QED BY <2>1, <2>2, TokenType
<1>6. /\ x.expires = now + AccessTTL /\ x.identity = k.identity
      /\ x.auth_group = k.auth_group /\ x.employee_number = k.employee_number
  BY <1>5 DEF create_token, access_token_expires
<1>7. TierUntil(k.identity, k.auth_group) \in Int /\ k.expires \in Int
  BY DEF TierUntil, TypeOK, Tokens
<1>8. AccessFits(x)
  BY <1>1, <1>3, <1>4, <1>6, <1>7 DEF AccessFits, RefreshFits
<1>9. AccessFits(x)'
  BY <1>2, <1>8, FitsFrame DEF data
<1>10. token' = [token EXCEPT ![c].access = x]
  BY <1>1, <1>5 DEF Refresh, RefreshResponse, RefreshClaims
<1>11. TypeOK'
  BY <1>2, <1>10 DEF TypeOK, data, session
<1>12. TokenInv'
  <2> SUFFICES ASSUME NEW d \in Clients
               PROVE  /\ \A z \in {token'[d].access} \ {None} : AccessFits(z)'
                      /\ \A z \in {token'[d].refresh} \ {None} : RefreshFits(z)'
    BY DEF TokenInv
  <2>1. token'[d].refresh = token[d].refresh
    BY <1>10 DEF TypeOK
  <2>2. token'[d].access = IF d = c THEN x ELSE token[d].access
    BY <1>10 DEF TypeOK
  <2> QED BY <2>1, <2>2, <1>2, <1>9, FitsFrame DEF TokenInv, data
<1>13. HistoryInv' /\ SeenInv'
  BY <1>2 DEF HistoryInv, SeenInv, data, session
<1> QED BY <1>11, <1>12, <1>13

LEMMA LogoutInv ==
  ASSUME Inv, NEW c \in Clients, Logout(c)
  PROVE  Inv'
<1> USE DEF Inv
<1>1. /\ token'[c] = [access |-> None, refresh |-> None]
      /\ \A d \in Clients \ {c} : token'[d] = token[d]
      /\ UNCHANGED <<now, data, session>>
  BY DEF Logout, TypeOK
<1>2. TypeOK'
  BY DEF TypeOK, Logout, data, session
<1>3. TokenInv'
  BY <1>1, FitsFrame DEF TokenInv, data
<1>4. HistoryInv' /\ SeenInv'
  BY <1>1 DEF HistoryInv, SeenInv, data, session
<1> QED BY <1>2, <1>3, <1>4

(* A committed write of rows of the right type, by whoever. *)
LEMMA StoreInv ==
  ASSUME Inv, NEW a \in [Ids -> Accounts \union {None}], Store(a), now' = now, token' = token,
         req' \in [Threads -> Requests \union {NoRequest}],
         seen' \in [Threads -> Accounts \union {None}],
         stale' \subseteq Threads \X {"employees", "authentications"}, SeenInv'
  PROVE  Inv'
<1>1. TypeOK'
  BY StoreType DEF Inv, TypeOK
<1> QED BY <1>1, TokensSurviveStore DEF Inv

LEMMA OutdatedType ==
  ASSUME NEW i, NEW tables \in SUBSET {"employees", "authentications"}
  PROVE  Outdated(i, tables) \subseteq Threads \X {"employees", "authentications"}
  BY DEF Outdated

(* Requests of the employee service: a row whose flag changes is outdated for everyone
   who has read it, and who was not outdated has read the flag it still has. *)
LEMMA StoreEmployeeInv ==
  ASSUME Inv, NEW i \in Ids, NEW row \in Accounts \union {None},
         NEW tables \in SUBSET {"employees", "authentications"},
         StoreEmployee(i, row, tables),
         "authentications" \in tables
           \/ row = None
           \/ (account[i] # None /\ row.password_must_change = account[i].password_must_change)
  PROVE  Inv'
<1> USE DEF Inv
<1> DEFINE a == [account EXCEPT ![i] = row]
<1>1. /\ a \in [Ids -> Accounts \union {None}]
      /\ Store(a) /\ stale' = stale \union Outdated(i, tables)
      /\ UNCHANGED <<now, token, req, seen>>
  BY DEF StoreEmployee, TypeOK
<1>2. stale' \subseteq Threads \X {"employees", "authentications"}
  BY <1>1, OutdatedType DEF TypeOK
<1>3. SeenInv'
  <2> SUFFICES ASSUME NEW t \in Threads, req'[t] # NoRequest,
                      <<t, "authentications">> \notin stale', account'[req'[t].id] # None
               PROVE  /\ seen'[t] # None
                      /\ seen'[t].password_must_change = account'[req'[t].id].password_must_change
    BY DEF SeenInv
  <2>1. account' = a /\ req'[t] = req[t] /\ seen'[t] = seen[t] /\ <<t, "authentications">> \notin stale
    BY <1>1 DEF Store
  <2>2. req[t].id \in Ids
    BY <1>1 DEF TypeOK, Requests
  <2>3. CASE req[t].id # i
    BY <2>1, <2>2, <2>3, <1>1 DEF SeenInv, TypeOK
  <2>4. CASE req[t].id = i
    <3>1. "authentications" \notin tables
      BY <2>4, <1>1 DEF Outdated
    <3>2. account'[i] = row
      BY <2>1 DEF TypeOK
    <3> QED BY <2>1, <2>4, <3>1, <3>2, <1>1 DEF SeenInv
  <2> QED BY <2>3, <2>4
<1> QED BY <1>1, <1>2, <1>3, StoreInv DEF TypeOK

LEMMA NewAccountType ==
  ASSUME NEW n \in Numbers, NEW g \in AUTH_GROUPS, NEW act \in BOOLEAN
  PROVE  NewAccount(n, g, act) \in Accounts
  BY DEF NewAccount, Accounts

LEMMA CreateInv ==
  ASSUME Inv, NEW i \in Ids, NEW n \in Numbers, NEW g \in Tiers, NEW act \in BOOLEAN,
         Create(i, n, g, act)
  PROVE  Inv'
  BY NewAccountType, StoreEmployeeInv, TiersAssumption DEF Create

LEMMA UpdateEmployeeInv ==
  ASSUME Inv, NEW i \in Ids, NEW n \in Numbers, NEW act \in BOOLEAN, UpdateEmployee(i, n, act)
  PROVE  Inv'
<1>1. account[i] \in Accounts
  BY DEF UpdateEmployee, Inv, TypeOK
<1>2. PICK row \in Accounts : row = [account[i] EXCEPT !.number = n, !.active = act]
  BY <1>1 DEF Accounts
<1>3. row.password_must_change = account[i].password_must_change
  BY <1>1, <1>2 DEF Accounts
<1> QED BY <1>2, <1>3, StoreEmployeeInv DEF UpdateEmployee

LEMMA HardDeleteInv ==
  ASSUME Inv, NEW i \in Ids, HardDelete(i)
  PROVE  Inv'
  BY StoreEmployeeInv DEF HardDelete

(* What a transaction has read is the row as it is. *)
LEMMA BeginInv ==
  ASSUME Inv, NEW t \in Threads, NEW q \in Requests, Begin(t, q), account[q.id] # None
  PROVE  Inv'
<1> USE DEF Inv
<1>1. q.id \in Ids /\ q # NoRequest
  BY DEF Requests, NoRequest
<1>2. TypeOK'
  BY <1>1 DEF Begin, TypeOK, data
<1>3. HistoryInv'
  BY DEF Begin, HistoryInv, data
<1>4. TokenInv'
  BY FitsFrame DEF Begin, TokenInv, data
<1>5. SeenInv'
  BY <1>1 DEF Begin, SeenInv, TypeOK, data
<1> QED BY <1>2, <1>3, <1>4, <1>5

LEMMA RollbackInv ==
  ASSUME Inv, NEW t \in Threads, Rollback(t)
  PROVE  Inv'
<1> USE DEF Inv
<1>1. TypeOK'
  BY DEF Rollback, Finish, TypeOK, data
<1>2. HistoryInv'
  BY DEF Rollback, HistoryInv, data
<1>3. TokenInv'
  BY FitsFrame DEF Rollback, TokenInv, data
<1>4. SeenInv'
  BY DEF Rollback, Finish, SeenInv, TypeOK, data
<1> QED BY <1>1, <1>2, <1>3, <1>4

(* A write of what the transaction has changed in its row. *)
LEMMA WriteInv ==
  ASSUME Inv, NEW t \in Threads, Write(t)
  PROVE  Inv'
<1> USE DEF Inv
<1> DEFINE i == req[t].id
<1>1. Written(t) \in Accounts /\ i \in Ids
  BY WrittenType DEF Write
<1> DEFINE a == [account EXCEPT ![i] = Written(t)]
<1>2. /\ a \in [Ids -> Accounts \union {None}]
      /\ Store(a) /\ now' = now /\ token' = token
      /\ stale' = {p \in stale \union Outdated(i, TablesWritten(t)) : p[1] # t}
      /\ Finish(t) /\ account[i] # None /\ req[t] # NoRequest
  BY <1>1 DEF Write, TypeOK
<1>3. TablesWritten(t) \subseteq {"employees", "authentications"}
  BY DEF TablesWritten
<1>4. stale' \subseteq Threads \X {"employees", "authentications"}
  BY <1>2, <1>3, OutdatedType DEF TypeOK
<1>5. /\ req' \in [Threads -> Requests \union {NoRequest}]
      /\ seen' \in [Threads -> Accounts \union {None}]
  BY <1>2 DEF Finish, TypeOK
<1>6. "authentications" \notin TablesWritten(t) =>
        Written(t).password_must_change = account[i].password_must_change
  <2>1. SUFFICES ASSUME req[t].op = "set_auth_group"
                 PROVE  Written(t).password_must_change = account[i].password_must_change
    BY DEF TablesWritten
  <2>2. account[i] \in Accounts
    BY <1>1, <1>2 DEF TypeOK
  <2> QED BY <2>1, <2>2 DEF Written, SetAuthGroup, Accounts
<1>7. SeenInv'
  <2> SUFFICES ASSUME NEW u \in Threads, req'[u] # NoRequest,
                      <<u, "authentications">> \notin stale', account'[req'[u].id] # None
               PROVE  /\ seen'[u] # None
                      /\ seen'[u].password_must_change = account'[req'[u].id].password_must_change
    BY DEF SeenInv
  <2>1. u # t /\ req'[u] = req[u] /\ seen'[u] = seen[u]
    BY <1>2 DEF Finish, TypeOK
  <2>2. <<u, "authentications">> \notin stale \union Outdated(i, TablesWritten(t))
    BY <1>2, <2>1
  <2>3. req[u].id \in Ids /\ account' = a
    BY <2>1, <1>2 DEF TypeOK, Requests, Store
  <2>4. CASE req[u].id # i
    BY <2>1, <2>2, <2>3, <2>4 DEF SeenInv, TypeOK
  <2>5. CASE req[u].id = i
    <3>1. "authentications" \notin TablesWritten(t)
      BY <2>1, <2>2, <2>5 DEF Outdated
    <3>2. account'[i] = Written(t)
      BY <1>1, <2>3 DEF TypeOK
    <3> QED BY <1>2, <1>6, <2>1, <2>2, <2>3, <2>5, <3>1, <3>2 DEF SeenInv
  <2> QED BY <2>4, <2>5
<1> QED BY <1>2, <1>4, <1>5, <1>7, StoreInv

(* Time passes: tokens that run out are forgotten, tiers and bearers stay. *)
LEMMA TickInv ==
  ASSUME Inv, Tick
  PROVE  Inv'
<1> USE DEF Inv
<1>1. now \in Nat /\ now' = now + 1 /\ UNCHANGED <<data, session>>
  BY DEF Tick, TypeOK
<1>2. \A c \in Clients : /\ token'[c].access = Unexpired(token[c].access)
                         /\ token'[c].refresh = Unexpired(token[c].refresh)
  BY DEF Tick
<1>3. \A k \in Tokens \union {None} : Unexpired(k) \in Tokens \union {None}
  BY DEF Unexpired
<1>4. TypeOK'
  BY <1>1, <1>3 DEF Tick, TypeOK, data, session
<1>5. HistoryInv'
  BY <1>1 DEF HistoryInv, TypeOK, data
<1>6. ASSUME NEW k \in Tokens, Unexpired(k) # None
      PROVE  /\ Unexpired(k) = k
             /\ AccessFits(k) => AccessFits(k)'
             /\ RefreshFits(k) => RefreshFits(k)'
  <2>1. Unexpired(k) = k /\ now' < k.expires
    BY <1>1, <1>6 DEF Unexpired, Tokens
  <2>2. /\ TierUntil(k.identity, k.auth_group) <= TierUntil(k.identity, k.auth_group)'
        /\ TierUntil(k.identity, k.auth_group) \in Int /\ TierUntil(k.identity, k.auth_group)' \in Int
    BY <1>1 DEF TierUntil, HasTier, data, TypeOK, Tokens
  <2>3. /\ BearerUntil(k.employee_number) <= BearerUntil(k.employee_number)'
        /\ BearerUntil(k.employee_number) \in Int /\ BearerUntil(k.employee_number)' \in Int
    <3>1. Bears(account, k.employee_number)' <=> Bears(account, k.employee_number)
      BY <1>1 DEF Bears, data
    <3> QED BY <1>1, <3>1 DEF BearerUntil, data, TypeOK, Tokens
  <2>4. AccessTTL \in Int /\ RefreshTTL \in Int /\ k.expires \in Int
    BY AccountsAssumption DEF Tokens
  <2> QED BY <2>1, <2>2, <2>3, <2>4 DEF AccessFits, RefreshFits
<1>7. TokenInv'
  <2> SUFFICES ASSUME NEW c \in Clients
               PROVE  /\ \A k \in {token'[c].access} \ {None} : AccessFits(k)'
                      /\ \A k \in {token'[c].refresh} \ {None} : RefreshFits(k)'
    BY DEF TokenInv
  <2>1. Unexpired(None) = None
    BY DEF Unexpired
  <2> QED BY <1>2, <1>6, <2>1 DEF TokenInv, TypeOK
<1>8. SeenInv'
  BY <1>1 DEF SeenInv, data, session
<1> QED BY <1>4, <1>5, <1>7, <1>8

-----------------------------------------------------------------------------
(* Theorems *)

LEMMA NextInv ==
  ASSUME Inv, [Next]_vars
  PROVE  Inv'
<1>1. CASE UNCHANGED vars
  BY <1>1, FitsFrame DEF Inv, TypeOK, HistoryInv, TokenInv, SeenInv, vars, data, session
<1>2. ASSUME NEW c \in Clients, ClientStep(c) PROVE Inv'
  <2>1. CASE \E q \in AuthenticateRequest : Authenticate(c, q)
    BY <2>1, AuthenticateInv
  <2>2. CASE Refresh(c)
    BY <2>2, RefreshStepInv
  <2>3. CASE Logout(c)
    BY <2>3, LogoutInv
  <2>4. CASE AdminRequest(c)
    <3>1. PICK i \in Ids :
            \/ \E n \in Numbers, g \in Tiers : Create(i, n, g, TRUE)
            \/ \E n \in Numbers, act \in BOOLEAN : UpdateEmployee(i, n, act)
            \/ HardDelete(i)
      BY <2>4 DEF AdminRequest
    <3>2. CASE \E n \in Numbers, g \in Tiers : Create(i, n, g, TRUE)
      BY <3>2, CreateInv
    <3>3. CASE \E n \in Numbers, act \in BOOLEAN : UpdateEmployee(i, n, act)
      BY <3>3, UpdateEmployeeInv
    <3>4. CASE HardDelete(i)
      BY <3>4, HardDeleteInv
    <3> QED BY <3>1, <3>2, <3>3, <3>4
  <2> QED BY <1>2, <2>1, <2>2, <2>3, <2>4 DEF ClientStep
<1>3. ASSUME NEW t \in Threads, Transaction(t) PROVE Inv'
  <2>1. ASSUME NEW q \in Requests, Begin(t, q), account[q.id] # None PROVE Inv'
    BY <2>1, BeginInv
  <2>2. ASSUME NEW c, NEW p, BeginSetPassword(t, c, p) PROVE Inv'
    <3>1. PICK i \in Ids : account[i] # None /\ Begin(t, [op |-> "set_password", id |-> i])
      BY <2>2 DEF BeginSetPassword, get_by_employee_number
    <3> QED BY <3>1, <2>1 DEF Requests
  <2>3. ASSUME NEW c, NEW n, BeginResetPassword(t, c, n) PROVE Inv'
    <3>1. PICK i \in Ids : account[i] # None /\ Begin(t, [op |-> "reset_password", id |-> i])
      BY <2>3 DEF BeginResetPassword, get_by_employee_number
    <3> QED BY <3>1, <2>1 DEF Requests
  <2>4. ASSUME NEW c, NEW n, NEW g \in Tiers, BeginSetAuthGroup(t, c, n, g) PROVE Inv'
    <3>1. PICK i \in Ids : /\ account[i] # None
                           /\ Begin(t, [op |-> "set_auth_group", id |-> i, auth_group |-> g])
      BY <2>4 DEF BeginSetAuthGroup, get_by_employee_number
    <3> QED BY <3>1, <2>1, TiersAssumption DEF Requests
  <2>5. ASSUME NEW n, NEW g \in Tiers, NEW act \in BOOLEAN, BeginImportRow(t, n, g, act) PROVE Inv'
    <3>1. PICK i \in Ids :
            /\ account[i] # None
            /\ Begin(t, [op |-> "import_row", id |-> i, auth_group |-> g, active |-> act])
      BY <2>5 DEF BeginImportRow, get_by_employee_number
    <3> QED BY <3>1, <2>1, TiersAssumption DEF Requests
  <2> QED BY <1>3, <2>2, <2>3, <2>4, <2>5, WriteInv, RollbackInv DEF Transaction
<1>4. CASE ImportNew
  BY <1>4, CreateInv DEF ImportNew
<1>5. CASE Tick
  BY <1>5, TickInv
<1> QED BY <1>1, <1>2, <1>3, <1>4, <1>5 DEF Next

(* The inductive invariant holds in every reachable state. *)
THEOREM AccountsInvariance == Spec => []Inv
<1>1. Init => Inv
  BY InitInv
<1>2. Inv /\ [Next]_vars => Inv'
  BY NextInv
<1> QED BY <1>1, <1>2, PTL DEF Spec

(* In particular the type invariant. *)
THEOREM AccountsTyped == Spec => []TypeOK
<1>1. Inv => TypeOK
  BY DEF Inv
<1> QED BY <1>1, AccountsInvariance, PTL

(* Whatever the lifetimes: a tier taken from someone is of no use once both have passed. *)
THEOREM TiersAreRecent == Spec => []TierIsRecent
<1>1. Inv => TierIsRecent
  <2> SUFFICES ASSUME Inv, NEW c \in Clients, employee_required(c)
               PROVE  LET k == token[c].access IN
                      now < TierUntil(k.identity, k.auth_group) + AccessTTL + RefreshTTL
    BY DEF TierIsRecent
  <2>1. PICK k \in Tokens : k = token[c].access /\ AccessFits(k)
    BY DEF Inv, TypeOK, TokenInv, employee_required, access_required
  <2>2. TierUntil(k.identity, k.auth_group) \in Int /\ k.expires \in Int /\ now \in Int
    BY DEF Inv, TypeOK, TierUntil, Tokens
  <2> QED BY <2>1, <2>2, AccountsAssumption DEF AccessFits
<1> QED BY <1>1, AccountsInvariance, PTL

(* And a number that no active participant bears opens nothing once an access token's
   lifetime has passed. *)
THEOREM BearersAreRecent == Spec => []BearerIsRecent
<1>1. Inv => BearerIsRecent
  <2> SUFFICES ASSUME Inv, NEW c \in Clients, employee_required(c)
               PROVE  now < BearerUntil(token[c].access.employee_number) + AccessTTL
    BY DEF BearerIsRecent
  <2>1. PICK k \in Tokens : k = token[c].access /\ AccessFits(k)
    BY DEF Inv, TypeOK, TokenInv, employee_required, access_required
  <2>2. BearerUntil(k.employee_number) \in Int /\ k.expires \in Int /\ now \in Int
    BY DEF Inv, TypeOK, BearerUntil, Tokens
  <2> QED BY <2>1, <2>2, AccountsAssumption DEF AccessFits
<1> QED BY <1>1, AccountsInvariance, PTL

-----------------------------------------------------------------------------
(* The flag and the password *)

Tells(row) == (row.password = "last_name") = row.password_must_change

LEMMA AllTell == FlagTellsPassword <=> \A i \in Ids : account[i] # None => Tells(account[i])
  BY DEF FlagTellsPassword, Tells

LEMMA NewAccountTells ==
  ASSUME NEW n, NEW g, NEW act
  PROVE  Tells(NewAccount(n, g, act))
  BY DEF Tells, NewAccount

LEMMA TellsColumns ==
  ASSUME NEW row \in Accounts, NEW new \in Accounts, Tells(row),
         new.password = row.password, new.password_must_change = row.password_must_change
  PROVE  Tells(new)
  BY DEF Tells

(* Whoever knows the flag of a row writes one that tells the password. *)
LEMMA PasswordTells ==
  ASSUME NEW row \in Accounts, NEW r, r.password_must_change = row.password_must_change
  PROVE  Tells(SetPassword(r, row)) /\ Tells(ResetPassword(r, row))
<1>1. row.password_must_change \in BOOLEAN
  BY DEF Accounts
<1>2. /\ SetPassword(r, row).password = "chosen"
      /\ SetPassword(r, row).password_must_change = Column(r.password_must_change, FALSE, row.password_must_change)
      /\ ResetPassword(r, row).password = "last_name"
      /\ ResetPassword(r, row).password_must_change = Column(r.password_must_change, TRUE, row.password_must_change)
  BY DEF SetPassword, ResetPassword, Accounts
<1>3. /\ Column(r.password_must_change, FALSE, row.password_must_change) = FALSE
      /\ Column(r.password_must_change, TRUE, row.password_must_change) = TRUE
  BY <1>1 DEF Column
<1> QED BY <1>2, <1>3 DEF Tells

(* Who sets a password writes a login row that nobody wrote since it was read. *)
PasswordsMeetNoOther ==
  \A t \in Threads :
    Write(t) /\ req[t].op # "set_auth_group" => <<t, "authentications">> \notin stale

(* A transaction that sets a password knows the flag if nobody came in between. *)
LEMMA WrittenTells ==
  ASSUME PasswordsMeetNoOther, Inv, FlagTellsPassword, NEW t \in Threads, Write(t)
  PROVE  Tells(Written(t))
<1> DEFINE q == req[t]
           r == seen[t]
           row == account[req[t].id]
<1>1. /\ q \in Requests /\ row \in Accounts
      /\ Tells(row)
  BY AllTell DEF Write, Inv, TypeOK, Requests
<1>2. q.op # "set_auth_group" => r.password_must_change = row.password_must_change
  <2> SUFFICES ASSUME q.op # "set_auth_group"
               PROVE  r.password_must_change = row.password_must_change
    OBVIOUS
  <2>1. <<t, "authentications">> \notin stale
    BY DEF PasswordsMeetNoOther
  <2> QED BY <2>1 DEF Write, Inv, SeenInv
<1>3. \A x \in Accounts : \A g \in AUTH_GROUPS :
        /\ SetAuthGroup(r, x, g).password = x.password
        /\ SetAuthGroup(r, x, g).password_must_change = x.password_must_change
        /\ SetAuthGroup(r, x, g) \in Accounts
  BY DEF SetAuthGroup, Column, Accounts
<1>4. CASE q.op = "set_password"
  BY <1>1, <1>2, <1>4, PasswordTells DEF Written
<1>5. CASE q.op = "reset_password"
  BY <1>1, <1>2, <1>5, PasswordTells DEF Written
<1>6. CASE q.op = "set_auth_group"
  <2>1. q.auth_group \in AUTH_GROUPS /\ Written(t) = SetAuthGroup(r, row, q.auth_group)
    BY <1>1, <1>6 DEF Written, Requests
  <2> QED BY <1>1, <1>3, <2>1, TellsColumns
<1>7. CASE q.op = "import_row"
  <2> DEFINE reset == ResetPassword(r, row)
             set == SetAuthGroup(r, reset, q.auth_group)
  <2>1. q.auth_group \in AUTH_GROUPS /\ Written(t) = ImportRow(r, row, q.auth_group, q.active)
    BY <1>1, <1>7 DEF Written, Requests
  <2>2. Tells(reset) /\ reset \in Accounts
    <3>1. Tells(reset)
      BY <1>1, <1>2, <1>7, PasswordTells
    <3>2. reset \in Accounts
      BY <1>1 DEF ResetPassword, Column, Accounts
    <3> QED BY <3>1, <3>2
  <2>3. Tells(set) /\ set \in Accounts
    <3> HIDE DEF reset
    <3>1. /\ set.password = reset.password /\ set.password_must_change = reset.password_must_change
          /\ set \in Accounts
      BY <1>3, <2>1, <2>2
    <3> HIDE DEF set
    <3> QED BY <2>2, <3>1, TellsColumns
  <2>4. Written(t) = [set EXCEPT !.active = Column(r.active, q.active, set.active)]
    BY <2>1 DEF ImportRow
  <2>5. /\ Written(t).password = set.password
        /\ Written(t).password_must_change = set.password_must_change
    BY <2>3, <2>4 DEF Accounts
  <2> QED BY <2>3, <2>5 DEF Tells
<1>8. q.op \in {"set_password", "reset_password", "set_auth_group", "import_row"}
  BY <1>1 DEF Requests
<1> QED BY <1>4, <1>5, <1>6, <1>7, <1>8

(* So does every way of writing a row. *)
LEMMA RowsTell ==
  ASSUME Inv, FlagTellsPassword, NEW i \in Ids, NEW row,
         account' = [account EXCEPT ![i] = row], row # None => Tells(row)
  PROVE  FlagTellsPassword'
<1>1. \A j \in Ids : account'[j] = IF j = i THEN row ELSE account[j]
  BY DEF Inv, TypeOK
<1>2. \A j \in Ids : account[j] # None => Tells(account[j])
  BY AllTell
<1>3. \A j \in Ids : account'[j] # None => Tells(account'[j])
  BY <1>1, <1>2
<1> QED BY <1>3 DEF FlagTellsPassword, Tells

LEMMA NextTells ==
  ASSUME [PasswordsMeetNoOther]_vars, Inv, FlagTellsPassword, [Next]_vars
  PROVE  FlagTellsPassword'
<1>1. CASE account' = account
  BY <1>1 DEF FlagTellsPassword
<1>2. ASSUME NEW i \in Ids, NEW n \in Numbers, NEW g \in Tiers, Create(i, n, g, TRUE)
      PROVE  FlagTellsPassword'
  BY <1>2, NewAccountTells, RowsTell DEF Create, StoreEmployee, Store
<1>3. ASSUME NEW i \in Ids, NEW n \in Numbers, NEW act \in BOOLEAN, UpdateEmployee(i, n, act)
      PROVE  FlagTellsPassword'
  <2> DEFINE row == [account[i] EXCEPT !.number = n, !.active = act]
  <2>1. account[i] \in Accounts /\ Tells(account[i])
    BY <1>3, AllTell DEF UpdateEmployee, Inv, TypeOK
  <2>2. /\ row.password = account[i].password
        /\ row.password_must_change = account[i].password_must_change
    BY <2>1 DEF Accounts
  <2>3. Tells(row)
    BY <2>1, <2>2 DEF Tells
  <2> HIDE DEF row
  <2> QED BY <1>3, <2>3, RowsTell DEF UpdateEmployee, StoreEmployee, Store, row
<1>4. ASSUME NEW i \in Ids, HardDelete(i)
      PROVE  FlagTellsPassword'
  BY <1>4, RowsTell DEF HardDelete, StoreEmployee, Store
<1>5. ASSUME NEW t \in Threads, Write(t)
      PROVE  FlagTellsPassword'
  <2>1. req[t].id \in Ids /\ account' = [account EXCEPT ![req[t].id] = Written(t)]
    BY <1>5 DEF Write, Store, Inv, TypeOK, Requests
  <2>2. CASE UNCHANGED vars
    BY <2>2, <1>1 DEF vars, data
  <2>3. CASE PasswordsMeetNoOther
    BY <1>5, <2>1, <2>3, WrittenTells, RowsTell
  <2> QED BY <2>2, <2>3
<1>6. ASSUME NEW c \in Clients, ClientStep(c)
      PROVE  FlagTellsPassword'
  <2>1. CASE AdminRequest(c)
    <3>1. PICK i \in Ids :
            \/ \E n \in Numbers, g \in Tiers : Create(i, n, g, TRUE)
            \/ \E n \in Numbers, act \in BOOLEAN : UpdateEmployee(i, n, act)
            \/ HardDelete(i)
      BY <2>1 DEF AdminRequest
    <3> QED BY <3>1, <1>2, <1>3, <1>4
  <2>2. CASE (\E q \in AuthenticateRequest : Authenticate(c, q)) \/ Refresh(c) \/ Logout(c)
    BY <2>2, <1>1 DEF Authenticate, Refresh, Logout, data
  <2> QED BY <1>6, <2>1, <2>2 DEF ClientStep
<1>7. ASSUME NEW t \in Threads, Transaction(t)
      PROVE  FlagTellsPassword'
  <2>1. CASE Write(t)
    BY <2>1, <1>5
  <2>2. CASE ~Write(t)
    <3>1. account' = account
      BY <1>7, <2>2 DEF Transaction, BeginSetPassword, BeginResetPassword, BeginSetAuthGroup,
                        BeginImportRow, Begin, Rollback, data
    <3> QED BY <3>1, <1>1
  <2> QED BY <2>1, <2>2
<1>8. CASE UNCHANGED vars \/ Tick
  BY <1>8, <1>1 DEF vars, Tick, data
<1>9. CASE ImportNew
  BY <1>9, <1>2 DEF ImportNew
<1> QED BY <1>6, <1>7, <1>8, <1>9 DEF Next

(* With any database: as long as nobody writes a login row between the read and the write of a
   transaction that sets its password, the flag of every row tells its password.  A transaction that
   changes the tier only may come at any time after its own read. *)
THEOREM FlagsTellUnlessRaced == Spec /\ [][PasswordsMeetNoOther]_vars => []FlagTellsPassword
<1>1. Init => Inv /\ FlagTellsPassword
  BY InitInv
<1>2. (Inv /\ FlagTellsPassword) /\ [Next]_vars /\ [PasswordsMeetNoOther]_vars => (Inv /\ FlagTellsPassword)'
  BY NextInv, NextTells
<1> QED BY <1>1, <1>2, PTL DEF Spec

(* If an UPDATE of a row that was written since it was read fails, that is always so: the flag of
   every row tells its password, whichever changes, resets, tier changes and imports race. *)
THEOREM FlagsTellPasswords ==
  ASSUME SnapshotIsolation
  PROVE  Spec => []FlagTellsPassword
<1>1. PasswordsMeetNoOther
  BY DEF PasswordsMeetNoOther, Write, Conflicts, TablesWritten
<1> QED BY <1>1, FlagsTellUnlessRaced, PTL

=============================================================================
