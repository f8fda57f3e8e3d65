# Verification of base_multi_tenant_fastapi

TLA+ specifications of the ERP backend: its two session engines, authorization,
tenant provisioning, the inventory and the life cycles of its business
documents. They are model-checked with TLC and, for their safety properties,
proved with TLAPS for every value of the constants. Paths are relative to the
repository's `app/`.

## 1. The system

A FastAPI service with SQL Server (one database per tenant or a shared one)
and Redis. A request is an asyncio task; every `await` lets other requests of
the same process run, and several processes serve the same databases. There is
no queue and, besides the token cleanup and the synchronisation of permissions
at startup, no background work. The hard behaviour is in what requests do to
each other through the tables, through Redis and through per-process caches.
Nothing retries a transaction that failed.

### Components

| Component | State it keeps | Operations | Interacts with | Correct when |
|---|---|---|---|---|
| Session V2 transactions (`infrastructure/database/queries/auth/session`, `core/application/unit_of_work.py`, `V031`) | `user_session`, `token_family`, `refresh_tokens`; row locks | create, rotate, revoke, revoke all, replay | called by the services, one unit of work each | a session has one usable token and one linear chain; an ended session stays dead |
| Session V2 services (`modules/auth/application/services/session_*`) | locals of a request across awaits | login with eviction, refresh, logout, revoke, logout-all | transactions, then Redis, then audit | limit, replay and idle decisions hold although they were taken before the transaction |
| Redis bridge and blacklist (`session_redis_bridge.py`, `infrastructure/redis/client.py`, `api/deps.py`) | session → access jti, blacklisted jtis | link, blacklist | after the commits of the services; read by every authenticated request | the access token of a closed session is refused |
| Legacy sessions V1 (`refresh_token_service.py`, `rotate_refresh_token_service.py`, `auth_service.py`, `endpoints.py`) | one table, a row per token | login, refresh, change of company, logout, logout-all, revocation by id, password change, cleanup | the engine of every tenant not moved to V2 (`core/config.py:118`) | at most one live token per session, none after it ended |
| Authorization (`core/authorization`, `modules/rbac`, `modules/users`) | roles, permissions, assignments; a cache with a TTL in each process | resolve, replace the permissions of a role, assign, revoke, switch roles and users | every authorised request | an answer is recent; a replaced set leaves nothing behind |
| Permission catalogue (`core/authorization/permission_sync_service.py`) | `permiso` | synchronise at startup | all processes at once, of different versions | it ends up as the deployed version's |
| Tenant provisioning (`modules/tenant`, `modules/modulos`) | modules of a tenant, grants of its standard roles | onboard, repair, ensure, contract, remove | the catalogue, while processes write it | a tenant is provisioned completely or not at all |
| Inventory (`modules/inv`) | movement, count and stock rows; row locks | create, edit, authorise, annul, process, reverse, approve | stock shared by all documents | stock is derived from the processed movements |
| Business documents and master data (most packages of `modules`) | one row per document, its lines | create, edit, list, transitions, lines, switch on and off | the generic UPDATE of `queries_async.py` | no approval is skipped; an answer tells what happened |
| Tenant connection routing (`core/tenant/routing.py`) | process, Redis and engine caches | resolve | every query | a tenant never reads another's database |

`PROJECT.json` lists all components with what each leaves out, and the hazards
at their lines.

### What is hard here

- Check then act: nearly every service reads a row, awaits, decides on what it
  read, and writes by the row's key alone.
- Set-oriented UPDATEs: logout-all under V2 is three of them and each sees the
  rows committed when it runs; under V1 it is one, which passes by the rows
  inserted behind it.
- Lock orders: rotation locks token, family, session; revocation session,
  family, tokens; replay family, session, tokens. Postings lock stock rows in
  the order of the document's lines.
- Two stores: Redis is written after the database commits, and fail-soft. A
  permission cache is filled after a read and may be filled after it was
  invalidated; for a tenant with its own database the read is two awaited
  SELECTs, one per database.
- Retries: a client that lost the answer to a refresh retries with a token
  that is consumed by then.
- Startup: processes of two versions write one catalogue, statement by
  statement, and tenants are provisioned from it meanwhile.
- Mixed transactions: onboarding is one, an assignment of a standard role is
  three, a repair commits what it did when it fails.

## 2. Modules

Each component has a module with its state and actions, `…Props` with its
properties, `…Proofs` with the theorems and `MC…` with the values TLC needs.
The comments say what is abstracted; `PROJECT.json` ("map") gives the lines each
definition stands for.

| Module | What it is |
|---|---|
| `SessionTables` | the V2 tables, and what each transaction does to them when it commits |
| `SessionTx` | the five transactions, statement by statement, with row locks, rollback and deadlock victims |
| `SessionContract` | what a session subsystem promises, without tables or locks; implemented by `SessionTx` and by `LegacyTokens` |
| `SessionService` | the V2 services: sequences of awaited calls in which the transactions are single steps, and Redis |
| `LegacyTokens` | the V1 engine, statement by statement |
| `StockLedger` | what the inventory promises: a ledger, and a stock that is its sum |
| `Inventory` | movements, counts and stock, statement by statement |
| `LifeCycle` | what the endpoints of a document promise: one request at a time |
| `Documents` | one document of any type, and the requests that race over it |
| `DocumentTypes`, `RegisterTypes` | the life cycle each service enforces: documents with an estado, master data with a flag |
| `DocumentBodies`, `DocumentRows`, `DocumentRoutes` | what the bodies may carry, what the UPDATEs repeat, what the routers expose |
| `DocumentCatalogue` | the four put together: one record for each of 95 tables |
| `Access` | users, roles, permissions, modules and the caches of the processes |
| `PermissionSync` | the catalogue of permissions and the processes that write it |
| `TenantGrants` | extends `PermissionSync` with the provisioning of tenants |

Operators whose comment begins with "(Faulty:" are not part of any
specification. Each is the definition that follows it with a plausible bug; they
are used to make sure that a property notices the bug.

### SessionTx

- A worker is a request inside a `UnitOfWork`; `op` is its transaction and `at`
  its next statement. `sLock`, `fLock`, `tLock` hold the exclusive row locks.
- A statement waits while another transaction has a row it matches
  (`Free`), also one that is inserted and not committed (`RowSession`).
- Writes are buffered: they are the rows the worker has locked, and are applied
  by `CommitCreate`, `CommitRotate` or `CommitRevoke`. `Rollback` only drops the
  locks. No other transaction can read an uncommitted row, so this is what
  READ COMMITTED shows.
- Every transaction may begin for any row that once satisfied the service's
  check, because the services check outside the transaction.
- `DeadlockVictim` is SQL Server's error 1205, `Fail` a lost connection or a
  process that stops, `Expire` the clock passing an `expires_at`.
- A token family is identified with its session (`V031`, 1:1). Rows that do not
  exist are `"absent"` sessions and tokens of `NoSession`. `uuid4()` never
  repeats (`FreshSession`, `FreshToken`).

### SessionService

- `request[w]` is a request: its operation, its locals, and its next call in
  `at`. Any other request may run between two calls.
- `SessionTx` justifies its atomic steps: both use the operators of
  `SessionTables`, and in `SessionTx` these are the only changes of the tables,
  made at COMMIT on locked rows. Logout-all is the exception: what its first
  UPDATE matches can be older than what the others match, so it is two steps
  (`CloseAll`, `CommitAll`).
- `link` and `barred` are the Redis keys. When `"redis_fails"` is among the
  events every read may find nothing and every write may be dropped,
  independently (`Read`, `Written`).
- Every refresh token comes with two access tokens: `Draft(t)`, whose jti is
  linked to the session, and `Bearer(t)`, which is encoded afterwards with the
  session id and sent to the client.
- `delivered` is what the client has. `presented`, `repeated`, `linked` and
  `relics` are history, and appear in properties only. A password change
  continues as a login of the same user, as in the code.

### LegacyTokens

- A session is only the chain of rows each refresh rotates into the next;
  `root` (history) is the token its chain began with.
- A request is its next statement (`pc`) and what its last one read. Every
  statement is a transaction, except `Rotate`, which locks, inserts and revokes
  in one. A read that was overtaken by another rotation is answered with an
  access token alone (`Overtaken`).
- `Fail` stops a request between any two statements; a login then answers with
  tokens all the same. `Expire` and `Purge` are the clock and the cleanup.
- Which sessions are the oldest, and whether a session has been idle too long,
  is left open. Rows revoked before reasons were kept are in `Init`.
- The queries are taken over the table they were written for. At this commit
  they cannot run as they are: `infrastructure/database/tables.py:376` moved on
  to V2 and lacks columns they name (`client_type`, `device_name`,
  `uso_count`), and under `V020` an INSERT of V1 leaves the NOT NULL
  `family_id` out. Such an error is `Fail`, which may strike at every step, so
  the safety results hold at this commit too, where most requests fail.

### Inventory

- A request (`op`, `at`, `target`) runs over movements, counts and stock cells.
  `wrote` holds the stock its unit of work has written and not committed,
  `doc` the movement it is posting. Only `estornar` locks what it read
  (`LockOriginal`); the others read and later write by key.
- The posting loop (`ReadStock`, `WriteStock`) reads one cell without a lock
  and writes an absolute value; transfers have two postings per line. Refusals,
  the division by zero of the moving average, and the key that refuses a second
  INSERT of a cell roll everything back.
- `MaxStock` is the width of the DECIMAL column, `MaxLines` bounds a document.
  The values of the moving average, lots and numbering are left out.

### Documents and their catalogue

- `Documents` is one row, of a type that `Init` chooses, and any number of
  requests. A transition reads the estado (`Begin`), and sends one UPDATE
  (`Move`, or `Miss` when it repeats an estado that is gone). A PUT (`Edit`)
  may write an estado from its body. A line is checked against the document's
  estado and written by its own key (`EditLine`); where the line's body may
  name another document, a line may leave or come when the other document was
  the one checked (`TakeLine`). `Look` is a read, `Reject` any check of a
  request that the estado does not decide: permissions, validation, totals.
- A type is a record. `DocumentTypes` and `RegisterTypes` hold what each
  service decides, `DocumentBodies` the default estado of the Create model and
  whether an Update may carry the estado or a line's document,
  `DocumentRows` the estados an UPDATE or SELECT repeats (most repeat none: `PorClave`),
  `DocumentRoutes` the operations that are exposed. `DocumentCatalogue` builds
  the record: an operation without a route does not exist, an estado the body
  cannot carry is not written.
- These layers are small on purpose. A definition in them stands for a file of
  models, statements or routes of which an estado sees one or two facts; all
  columns, filters, amounts and messages are abstracted.
- The `ops` of a register are its flag; its DELETE is `desactivar`.

### Access, PermissionSync and TenantGrants

- `Access`: each worker is served by one process (`ProcesoDe`). A look-up
  (`Acierto`, `Fallo`, `Leer`, `LeerCentral`, `LeerSuscripcion`, `Guardar`)
  looks into the cache, reads, and stores what it read, however old (`MaxFill`:
  the code has no request timeout, so the time between the first read and the
  store is a parameter). `dedicada`, which `Init` chooses, is the branch on
  `database_type` (a later change of tipo_instalacion, which points the tenant at
  other rows, is left out): in the shared database one statement joins assignments and catalogue; for a tenant
  with its own, `_permisos_dedicated` reads the assignments there and then, in
  a second awaited statement, the central catalogue and contracts. With
  `filter_by_subscription` (off by default) the contracts are read once more.
  What the reads give is intersected, and each may fail and be taken for empty.
  A session has a company or none (`Global` in `Sesiones`: no company is asked
  for). Changes of roles and contracts drop entries of the process that made
  them; changes of the catalogue, whose rows lose `es_activo` or their module,
  drop none. `since` (history) is how long ago each read would have given
  exactly a set. `pedido` is what calls that replace a role's permissions have
  asked for.
- `PermissionSync`: a process starts with a version, looks modules up, reads
  the table, then writes code by code (`Escribir`) and retires what it does not
  declare (`Retirar`). A statement may fail (at most `MaxFallos` times in a
  start) and is logged; a process may stop at any time.
- `TenantGrants`: a task of a worker is a bootstrap (`"alta"`, `"reparar"`), an
  assignment of a standard role (`"asegurar"`), or a change of contracts or of
  the catalogue of modules. `filas` and `dados` are rows its transaction has
  inserted; inserting a row that another transaction holds waits. `firme`
  (history) is what has been valid ever since the worker began. Standard roles
  exist; menus, expiry, plan templates and dependencies of modules are left out.

## 3. What the runs check

Names in configurations select operations and events. Ids of tokens,
sessions, movements, processes and requests are symmetric where a run says
SYMMETRY and states no liveness.

| Run | Instance | Shows |
|---|---|---|
| `transactions` | 2 sessions of one user, 3 tokens, 2 requests, all operations | chains are linear, one usable token per session, compromised families and closed sessions are dead, a rotation owns the rows it will write; nothing is resurrected, closed sessions issue no token; `ImplementsContract` |
| `liveness` | 1 session, 2 tokens, 2 requests | every transaction ends |
| `service_sequential` | 1 request at a time, limit 2, 3 sessions, 3 tokens, all operations | the session limit when there is something to choose; a password change ends every older session; one linked access token alive per session |
| `service_replay` | 2 requests, 1 session, 2 tokens, login, refresh and revocation, with expiry, idleness, stopped requests and Redis down | only reuse is a replay; reuse is never merely refused |
| `legacy` | 2 requests, 3 tokens, limit 1, all operations | two live tokens never share a session; no access token for a session that had ended before; `ImplementsContract` |
| `inventory_concurrent` | 2 requests, 1 warehouse, 2 products, 3 movements, 1 count whose lines are in the other order | one compensation, an estornado movement is compensated, an adjusted count is posted, every request ends |
| `inventory_sequential` | 1 request, 2 warehouses, 1 product, 3 movements, 1 count, all operations and classes | every stock change is one posting of the ledger; a reversal is the inverse; a count is adjusted once |
| `inventory_derived` | 2 requests that process one movement | refutes that stock is derived (section 4) |
| `documents_all` | each of 95 types, 2 requests, every operation | no estado before those that must come first; `ImplementsLifeCycle` |
| `access` | 2 processes with a worker each, 1 user, role, permission, module, company and assignment row, TTL 0, MaxFill 1. A tenant in the shared database: every kind of change, on both workers. A tenant with its own: one worker changes assignments and permissions, contracts expire, the permission and the module leave and enter the catalogue, the other worker looks up with and without the filter | each read behind an answer would have given the same at most TTL + MaxFill ago; no permission survives its replacement |
| `catalogue` | 2 processes, 3 versions, 3 codes, one failed statement each | the catalogue converges |
| `tenants` | 1 tenant, worker, process, 2 codes, 2 versions, one failed statement | a tenant is complete when it appears or is told repaired; an assigned role has its base |

Each finishes within four minutes on two cores.

Bounds. Two requests are enough for a race of two transactions; a chain of
three tokens has a consumed token whose successor is consumed too; two sessions
are what a bulk operation matches, and one more than the limit is for eviction.
With three movements one can be processed, reversed, and its reversal attacked.
A document is one row and a third request can only repeat what two do to it.
Two processes are a cache that is stale and one that is not. A look-up of a
dedicated tenant is torn by one request that changes something between its
reads, so one worker of each sort is enough there, and users, contracts by request
and the role's es_activo, which its reads see no differently, change in the shared
database only (`ByKind` in `MCAccess`). With TTL 0 an entry is served only until
time passes; for what is served later there is the theorem, which holds for every
TTL and MaxFill. Two versions with
a third between them have a code that comes and one that goes. A second worker
in `tenants` multiplies the states without a new property violated (5.7 million
states, tried once); the theorems cover it. Ids are the only bound on a history
in the session and inventory modules: a behaviour ends when they are used up,
which is why the inventory runs do not check deadlock. Where section 5 proves a
property, none of these bounds matters.

`SentByClients` in `documents_all` says that clients of tickets and service
orders send no estado in a PUT. With it the property holds; without it see
section 4.

### Fairness

`FairSpec` of `SessionTx` and of `Inventory` gives each worker strong fairness
of its statements and weak fairness of `DeadlockVictim`. A lock wait in SQL
Server is a queue: a statement whose rows are free again and again gets them.
The lock monitor runs periodically, so a cycle that persists is broken. Nothing
is assumed about new requests, failures or the clock. The other modules state no
liveness: their requests never wait for each other, and what their users would
wait for (a cache to expire, a process to start) the code does not promise.

## 4. Where the code and its documentation disagree

The first is the run `inventory_derived`. The others were found by TLC on the
same modules with the sentence as the property; the models contain the
behaviour, and the properties that pass do not exclude it.

Inventory and documents

- `../docs/INV_FRONTEND_CONSUMPTION_RC1.md:20` and
  `docs/auditoria/INV_IMPLEMENTACION_P0-002.md:75` make the stock the sum of the processed movements. `procesar` reads the
  movement with a plain SELECT and writes it unconditionally: two requests post
  one movement twice, and a line edited meanwhile is in the movement but not in
  the stock.
- `ticket_service.py:96`: "Los cambios de estado deben realizarse mediante los
  endpoints de transición". The PUT compares the body's estado with the one it
  read and then writes it by the row's key: a transition committed in between is
  undone, a closed ticket is open again, and both were answered with success.
  `orden_servicio_service.py:84` is the same.
- `asiento_contable_service.py:299`: "Actualiza un detalle solo si el asiento
  padre está en borrador". The body's `asiento_id` is checked instead of the
  line's own, so a line of an approved entry moves to a draft. The same in
  `plan_produccion_detalle_service.py:102` and
  `consumo_materiales_service.py:47`.

Sessions V2

- `V031:300` has "1:1 … una familia activa". A login that commits between the
  UPDATEs of a logout-all stays active with a compromised family and revoked
  tokens. Eviction and revocation by id do not find it; it counts against the
  limit.
- Revoking a session also marks its consumed tokens revoked, which V031 calls a
  violation.
- Two concurrent logins exceed the session limit.
- A login with the old password survives a password change that raced with it.
- Logout-all blacklists no access token of a session it closed, even alone.
- The access token sent to the client is never linked (the draft is), so
  revoking its session from elsewhere does not stop it. A revocation between the
  commit and the link of a refresh leaves the linked one alive too.
- The slower of two concurrent refreshes closes the session; the specification
  promises it a new access token.

Sessions V1

- Logout-all ("Revoca todos") may miss the successor of a token rotated while
  its UPDATE runs (`passed` in `RevokeAll`).
- Logout with a token already rotated answers that it was revoked, while its
  successor lives; revoking a listed session that a refresh has rotated answers
  that it was closed already.
- A change of company that was overtaken answers with a refresh token that no
  row stands for; so does a login whose INSERT failed.
- `refresh_token_service.py:44` announces real detection of reuse; a token
  rotated earlier is exempt from it.
- The session limit is checked before the INSERT and races.

Authorization and tenants

- `user_service.py:1414` assumes one row per user and role; the key of
  `V020:382` includes the company. Two concurrent assignments in two companies
  both insert, and a revocation reads one of the rows.
- Where the code is not contradicted but surprises: a dedicated tenant whose
  user loses a role and whose module is activated between the two SELECTs is
  answered, and gets cached, a set that was never granted at one moment
  (`permisos_usuario_service.py:111-181`). `filter_by_subscription` is not part
  of the cache key (`permission_cache.py:22`), so a call with the filter is
  given what the menu cached without it. `AnswersAreRecent` admits both.
- `docs/auditoria/RBAC_V1_FINAL.md:324` lists the activation of a module among
  what synchronises the owner; `cliente_modulo_service.py:404` synchronises
  nothing (only deactivation is notified).
- The same file, line 433, has all bundles in one transaction; errors of the
  standard bundles are logged and skipped.

## 5. What is proved

All theorems hold for any values of the constants that satisfy the `ASSUME`s of
the modules: any number of requests, tokens, sessions, documents, tenants,
processes, and any table of document types that is well formed. No `ASSUME` says
more than what the constants are (null is not an id, a row or a function, bounds are numbers, a
session has one owner, a user's sessions are finite in number, the catalogue's
sets are sets of codes and modules),
except `OrderAssumption` of `DocumentsProps`, which says that the table of a type
respects the order the type claims; TLC evaluates it on all 95 types.

| Module | Theorems | The invariant adds |
|---|---|---|
| `SessionTxProofs` | `TypeOK`, `LinearChain`, `SingleCredential`, `CompromisedFamilyIsDead`, `ClosedSessionIsDead`, `RotationOwnsItsRows`, `NoResurrection`, `ClosedSessionIssuesNothing`, `ImplementsContract` | what a transaction has drawn and locked at each statement |
| `SessionServiceProofs` | `TypeOK`, `OnlyReuseIsReplay`, `UsedTokenEndsSession`; in turns: `SessionLimit`, `PasswordChangeEndsOldSessions`, `OneLinkedAccess` | what a refresh knows of the tables it read earlier; room for one session once a login has evicted; who still has to close what; that what was read of a mapping is still there |
| `LegacyTokensProofs` | `TypeOK`, `OneActivePerSession`, `NoAccessAfterEnd`, `ImplementsContract` | every live row has a root; a late request's session has ended, and the request never comes to the rotation |
| `InventoryProofs` | `TypeOK`, `OneCompensation`, `EstornadoIsCompensated`, `AdjustedCountIsPosted`; kept apart: `OneAdjustmentPerCount`, `EstornoIsInverse`, `ImplementsLedger` | what a request has read or locked, and that its ids are its own; that what was posted is not written again; how far a posting has come |
| `DocumentsProofs` | `TypeOK`, `NothingIsSkipped`, `ImplementsLifeCycle` | the estado a request has read is one the document has been in |
| `AccessProofs` | `TypeOK`, `AnswersAreRecent`, `OnlyAskedFor` | the age of what is cached, and the clock of a look-up, bound `since` of each read behind it |
| `PermissionSyncProofs` | `SyncTypeOK`, `SyncConverges` | what all processes together have settled about a code |
| `TenantGrantsProofs` | `TypeOK`, `TenantsAreComplete`, `AssignedRolesHaveBase` | what a task has reached at its step, for codes valid all along |

Session transactions. None of the invariants is inductive. `WorkersInv`
describes a transaction in flight: which ids it has drawn (never another's),
which rows it has locked at which statement, and that what it checked when it
locked a row still holds; nobody else can write a locked row, so it stays true
until the commit. `TablesInv` is what holds of the committed rows: consumed
tokens have one successor, a usable token is its family's current one, a closed
session has a compromised family and no usable token. There is a lemma per
action: inside a transaction only the lock matters, at a commit the rows locked
are the rows written. The refinement follows: `CommitCreate` is `Open`,
`CommitRotate` is `Refresh`, `CommitRevoke` is `End`, the rest stutters.

Session services. `ReuseInv` counts presentations: a consumed token has been
presented, two refreshes in flight with the same token make it repeated, and a
refresh that finds its token consumed is not the one that consumed it.
`DeadInv` is the part of `TablesInv` that survives when the bulk close is a step
of its own, `PunishOK` what a refresh knows at each call of the tables it read
before. They meet in `Keeps`: no step makes a compromised family valid,
un-expires a session, or consumes a token that is revoked or expired, so a
conclusion from an earlier read is still true at the answer.

Requests that take turns. Six properties are false when certain requests meet;
the table says what goes wrong then, and the two sequential runs keep every
request apart from every other. The theorems ask for less: each assumes, as a
hypothesis of its own (`SessionServiceProps`, `InventoryProps`), only the
meetings away that break its property, and everything else still interleaves.

| Hypothesis | What must not meet | Property | Otherwise |
|---|---|---|---|
| `TurnsPerUser` | logins, logout-alls and password changes of one user | `SessionLimit`, `PasswordChangeEndsOldSessions` | two logins count the same sessions; a login that checked the old password opens its session after the closing |
| `TurnsPerLink` | two requests between reading and writing the mapping of one session | `OneLinkedAccess` | both blacklist the same predecessor and one successor stays alive unlinked |
| `ApprovalsApart` | an approval of a count with another one, or with a finalizar that read it before | `OneAdjustmentPerCount` | the count adjusts the stock twice |
| `EditsApart` | processing a movement with an edit of it | `EstornoIsInverse` | other lines are posted than the reversal copies |
| `PostingsApart` | processing a movement with another writer of it; two postings with a stock row in common | `ImplementsLedger` | it is posted twice, or one posting overwrites the other |

The code enforces none of them: they say what a caller, or a lock yet to be
written, has to provide. They are assumptions about whole behaviours
(`Spec /\ []TurnsPerUser => []SessionLimit`), not restrictions of `Next`. Two
theorems also exclude a fault. `PasswordChangeInTurns` assumes that no request
breaks off (`"request_fails" \notin Events`): one that dies between the new
password and the closing of the sessions leaves the old ones open for good.
`OneLinkedAccessInTurns` assumes that Redis answers: a write that is lost leaves
the old access token neither linked nor blacklisted, and the code logs and goes
on.

- `LimitInv`: a login that has evicted has room for its session (`LimitOK`). The
  eviction list is what remains to be closed, and without it the user is below
  the limit; no other request of the user adds to it, so the count can only
  fall. Cardinalities are those of `FiniteSetTheorems`. It also carries that an
  active session has a valid family and a place in `order`: an eviction that
  skipped one would not make room.
- `RelicInv`: a session older than the password is closed, or a password change
  of its owner is on its way to close it (`Closing`); by `LimitInv` all that is
  active of the user is on that request's list. No login goes on with a password
  that was replaced meanwhile (`stale`).
- `LinkInv`: between the read and the write of a mapping nobody else writes it,
  so the draft that is blacklisted is the one that is replaced.

Legacy tokens. Every step that changes the table either takes live rows away,
replaces one by a new row of the same session, or starts a session. Each of the
three keeps `TableInv` and is a step of the contract; `LocalOK` says that a
session which had ended when a request began is still ended.

Inventory. `RowsOK` says which document made a row: a compensation of `m` is
processed and names `m`, an adjustment is processed and names its count. That
`estornar` cannot find a compensation twice follows from its lock on the
original (`Reversal`), held until its commit; that an adjusted count keeps its
movement, from the gate that refuses the reversal of adjustments and from
processed rows being out of every other operation's reach.

Inventory, kept apart. `AdjustInv`: a count with an adjustment is `ajustado`, or
`anulado` by a request that had read it before, and nobody under way could open
or approve it again (`ClosedCounts`); only a finalizar that had read the count
before, or a second approval, could.
`MirrorInv`: from the moment a movement is posted its lines and header no longer
change and no edit of it is under way (`FrozenRows`); so the lines that
`estornar` copies are the lines that were posted (`Mirrored`, `Reversing`), and
the reversal of each posting falls on the same stock row with the opposite sign.
`LedgerInv`: a request that posts has written, in each stock row, the committed
value plus what its document adds there up to its position (`PostingAt`), and
nobody changes that row or that document before it commits (`PostedAlone`,
`HeldDocument`). Its commit is therefore one entry of `StockLedger`, every other
step stutters.

What a movement adds to a stock row is a sum over its lines, the recursive
function `Running`. `SumsExist` proves that a function satisfying its equation
exists for every document, so that the equation can be used; what follows for
every position (it is typed, mirrored, advances with each posting) is proved by
the least position where it would fail. `LeastNatural` gives that position from
the well-founded ordering of finite sets: the induction is inside a lemma about
sets, and needs no theorem with an operator parameter. The refinement also needs
that null is not a function on the stock rows (`NullAssumption`), as it is not a
number or a row.

Documents. A request's read is stale but was true, so the estado read is in
`visited` (`WorkerOK`). With the order of the table, whatever estado a late
UPDATE writes has its predecessors in `visited`. The same invariant maps each
step to one of `LifeCycle`.

Access. An answer need not have been granted at one moment: a dedicated tenant's
comes from two databases read one after the other. So `Reciente` names a result
for each read (`Visto`: given at most so long ago, or failed, or empty), whose
intersection the answer is. The invariant says so of every cache entry, by its
age, and of every look-up under way, for the reads it has done (`Hechas`); one
more read adds its result (`OtraLeida`), every step but `Tick` makes nothing
older (`Rejuvenece`), and a `Tick` makes all older by one. The theorem holds for
both kinds of tenant, any `Filtros`, and sessions with or without a company; in the shared database there is one
read, and the answer is what was granted at one moment.

Catalogue and tenants. A process that wrote a code does not own it, so nothing
about one process is inductive. `SyncInv` is a joint promise: a code that every
process has settled is active, one that every process has settled to retire is
not. In `TenantGrants` the codes valid since a worker began only become fewer
while the rows of a tenant only become more; so what a task has reached for
these codes (`Bien`) it keeps until it commits.

Only model-checked: `TransactionsEnd` and `RequestsEnd`, because liveness under
fairness and ENABLED are beyond the prover. `StockIsDerived` is false (section 4).
Every other property of the runs is stated by a theorem; the six above by one
with a hypothesis, of which the runs check the case of a single request.

## 6. How much of the code this is

The map names about a third of the Python lines. The rest is what section 7
lists, and in the files the map does name: validation, documentation of
endpoints, listings, table definitions and messages. The modules of sessions,
inventory, access and tenants follow the services statement by statement. The layers of the catalogue follow one aspect of many files: the
estado. For a document, "modelled" means that its life cycle is, not its
amounts or its side effects elsewhere.

What could be added, in order: the creation of a document with its lines in
one unit of work (`pur_transaccional_creacion_service.py`), conversions that
create a second document in a second transaction (`cotizacion_service.py`),
closings that count or sum before they close, and the shape of the menu tree.

## 7. Not modelled

- Cryptography, token formats, HTTP, cookies, validation of input, rate limits,
  wording. Permission guards of routes: any request may be refused (`Reject`).
- Audit rows, metrics and read models: nothing decides on them.
- `update_empresa` and the company selection of V2, impersonation: they change
  columns that no session decision reads. The Redis link of V1.
- Expiry of Redis keys: a mapping lives as long as the token it names, and an
  expired token needs no blacklist. A password change that stops half way: the
  old sessions stay, as nothing resumes it.
- The purge of V2 sessions: one DELETE that a foreign key refuses or not.
- Tenant connection routing: no connection change invalidates a cached entry,
  so a stale one lasts until it expires; there is no order of steps to get
  wrong. Query builders and the tenant filter rewrite text.
- The bypass of super-administrators and of impersonation (they neither read nor
  fill the cache), role templates and menu permissions; the dependencies between
  modules; `fecha_expiracion` of an assignment, which the queries test and no
  code writes; the query `user_builder.py` sends when the resolver itself fails.
- The menu tree: moving a menu leaves the level of its children, only a menu
  that is its own parent is refused (longer cycles are accepted), and names are
  checked and then inserted without a key. The deletes of modules' sections,
  menus and role templates always raise (`modulo_menu_service.py:687`,
  `modulo_seccion_service.py:254`, `modulo_rol_plantilla_service.py:205`), so
  they are not operations. `modules/menus` works on tables that the schema of
  `bootstrap_v2` does not have.
- The one-main-connection rule of `conexion_service.py`: check then insert,
  without a key.
- Document numbers: at this commit only onboarding draws them, in its own
  transaction, for a company nobody else sees yet.
- Side effects of closings (the sums of a till, the drafts of a period, what a
  work order leaves in its history), the order a quotation becomes, and the
  stock movement of a purchase receipt, which cannot be inserted (it leaves out
  `moneda_id`). Writes of the MRP explosion always raise.
- `resolve_role_assign_target` (`core/tenant/company_scope.py:339`) uses a name
  it does not define and raises; updating or deleting a user that vanished in
  between revokes the sessions and then answers 500.
- The `*_core` variants of the session statements that no service calls; SQL
  scripts and migrations, except for their keys and constraints.
