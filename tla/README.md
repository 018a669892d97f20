# A TLA+ model of verix-dbm

verix-dbm is a web database manager: a Go server that keeps saved connections
(with encrypted passwords) in a metadata store, opens pools to the databases
they name, and serves a React application with a data grid, consoles and
administration pages. Several replicas of the server may share one metadata
store and one session store.

This directory models the parts of it whose correctness depends on the order of
events: overlapping requests, background goroutines, rolling restarts, late
responses. It holds TLA+ modules, the TLC configurations that check them on
small instances, and proofs checked by TLAPS. `PROJECT.json` lists, for
machines, what is told here: components, runs, the source lines each definition
models, hazards, findings and theorems.

## Inventory of the system

| Component | State | Operations | Interacts with | Hard because |
|---|---|---|---|---|
| Pool registry (`internal/conn/registry.go`) | five maps id -> pool with `lastUsed`, one mutex | `PG`, `MySQL`, `SQLite`, `Redis`, `Mongo`, `Forget`, janitor | every handler on a target; connection handlers call `Forget` | dials outside the mutex, closes inside it, one registry per replica |
| Connection handlers (`internal/web/api_connections.go`, `internal/store/store.go`) | `connections` rows | create, copy, update, delete, test, grants | registry, keyring, audit | read-modify-write without transactions, edits under running requests |
| Keyring and rotation (`internal/crypto/crypto.go`, `api_audit.go`) | primary and retained keys per replica, ciphertext per row | `Encrypt`, `Decrypt`, `Reencrypt`, the Re-encrypt handler | rows, registry, the operator who changes `DBM_ENC_KEYS` | sweep over a list that goes stale, replicas with different keys |
| Rate limiter (`internal/web/ratelimit.go`) | windows per client, bounded table | `allow`, `prune` | all routes | clock read before the mutex, full table |
| Data grid (`spa/.../GridTab.tsx`) | page of rows, selection, editor, queue of changes | load, edit, delete, insert, commit, roll back | `apiGrid`, `apiQuery`, `apiExecTx` | responses in any order, rows known by index |
| SQL handlers (`api_sql.go`, `handlers_*.go`) | none of their own | browse, query, transactions, DDL, generators, export | registry, access, audit | confirm gates and read-only checks in a fixed order |
| Access control (`access.go`, `api.go`) | grants per connection, roles in the session | `access`, `apiRequireWrite`, `apiRequireAdmin` | sessions, store | rights checked, then used later |
| Login and sessions (`internal/auth`) | OIDC states, sessions (memory or Redis) | login, callback, logout, middleware, CSRF | identity provider | single-use states, errors of the backend |
| Audit (`store.go`, `api_audit.go`, `cmd/server/main.go`) | audit rows, log sink | add, list, export, purge | every handler | best effort: errors are ignored |
| SQL engines (`internal/postgres`, `mysql`, `sqlite`) | session settings of pooled connections | query, script, browse, introspection, DDL | registry's pools | settings left behind for the next user of a connection |
| Redis and MongoDB (`redisdb`, `mongodb`) | none | browse, commands | registry, access | classification of commands |
| Start-up, configuration, headers, egress guard, metrics | configuration | sequential or stateless | - | - |
| SPA shell (`App.tsx`) | tabs, dialogs | open, close, confirm | all tabs | dialogs asked from several tabs |

What makes each modelled component correct:

- **Registry.** A lookup never returns a pool that is closed or was never
  pinged; a request works on the pool of its own connection and engine; pools
  are neither leaked nor out of date with the row; nobody waits for ever on the
  mutex; idle pools go away.
- **Rotation.** At every moment each running replica can decrypt each saved
  password; when Re-encrypt reports no failure the old key can be dropped; no
  password an admin saved is lost.
- **Rate limiter.** The table stays bounded, bursts stay bounded, and a client
  is refused only for its own requests or because the table is full.
- **Access.** A request reads, writes or administers only what its user was
  entitled to while the request ran; nobody is refused a right held throughout;
  what was done leaves an audit row; grants go with their connection.
- **Login.** One login makes one session, of the browser that began it; a session
  stops counting when its lifetime ends or it is logged out.
- **SQL engines.** A read-only request never writes; no request runs in the mode
  or schema of another; a script is all or nothing where the engine can do that;
  success means durable; connections go back clean.
- **Data grid.** Edits and deletes change the rows the user meant; queued
  changes are applied once or rolled back, and never both an UPDATE and a DELETE
  of one row.

The hazards behind these properties are listed with their source lines in
`PROJECT.json`.

## Modules

| Module | What it is |
|---|---|
| `PoolRegistry` | the registry, its janitor and `Forget`, with the handlers that write the rows |
| `Credentials` | stored ciphertexts, keyrings, the Re-encrypt handler, rotation by the operator |
| `RateLimit` | the limiter |
| `Access` | the gates, effects and audit of every endpoint, with the policy edited meanwhile |
| `AccessPolicy` | the abstract specification `Access` implements: rights that requests consult, acts that need them |
| `EngineSessions` | statements and scripts of the three SQL engines on pooled connections |
| `Login` | OIDC state, callback, session stores, logout |
| `Grid` | the data grid with the server behind it and other writers of the table |
| `PoolRegistry_proofs`, `Credentials_proofs`, `RateLimit_proofs`, `Access_proofs`, `EngineSessions_proofs`, `Login_proofs`, `Grid_proofs` | theorems about each of them |
| `MC...` | small instances for TLC: constants and symmetry only |

Operators named after a definition with a suffix and marked `Fault:` or as a
planted bug are mutated forms of that definition, each the kind of slip the
property beside it is there to catch; no specification uses them.

### PoolRegistry

A request is a goroutine with a program counter. `Read` is `connFor`; `Lookup`,
`Dial`, `Ping`, `Insert` are the four stretches of a getter, of which only the
first and the last hold the mutex. The five getters have one shape, so the model
has it once and the engine family is part of the cache key (`Slots`). `Update`,
`Delete` and `Reencrypt` write the row and go on to `ForgetLock`; `CloseBegin`
and `CloseEnd` are the call and the return of a pool's `Close`, made with the
mutex held, map after map. For Postgres `Close` returns only when all users are
done (`CloseWaits`), for the others at once. `JanitorTick` takes the mutex and
fixes the idle entries (`now` is read once). A profile is abstracted to its id,
its family and a version that every edit increments; pool names are reused when
nothing refers to the pool any more. `lastUsed` is abstracted to the set `idle`
of entries older than the TTL.

Three history variables serve the properties: `overtaken` (dials that a Forget
has missed), `orphan` (cached pools no Forget of a later write has seen),
`lost` (pools whose entry was overwritten).

A write that takes effect may still be answered with an error, when the client
cancels or the connection breaks at that moment; the handler then returns before
`Forget` (`ForgetOrReturn`). The constant `AnswersLost` says whether that happens;
it is FALSE only in `pools_fresh`, which is about a Forget that did run.

### Credentials

A ciphertext is its key, whether it carries a key id, and the password in it.
A replica's configuration is a stage: stage 2k has key k alone, stage 2k+1 has
key k+1 as primary and key k retained. `AddKey` and `DropKey` are the operator's
steps 1 and 3 of docs/security.md, one replica at a time; `DropKey` waits for a
Re-encrypt that began with every replica on the new key and counted no failure.
A replica that is restarted loses its requests. `ReencryptList` reads all rows;
`ReencryptSkip`, `ReencryptWrite` and `ReencryptFails` visit them in any order
(rows are listed by name, which an edit can change), acting on what was listed; a
row whose rewrite took effect may still count as failed.
`CopyRead` and `CopyWrite` are the two halves of save-as-copy. The history
variables are `want` (the password last given), `dirty` and `raced` (edits a
Re-encrypt has missed, and overwritten), and `carried` (connections saved as a
copy of a value that was not under the primary key at the time, until they are
edited, deleted or rewritten).

### RateLimit

`Arrive` is `allow` up to the mutex, with the clock reading it will use;
`Count`, `Refuse`, `Open` and `RefuseFull` are its outcomes with the mutex held;
`Prune` is the ticker. `Tick` moves the clock; `MaxLag` bounds how long a
request can wait between reading the clock and getting the mutex.

### Access and AccessPolicy

An endpoint is a record of what its handler checks and does (`Endpoint`); the
forty handlers are values of it, and one set of actions runs them all. A request
passes `Middleware` (the session, whose user becomes a local), `RequireAdmin`
(CSRF and the admin capability), `GetConnection`, `connFor` (first look-up of the
grants), `RequireWrite` (second look-up, and the read-only flag of the row that
was loaded earlier), the guards on the statement (`Admitted`), the effect
(`Statement`, `List`, `Administer`, the export) and `AddAudit`. Every store query
is a step of its own, and waits for a connection of the store (`StoreReady`);
`IterAudit` keeps one while its client reads. `Disconnect` cancels a request's
context: later look-ups fail, a failed look-up of grants counts as none, the audit
insert fails but the sink is still called. `Crash` cuts requests off.

`AccessPolicy` knows only the rights each user has on each connection, the
requests that are open, and what each has done. In it a request acts in one step
and only with rights that were there at instants of that request; rights grow
only by an administrator's act. The refinement maps its `rights` to `RightsNow`,
which is docs/security.md's policy written down independently of
`ResolveConnAccess`. Statements are abstracted to reading, writing and destructive;
allow-listed Redis and MongoDB commands are classed by name as in the code.
`apiMe` and the gates of create and Re-encrypt (admin, CSRF) are not repeated
here; what those two do is in `Credentials` and `PoolRegistry`. The second look-up
`apiGrid` makes only for display is left out, and store errors other than a
cancelled context are not modelled. `Access` takes a read-only SQL session to deny
every write; `ReadOnlyNeverWrites` of `EngineSessions` says when that is so, and
names the console strings for which it is not.

### EngineSessions

A connection is its session: read-only default, schema path, an open transaction
and its mode, and whether a console statement has changed it (`touched`). `Setup`
is what each engine does before the first statement: Postgres sets path and mode
on every `Query` and only the transaction's mode in `ExecScript`; MySQL begins a
transaction; SQLite pins a connection and sets `query_only`. `CleanUp` is what the
deferred calls undo. Statements take effect and may lose their answer (`Execute`),
fail, or break the connection; on MySQL a DDL statement commits. A console
statement may set or clear the session's read-only mode, open a transaction, move
its path (`Touch`), or end the transaction it is in (`Closed`). Statements in a
script are DML or DDL. A console string may hold several statements, session
statements among them: Postgres runs such a string as one implicit transaction
(`querySimple`) and refuses it on a read-only request (`RefuseMulti`); SQLite's
driver runs its statements one after the other, each committing by itself, and so
does MySQL where the connection's options ask for multiStatements. SQLite's lock
conflicts are the failing case of a statement. Rows, limits and formatting are left
out.

### Login

`Login` stores a state entry and sets a cookie; `Callback` (comparison and `Get`),
`CallbackDelete`, `CallbackExchange`, `CallbackAudit` and `CallbackPut` are the
stretches of the callback between calls of the store and of the provider. The
provider issues codes, several for one login when its form is submitted again, and
redeems each once. The insert of the audit row may fail whenever `CallbackAudit`
runs, and the login goes on either way, so the model does not keep its outcome. The
session store is a map that a restart empties, or Redis, which may
lose any write. A tick of the clock is a whole lifetime, of a state or a session,
so the instants that matter are before and after it. Expired entries are not
removed: `Get` does not find them either way, so `reap` makes no difference.
Development mode, which logs everybody in, is left out.

### Grid

The target table is a set of keys; a query (filter and order) is a sequence of
the keys it shows. Tables that hold the same row twice are not modelled: `rowWhere`
cannot tell such rows apart, and `GridAssumption` says that a query shows a row
once. `Fetch` describes a page by the rank of each of its rows among the rows shown. Rows are shown and queued by index. `Deliver` and
`DeliverFails` are responses to loads, in any order. `AskDelete`/`DeleteNow` are
the two halves of an immediate delete, `CommitSend` .. `CommitDone` those of a
manual transaction, in which the response may ask for confirmation, report an
error, or be lost after the server committed. A filtered delete takes whatever the typed
filter matches, applied or not, whether its rows were ever shown or not. A draft
row can be submitted after the tab has turned read-only; the server refuses it then,
which changes nothing. A cell editor is kept by index over
a reload (React keys the rows by index). `OtherWrite` is anybody else. A change
of a row's contents does not change its key, so an UPDATE has no effect on the
table; which rows it names is in `batch`.

## What the runs check

| Run | Bounds | Result |
|---|---|---|
| `pools` | 1 replica, 2 requests, 2 families, 1 id, 3 pools, 2 versions | `TypeOK`, `ServableOpen`, `GetsItsOwnPool`, `Accounted`, `StaleOnlyIfEscaped` hold |
| `pools_live` | 1 replica, 2 requests, Postgres | `RequestsEnd`, `IdleEntriesGo` hold under `FairSpec` |
| `pools_fresh` | as `pools` | `FreshOnceForgotten` fails |
| `credentials` | 1 replica, 2 requests, 2 ids, 2 passwords, 3 stages | `TypeOK`, `LostOnlyIfRaced`, `RewrittenUnlessCopied`, `DecryptableUnlessCopied` hold |
| `reencrypt_lost` | 1 replica | `ReencryptKeepsPasswords` fails |
| `access` | 1 admin, 1 user who reads, writes and tries an admin endpoint, one group, 1 connection, scoped access, store with 1 connection | `TypeOK`, `RefusedWithCause`, `UnauditedOnlyIfGone` and the refinement `ImplementsPolicy` hold |
| `access_admins` | two administrators, one connection, store with 1 connection | `NoOrphanGrants` holds; `EveryRequestEnds` under `FairSpec` |
| `engines` | 2 requests, 1 pooled connection, 1 schema beside the default, scripts and strings of up to 3 statements, each of the 3 engines | `TypeOK`, `ReadOnlyNeverWrites`, `RefusedByOwnMode`, `RunsUnderOwnPath`, `AllOrNothing`, `AckMeansDurable`, `PoolClean` hold; `RequestsServed` under `FairSpec` |
| `login` | 2 browsers, 2 logins, 2 callbacks at once, 2 codes, one expiry, both stores | `TypeOK`, `OneSessionPerLogin`, `AcceptedRightly`, `SessionOfOwnLogin` hold |
| `rate_limit` | see `RateLimit.cfg` | `TypeOK`, `TableBounded`, `BurstBound`, `WindowsApart`, `RefusedOnlyIfSpent` hold |
| `grid` | 2 rows, pages of one, with and without a filter, 1 insert | `TypeOK`, `InsertedOnce`, `AutoMeansEmpty`, `NeverUpdatedAndDeleted`, `DeletesHitConfirmed` hold |
| `grid_reload` | 2 rows, pages of one | `QueuedIndicesValid` fails |

Why the bounds suffice. Two requests are enough for every overlap the registry's
code distinguishes: a dial against a dial, an edit against a dial, a Forget
against a user; the theorems about it hold for any number. Two families are
enough for an edit to change the kind. To a replica, an edit served by another one
looks like a write whose answer was lost: the row changes and no Forget runs; so the
one replica of `pools` meets both, and the theorems are for any number. Several
replicas in a rotation are left to the theorems. Stages 0 to 3 are a whole rotation and the beginning
of the next. Two rows, pages of one and a filter make the row at an index change
under a selection, a dialog, an editor and the queue; turning to a second page
does to them what a filter does, and is part of `grid_reload`. `grid` identifies
states that differ only in history its properties do not mention (`NoTrace`). In
`access` one request whose rights change under it and one that changes them are
the whole of each race; a second user would repeat it. In `engines` one connection
makes every request inherit the last one's session, and a script of three
statements has a first, a middle and a last to fail in. In `login` two callbacks
are enough to overlap, and two logins to mix a code with another's state.

The failing runs state what a comment or a document says and what the code does
not do:

- `pools_fresh`: a dial that straddles an edit puts the old credentials back
  after Forget (`registry.go:163`, against architecture.md:136).
- `reencrypt_lost`: Re-encrypt undoes a password change made while it runs
  (`api_audit.go:121`, against the dialog in App.tsx:174).
- `grid_reload`: reloading with queued changes makes them address other rows
  (against the comment at GridTab.tsx:67-71).

Other disagreements the models have, without a run of their own; where a property
of a passing run has an exception for one of them, it says so:

- Two overlapping dials of one connection leave the first pool open and in no map
  (`registry.go:163`, against the package comment); the exception in `Accounted`.
- Forget is skipped after an UPDATE or DELETE that took effect but was answered with
  an error (`api_connections.go:167`, `:182`, against architecture.md:136); one of the
  three ways a pool becomes stale in `StaleOnlyIfEscaped`.
- While replicas are being rolled in step 1 of a rotation, a password saved by a
  rolled replica cannot be read by the others (security.md:137-139).
- Save-as-copy carries an old ciphertext past Re-encrypt (`api_connections.go:124`,
  against security.md:141); the exception in `RewrittenUnlessCopied`.
- Changes queued during a commit are discarded by its success (`GridTab.tsx:507`,
  against the comment at 483).
- `ExecScript` on Postgres does not set `search_path` (`postgres/ddl.go:129`,
  against architecture.md:138, "Never leak session state across acquires"); the
  exception in `RunsUnderOwnPath`.
- Two callbacks with one state can both pass between `Get` and `Delete`
  (`auth.go:192-198`, against the comment "a callback can only be replayed once");
  the exception in `OneSessionPerLogin`.
- On SQLite a console string of several statements is not confined by `query_only`
  when it changes that setting itself, nor is one on MySQL that ends the read-only
  transaction, where multiStatements is on; the code refuses such strings on
  read-only requests for Postgres only (`postgres.go:403-410`). Outside Postgres a
  string that fails half way leaves its first statements applied. The exceptions in
  `ReadOnlyNeverWrites` and `AllOrNothing`.
- A login whose `auth_login` row cannot be inserted, because the store is down or full
  or the client has gone, goes on to its session (`store.go:268`, `auth.go:261`, against
  the repository's README.md:29, "Every action is audited"; security.md:223 does say
  that audit writes are best-effort). No property is stated: `AddAudit` gives none.
- docs/frontend.md:146 says that in auto mode deletes open a seeded console tab;
  `deleteRows` runs them in place after a confirmation.

### Fairness

`pools_live` uses `FairSpec`. A goroutine that can go on does (`Proceed`, weak
fairness): targets answer or time out, and statements end. This rests on request
contexts and `statement_timeout`; the Postgres ping has no timeout of its own and
relies on the context and the driver's connect timeout. Taking the mutex is
strongly fair, which `sync.Mutex` provides: a waiter that starves for a
millisecond switches it to hand-off mode. The janitor's ticker fires again and
again. No fairness is assumed of new requests, edits or the passing of the idle
time.

`access_admins` assumes that a handler that can go on does, and strong fairness of
taking a store connection: database/sql hands a freed connection to the request
that has waited longest. The client of an export reads to the end or goes away,
which ends the stream. `engines` assumes the same of statements, which end by the
statement timeout, and of taking a pooled connection (pgxpool and database/sql
queue their waiters). Neither assumes that a client gives up or a connection
breaks: those steps may happen and never have to.

## What is proved

Every safety property of the passing runs, each with the type invariant of its
module, and the refinement of `AccessPolicy`; for arbitrary constants that satisfy
the named assumptions of the modules. The assumptions give constants their types
and keep null values apart. Beyond that they say: there are finitely many clients
of the limiter (`LimiterAssumption`); there is a connection to work on
(`ConnsAssumption`, in `Access` and `EngineSessions`) and the store has a connection
(`StoreAssumption`); a user who administers may write and one who writes may read,
as the capabilities are computed (`CapsAssumption`); the rows of the grid's table
differ (`GridAssumption`). TLC evaluates them in every run. Two theorems have a
hypothesis of their own: `SingleReplicaDecrypts` (one replica) and
`BurstsStayBounded` (no request waits for the mutex longer than a window lasts).

The proofs have one shape. Few of the properties are inductive: an `IInv` made of
named parts says what the other actors can be in the middle of, a lemma shows that
each action preserves it, and the theorems follow from it.

**PoolRegistry_proofs.** `TypeCorrect`, `LookupsFindOpenPools`,
`RequestsGetTheirOwnPool`, `OpenPoolsAccounted`, `StalePoolsEscaped`: the five
invariants of `pools`, for any number of replicas, requests, connections and
pools. None but the type invariant is inductive. `IInv` adds: what a request
carries at each program counter (`Carries`); ids in use were handed out (`Born`);
a pool being dialled is known to its request alone (`Private`) and cached pools
sit under the key they were dialled for (`Keyed`); who may own the mutex
(`Locked`) and what its owner has left to do (`ToClose`, `Servable`); and that a
dial in flight with a superseded profile is `overtaken` unless the Forget has yet
to take the mutex (`LateDials`). The last one is what `StaleOnlyIfEscaped` needs:
a cached pool is out of date with no Forget to come only if its dial straddled a Forget
(which `pools_fresh` shows), it is another replica's, or the write's answer was lost.

**Credentials_proofs.** `TypeCorrect`; `PasswordsLostOnlyToRaces`;
`RotationSound` (a clean report means rewritten but for late copies, any number
of replicas and rotations) and `SingleReplicaDecrypts` (on one replica nothing
but a late copy is ever undecryptable; it is false of two replicas during a
roll). `PInv` says what a Re-encrypt still has to visit and that the value it
listed is the password last given, unless the connection was edited since. `RInv`
adds that replicas have the same primary key while a sweep counts as clean or has
reported (`SameKey`), and that such a sweep leaves behind it only values under
that key (`Swept`). The exemption of `carried` connections is what makes the two
theorems true of the code.

**RateLimit_proofs.** `TypeCorrect`, `TableStaysBounded` and `WindowsStayApart`
rest on `IInv`, which ties a window's end to the time it was opened and to the
waiting requests' clock readings. `RefusalsAreEarned` adds (`SInv`) that a window's
count is covered by grants made since the time it counts from, which a late request
cannot move into the future. `BurstsStayBounded` adds (`BInv`) a budget for every
stretch of `Period` instants that is not over: what the latest window has let
through, and `Max` for each window before it that can have touched the stretch.
Opening a window adds `Max` to the budget, and it can do so only once in
`Period + 1 - MaxLag` instants (`EarlierIs`); when the stretch is over the budget is
the bound.

**Login_proofs.** `TypeCorrect`, `LoginsMakeOneSession`, `RequestsAcceptedRightly`,
`BrowsersHoldOwnSessions`, for any browsers, logins, callbacks and codes, both stores, and any lifetimes. The parts of the invariant: a callback
works for the login its browser began, and past the nonce check for the login of its
code (`OwnLogin`); a redeemed code is in one callback's hands (`FreshCode`); its
roles are those of the current tick, which is what bounds a session's age
(`Timely`); a state that was never looked up twice at once is in the store, or with
one callback, or spent (`OnePlace`).

**Access_proofs.** `TypeCorrect`, `GrantsHaveConnections`, `RefusalsHaveCause`,
`EffectsAreAudited`, and `PolicyImplemented`: the specification implies
`AccessPolicy`'s under the refinement mapping, with each action a step of the policy
or a stutter. The invariant is about one request at a time: its history of rights
(`held`) has the right of every gate it has passed (`Entitled`), lacks one that a
refusal names (`Caused`), and finished effects are audited (`Accounted`).
`AccessIsRights` is the lemma about the code's look-up: `ResolveConnAccess` on the
grants of a user's subjects answers what the policy says.

**EngineSessions_proofs.** `TypeCorrect`, `ReadOnlyHolds`, `RefusalsAreOwn`,
`PathsAreOwn`, `ScriptsAreAtomic`, `AcksAreDurable`, `PoolStaysClean`, for the three
engines, any number of requests and connections, and scripts of any length. The
invariant says that every busy request holds one connection, nobody else's, whose
session fits the request's phase (`Fits`): at rest when taken, set up while the
request runs, with the request's writes exactly in the open transaction or
committed, settled when it goes back. `Execute`, `Touch`, `Setup` and `CleanUp`
each have a lemma that gives their outcomes.

**Grid_proofs.** `TypeCorrect`, `InsertsAreMadeOnce`, `AutoIsEmpty`,
`UpdatesAvoidDeletes`, `DeletesAreConfirmed` (an action property). A loaded page has
each row once (`Pages`, from `Ranks`: the ranks of a finite set are onto its size),
which is why rows queued under different indices are different rows; a selection is
dropped with the page it was made on (`PageInv`), a dialog about rows of the page
keeps the rows the user saw there (`AskInv`), and what commits have inserted is what the applied batch
captured (`CommitInv`).

Only model-checked: the liveness properties `RequestsEnd`, `IdleEntriesGo`,
`EveryRequestEnds` and `RequestsServed` (the prover does not handle fairness or
ENABLED). The failing runs have counterexamples, and nothing to prove.

## Not modelled

Listed in `PROJECT.json` with reasons: start-up, configuration, headers, the
egress guard, metrics, migrations and generated SQL are sequential or stateless.
The audit's retention purge deletes rows by age and touches nothing else. The
SPA's tabs and dialogs are presentation state. Wording of DSNs, SQL and JSON is left out throughout; AES-GCM is taken to refuse
every key but the right one; the drivers' pools are modelled by how the code uses
them.

## Plan

Every component above that has state of its own is modelled, and the safety
properties of the runs are proved. What is left:

1. What the exceptions in the properties allow, as theorems: that nothing but an
   overlap of `Get` and `Delete` excuses a second session, and nothing but the three
   ways named makes a pool stale, in a form without history variables.
2. The rights of `AccessPolicy` itself: that its acts are covered by its rights,
   proved once for the abstract specification and carried over by the refinement.
3. The audit's retention purge beside an export, and the SPA's stacked dialogs.
