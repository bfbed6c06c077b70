# Verification of the Woney backend

TLA+ specifications of Woney (`ai-enabled-budget-er`), a personal-finance platform: a FastAPI
backend over PostgreSQL that pulls bank data from aggregators, enriches transactions and plans
budgets, with a web and a mobile client. Each module is translated from the source; `PROJECT.json`
maps every definition to the lines it stands for.

## 1. The system

### 1.1 How the program runs

Everything below rests on the following facts, all read from the code.

- One uvicorn process runs one asyncio event loop. A request is a coroutine; it gives way only at an
  `await`. Two requests therefore interleave at every database round trip and provider call, and at
  no other point.
- Every request has one `AsyncSession` (`backend/app/core/database.py:31-33`). It is closed when the
  request ends, which rolls back what was not committed. `expire_on_commit=False` keeps loaded values
  after a commit; autoflush sends pending changes before each `SELECT`.
- PostgreSQL runs READ COMMITTED (the default; nothing sets another level and there is no
  `SELECT ... FOR UPDATE` in the code). A row that was flushed stays locked until the transaction
  ends; an `INSERT` waits for an uncommitted row with the same unique key and fails on a committed
  one; a `DELETE` of a parent row cascades.
- The ORM writes only the columns whose value differs from what the session loaded. An `UPDATE` that
  finds its row gone raises `StaleDataError`; a `DELETE` that finds it gone only warns. An instance
  that is loaded stays as it was loaded when a later `SELECT` finds its row changed. After a failed
  flush the session is deactivated until `rollback()`, which is called in one place only
  (`notifications/service.py:73`).

`Tables.tla` states these facts once, for the modules written after `BankSync` and `Households`.

### 1.2 Inventory

| Component | State | Operations | Interacts with | What makes it hard |
| --- | --- | --- | --- | --- |
| Bank connections (`connections/`) | `bank_connections`, `accounts`, `transactions`, `holdings` | connect, reconnect, re-sync, sync-mine, CSV import, nightly batch | providers, enrichment, notifications, account deletion | overlapping upserts, stale snapshots, failures inside a batch, deadlock, crash after the first commit |
| Provider adapters (`plaid`, `flinks`, `snaptrade`, `csv_import`, `demo_seed`) | none (SnapTrade: a secret on the user) | `fetch_snapshot` | HTTP services | timeouts, bounded polling, registration that cannot be repeated |
| Enrichment (`enrichment/`) | categories, merchants, rules, enrichments, embeddings | cascade per transaction, correction and re-application | LLM, connections | rules read before an LLM await, check-then-insert, a NULL in a unique key |
| Notifications (`notifications/`) | notifications | create, mark read, nightly batch | connections | partial failure of the batch |
| Households (`households/`) | households, memberships with a role | create, invite | account deletion | invitation against deletion |
| Account deletion (`account/`) | deletion challenges | request, confirm, wipe | households, connections, sessions | transfer of ownership between members who leave together |
| Sessions (`auth/service.py`) | `auth_sessions` | login, refresh, logout, logout-all | API client, password reset | rotation against rotation and against bulk revocation |
| Login MFA (`auth/`) | login challenges, recovery code list | issue, verify, resend, enroll | sessions | attempt counters and lists written back whole |
| Password reset (`auth/password_reset.py`) | reset tokens | request, confirm | sessions | double confirmation |
| Rate limiter (`core/rate_limit.py`) | a deque per bucket and client | check | all auth routes | the boundary of the window |
| Goals and planner (`planner/`) | goals, plans | create, update, contribute, plan, scenario | metrics | lost contributions, rounding |
| Budgets (`budgets/`) | budgets, periods, category targets | create, propose, set target, status | enrichment | creation of the month's period |
| Category preferences (`enrichment/prefs_service.py`) | one icon and colour per category and household | upsert | budgets | columns of two writers |
| Assistant (`assistant/`) | conversations, messages | chat with a tool loop | LLM, metrics | bounded loop, fallback in the middle |
| Metrics (`metrics/`) | none | read-only aggregation | all tables | nothing a model would add |
| API client (`packages/api-client`) | access and refresh token | request, refresh after a 401, logout | sessions | parallel 401s |
| Web bank sync (`apps/web/src/lib/bankSync.ts`) | in-flight promise, last start | sync, debounce, prompt | API client | a sync longer than the debounce |

### 1.3 What would make each component correct

- *Connections*: what is stored is the union of the snapshots that were committed; what is shown
  came from a committed snapshot; a sync nobody overlapped mirrors its snapshot; every request ends;
  every synced transaction is enriched.
- *Linking*: a credential that can be issued only once is not lost; an authorization is connected
  once; a sync never undoes what the owner edited.
- *Enrichment*: rules win over everything but a correction, corrections over everything; what
  contradicts that was decided by a request that another had overtaken.
- *Households and deletion*: a household with members has an owner; a deleted user leaves no
  membership; a household is deleted only with its last member.
- *Sessions*: a revoked refresh token gets nothing; logout-all leaves no session; a client does not
  keep a token it has spent.
- *Sign-in*: a code is accepted once, at most one is open, and only a bounded number of guesses is
  looked at; recovery codes belong to a secret an authenticator holds; a reset ends the sessions the
  old password opened; nobody's OAuth callback takes over an account.
- *Rate limiter*: at most `limit` hits in any closed window.
- *Goals, planner, budgets, preferences*: what is stored is what the requests make of it one after
  the other; the plan's amount reaches its target and its cuts close the gap; nothing is left without
  what it belongs to.

`PROJECT.json` lists the hazards behind these, each at its line, with the properties that cover it or
the reason why none does.

## 2. What is modelled now

### 2.1 BankSync

`BankSync.tla` models every request that brings a provider's snapshot into the database, one action
per round trip:

| Action | Code |
| --- | --- |
| `Resync`, `SyncMine`, `SyncAll`, `Connect`, `ImportCsv` | the five entry points: `connections/router.py:178-254, 420-584`, `notifications/service.py:42-50` |
| `CreateRow` | `create_connection` commits the row, `pending`, before anything is fetched |
| `FetchOk`, `FetchFails` | `sync_connection:96-101`; a failure stores `error` and commits |
| `LoadAccount`, `WriteAccount`, `WriteTransactions`, `WriteHoldings` | `_apply_snapshot` and `_upsert_holdings`: the `SELECT`s and the flushes they trigger |
| `EnrichFails`, `EnrichRaises` | `enrich_transactions` fails with, or raises without, an error of the database |
| `Commit`, `CommitGone` | `sync_connection:103-107`, on a connection that is there or is gone |
| `RecordSyncMine`, `Notify` | the commits that follow: the security event of sync-mine, the notifications of the batch |
| `DeadlockVictim`, `WipeHousehold`, `Crash`, `BankPublishes` | PostgreSQL's deadlock detection, `wipe_user`, death of the process, the bank itself |

State: `status`, `balance`, `ledger` (transaction ids), `enriched`, `holdings` and `notified` are the
committed rows; `req[r]` is what a session holds: the connections still to come, the sync under way
with what it loaded, the syncs that failed after their flush and were not rolled back (`left`), and
the statuses it loaded. Uncommitted writes are not in the tables: they are computed from the request
(`NewTxns`, `HoldsRows`, ...), which is also what decides who waits for whom (`BlockedBy`). `history`
and `stale` are observers.

Abstractions. A snapshot is a balance, a set of transaction ids and a set of holding ids; a
connection has one account (the account loop repeats the same statements). Institution name and
`last_synced_at` are not kept; that `last_synced_at` always makes the final `UPDATE` happen is
(`CommitGone`). The households, members and owners behind the entry points are the subject of
`Households`; here a request may be made for any connection that exists, of the kinds `Kinds` gives
to it (a CSV import has a fixed answer and its own kinds), and deletions concern the connections of
`MayWipe`. Two requests are enough for every pairwise overlap, and what any number may do is the
subject of the proofs. A batch takes its connections in any order (`PickConnection`). That is what the
nightly one does, whose query has no order; sync-mine goes by `created_at`
(`connections/service.py:290`), so for it the model allows more than the code does.

`ImportLog.tla` is the abstract specification: a connection opens once, closes once, and in between
its ledger grows by whole snapshots, atomically. `ImplementsImportLog` states that `BankSync`
implements it.

### 2.2 Tables and Enrichment

`Tables.tla` is what a database session does with rows: a change is first pending in the session
(`want`, with the row as it was loaded), is sent by a flush, which locks the row until the transaction
ends (`held`), and is seen by others when it is stored (`db`). `Flush`, `FlushFails`,
`DeadlockVictim`, `Store` and `Rollback` are the only ways rows change; a flush sends the columns that
differ from what was loaded (`Sent`), fails on a taken key or a row that is gone (`Clash`), and waits
for a row another session holds (`Locked`). `Enrichment`, `SignIn`, `Planning` and `Linking` EXTEND it.
A `SELECT` sends what is pending first: in these modules a request goes on only when it is `Clean`.

`Enrichment.tla` models the cascade that categorises imported transactions, and the corrections that
become rules:

| Action | Code |
| --- | --- |
| `BeginSync`, `SeedDefaults`, `ReadRules` | `enrich_transactions:128-152`: the defaults, the household's rules read once |
| `NextConnection`, `Raises` | `sync_user_connections` swallows an exception that is none of the database's, keeps the session and goes on |
| `ByUserRule`, `ByGlobalRule`, `Match`, `LlmAnswers` | one transaction of the loop, by the first stage that decides |
| `AddNamed`, `IndexGlobal`, `IndexAnswer` | the enrichment row once the merchant is there, then `index_descriptor` |
| `BeginCorrect`, `CorrectRow`, `CorrectRule`, `IndexCorrection` | `correct_transaction`, flush by flush |
| `ReadMatching`, `Reapply` | `_reapply_rule`, which skips what was corrected |
| `BeginList` | `list_categories`, which stores the defaults |
| `Commit`, `Send`, `Fail` | the end of the request, its statements, their failure |

Two places raise without an error of the database: an answer of the LLM that is no object, or whose
confidence is no number (`LlmAnswers`, `core/llm.py:204-206`), and the second row of a global embedding
(`IndexGlobal`). Such an exception ends a request, and with it what it had in its session; only in
sync-mine (`mine`) it ends one connection, whose transactions stay in the session (`left`), those
not yet gone through without an enrichment, and are stored by the next commit.

Abstractions. A row keeps its stage and category; merchants matter as rows that may clash. Vectors
are a relation between descriptors (`Similar`). They are computed with Python's salted `hash()`
(`embeddings.py:73-78`), so this holds within one process. `behind` (per request), `raced` and `skipped`
are observers: the rows that others stored after a request read them, the rows it then decided upon,
and the transactions that were stored bare and not corrected since. The commits of a batch, one per
connection that succeeds and one at its end, are one `Commit` at which the request ends: a connection
synced after that is a request like the first.

### 2.3 Households

`Households.tla` models what changes memberships: registration and creation of households, and, as
sessions that are interleaved round trip by round trip, invitations and confirmed deletions.

| Action | Code |
| --- | --- |
| `Register`, `CreateHousehold` | `auth/router.py:69-90`, `households/service.py:10-26`, each one transaction |
| `BeginInvite`, `FindInvitee`, `InsertMember` | `invite_member`: the owner's row, the invitee and their row, the `INSERT` with its foreign keys and unique key |
| `RequestDeletion` | `request_deletion` up to its commit |
| `Confirm`, `LockCode` | `confirm_deletion`: the open code is read, and its attempt counter flushed, which locks it |
| `ReadMemberships`, `ReadOthers`, `Flush`, `Finish` | `wipe_user`: the two `SELECT`s, the flush of what was decided for one household, the deletion of the user and the `COMMIT` |
| `DeadlockVictim` | PostgreSQL's deadlock detection |

State: `users`, `houses`, `role`, `code` are committed rows; `req[r]` is what a session holds.
`used` keeps ids from being reused. A session's uncommitted writes are `left`, `closed` and `heirs`;
from them follow the rows it has locked (`Locked`: the member's own, those of an heir if one is named,
and all of a household that is closed), and `BlockedBy` says who waits for whom. The code
a confirmation has locked also stops every other deletion of the same user, because the deletion of
the user cascades to its codes.

Abstractions. Only confirmations with the right code are modelled: the others, and the codes
themselves, are `SignIn`'s. `request_deletion` is one step, and a household's `UPDATE` and `DELETE` lock their rows
in one step: they are sent together. `User` and `House` ids that are never reused stand for UUIDs. The bank
data of a household that is deleted is `WipeHousehold` in `BankSync`.

### 2.4 Sessions and ApiClient

`Sessions.tla` is the server's side of refresh tokens, for one user; `ApiClient.tla` EXTENDS it with
the mobile app, whose calls run concurrently and each exchange the stored token on a 401.

| Action | Code |
| --- | --- |
| `BeginLogin`, `BeginRefresh`, `BeginLogout`, `BeginAll` | the handlers of `auth/router.py`; `BeginAll` is logout-all, and the confirmation of a password reset |
| `Find` | `_find_active_session`, the `SELECT` every decision rests on |
| `Issue` | `issue_token_pair`, with the `revoked_at` that `rotate_refresh_token` has flushed before |
| `Revoke`, `Snapshot`, `RevokeAll` | `revoke_session`; `revoke_all_sessions`, one `UPDATE` whose rows are those it sees at its start |
| `Drop`, `Expire`, `AccessExpires` | a request or a response is lost; 30 days and 15 minutes pass |
| `Send`, `Answered`, `Refreshed` | `WoneyClient.request` and `tryRefresh` |
| `Login`, `LoggedIn`, `Logout`, `LoggedOut` | sign-in and sign-out in `client.ts` and `App.tsx` |
| `Elsewhere`, `Ignored` | logout-all or a reset, whose answer changes nothing in the app |
| `Restart` | the app is killed; the keychain keeps the refresh token, the access token was in memory |

State: `row` is the committed table, `req` what a request holds between its `await`s, `call` what
the app waits for, `store` and `live` its tokens, `user` whether its screens or the sign-in screen are
shown. `parent`, `swept`, `cut`, and `known` and `reused` in a request, are observers.

Abstractions. A write that meets a row another transaction is writing waits for that to commit;
none of these transactions holds one lock while it waits for another request's, so a transaction's
writes and its commit are one step, and what matters, the gap between a `SELECT` and the write it
leads to, remains. A call with a live access token changes nothing here and is left out; so is the
one retry after a successful exchange. Sign-in with a second factor ends in the same `Issue`; its
challenge and the reset link are `SignIn`'s. The keychain is taken to hold
what the app last stored: `clear` deletes asynchronously and does not wait. The web client's cookie
is not modelled.

### 2.5 RateLimit and SignIn

`RateLimit.tla` is the sliding window of `core/rate_limit.py`. The check has no `await` and a lock, so
it is one step: pop what is older than the window (`Popped`), then `Admit` or `Refuse`. The log keeps
all hits; the deque is its end after `dropped`. `SignIn.tla` EXTENDS it for the second factor's
bucket, and models one person's way in:

| Action | Code |
| --- | --- |
| `Register`, `OAuth`, `Refresh` | `register`, `_oauth_upsert_and_issue` once the provider has named the address |
| `Login`, `Resend`, `Forgot`, `AskDelete`, `IssueCode` | the requests that consume the open codes of a table and make a new one |
| `Verify`, `TurnedAway`, `CompareLogin`, `CheckTotp`, `CheckRecovery`, `CheckFails` | `mfa_verify`: limiter, emailed code, authenticator, recovery code |
| `Delete`, `CompareDeletion`, `Close` | `confirm_deletion`, with its second factor and its last wrong guess |
| `Reset`, `Apply`, `Consume`, `Revoke` | `confirm_password_reset` |
| `Enroll`, `Activate`, `Regenerate`, `SetMfa` | the settings of the second factor |
| `IssueToken`, `Commit`, `Send`, `Fail`, `Time` | sessions, the end of a request, the clock |

Abstractions. A code is named by its row, an authenticator secret or a set of two recovery codes by
its generation. What a request that is turned down leaves (a security event) is not kept
(`TurnedDown`). The pending-login token is as good as the code mailed with it (`Pending`). Deletion
ends with its code consumed: the rest is `Households`. `looked`, `accepted`, `replayed`,
`proven` and `raced` are observers.

### 2.6 Projection and Planning

`Projection.tla` is the planner's arithmetic as operators: `Project` (`project_goal`),
`RecommendCuts` as a fold over a ranking of the categories, `HalfUp` (money is rounded half up to
cents; amounts are in cents, dates in months). `Reaches` and `Closes` are the reference definitions.

`Planning.tla` models what the members of a household edit side by side, by what a request loaded
and when it writes: goals (`CreateGoal`, `Contribute`, `Patch`, `Delete`, then `Edit` or
`DeleteGoal`), plans (`BeginPlan`, `SumSurplus`, `SumSpend`, `MakePlan`: the two sums are two
statements, a sync may commit between them, and the default categories the second sees to first may
just have been inserted by another request, `SumSpendFails`), the budget (`BeginBudget`, `BeginTarget`,
`FindPeriod`, `SetTarget`; a proposal succeeds from March on only, `Proposes`) and preferences
(`SetPreference`). `serial` is an observer: the rows as if
the requests had run one by one in the order of their commits. The foreign key of a plan makes its
insert and the deletion of its goal wait for each other (`Waits`), and fails the insert when the goal
is gone (`Orphan`).

Abstractions. Names, notes, currency and rollover are left out; progress, status and scenario only
read. The rows of the default categories are `Enrichment`'s. One goal, one budget and one category
at a time are enough: no statement reads two goals or two budgets.

### 2.7 Linking

`Linking.tla` models how a connection comes about, and the owner's edits beside its syncs:

| Action | Code |
| --- | --- |
| `Portal`, `Complete`, `Register`, `AlreadyRegistered`, `KeepSecret` | the two SnapTrade routes and `ensure_snaptrade_user`, which goes by the user as loaded with the request |
| `OpenPortal`, `ListAuthorizations`, `FindConnection`, `Created`, `Refresh` | `create_portal_url`, and `complete_snaptrade_connection`, which takes whatever authorization the request names, and reads the row it has created again |
| `ConnectPlaid`, `Exchange`, `ExchangeFails` | `connect_plaid`: the public token is exchanged once |
| `Resync`, `FetchNothing`, `FetchBalance`, `FetchPositions`, `FetchFails`, `WriteAccount`, `WriteHoldings`, `WriteStatus`, `Commit` | `sync_connection` of one account, with SnapTrade's swallowed failures and empty answers |
| `Edit`, `Edited` | `patch_account`, `update_account` |
| `CallFails`, `Breaks`, `Crash`, `Authorize`, `Trade` | a call that fails, carried out or not; a failed statement; death of the process; the owner in the portal; the market |

Abstractions. One owner of one household; a connection has one account, whose transactions are
`BankSync`'s, as are deletion and batches. A credential is named by what it was issued for.
Stored login ids can be decrypted: the key is configuration, which no operation changes, so the branch
that skips a login id that cannot be (`connections/router.py:349-350`) is left out.
`issued`, `authorized`, `portal` and `portfolio` are the providers' side; `lost` is an observer.

### 2.8 The runs

| Run | What it shows |
| --- | --- |
| `overlap` | One connection, two requests, three versions of the bank's data, deletion and crash: types, `LedgerIsUnionOfImports`, `ShownIsImported`, `CleanCommitMirrorsBank`, `ImplementsImportLog` and, under fairness, `SyncEnds`. |
| `mine` | Sessions that serve several connections in turn: sync-mine over two bank connections (swallowed failures, rows left in a session, locks held across connections), and sync-mine beside connect, import and the nightly batch over one connection and a CSV import: `LedgerIsUnionOfImports`, `ShownIsImported`, `CleanCommitMirrorsBank`. Deadlock of the model itself is checked too. |
| `storedisenriched` | Expected violation, see findings. |
| `leave` | Three users, three households, two sessions: types, `MembersExist`, `OneOwnerAtMost`, `CleanWipeHandsOver`. |
| `ends` | Two users with two codes each, so that a user may confirm twice: under fairness every session ends (`RequestEnds`), deadlocks included. |
| `transfer` | Expected violation, see findings. |
| `calls` | Two calls at a time over three tokens: types, `KnownTokensDie`, `ReuseFails`, `StoredTokenLives`. |
| `logoutall` | Expected violation, see findings. |
| `cascade` | Syncs (sync-mine and its swallowed failures included), corrections and listings, two at a time, over two similar descriptors: `RulesWin`, `CorrectionsStand`, `DuplicatesAreBounded`. |
| `signin` | One account in six scenes, two requests at a time: `OneTime`, `OneOpenCode`, `GuessesAreCounted`, `AuthenticatorIsProven`, `ResetEndsSessions`, `WindowBounds`, `CountsTheWindow`, `AccountStands`. |
| `planning` | A goal, a budget, a preference, and plans beside syncs and a deletion, two requests at a time: `AsIfOneByOne`, `NothingDangles`, `FullIsCompleted`; and 72 combinations of goal, date and ledger around the boundaries of the arithmetic: `PlansAddUp`. |
| `linking` | Registration, completion, exchange, sync and edit in four scenes, with failing calls and crashes: `CredentialsKept`, `ConnectedOnce`, `OwnersEditsStand`. |

Several properties are conditional on an observer (`raced`, `behind`, `at[q].row`): they say that
something holds *unless* one request had read what another was storing, which is what the code can
guarantee without row locks or version columns. The runs reach the exceptions as well; section 2.9
says what then happens.

Bounds. `MaxVersion` bounds how often the bank publishes: version 2 adds a transaction and a holding
under an unchanged balance (so that the account is not written), version 3 moves the balance, drops
the oldest transaction from the window and sells the holdings (a sync that finds nothing to write
holds no lock, and only such a sync can find its connection gone at the commit). `Conn` connections
exist at most once each, `Req` requests at a time; requests themselves are unbounded in number.
`mine` uses one snapshot of one transaction, with crashes and without deletions (`overlap` has them),
because the interleavings of two batches are what it is about.

In `leave` the third user makes the choice of an heir possible, and a household that loses two members
at once and keeps one; registration takes a household per user, and whoever registers when fewer do
may create another. Users, households and sessions are interchangeable, so
the run uses symmetry; `ends`, which checks liveness, does not. `MaxCode` bounds the codes of one
user. Both runs stop when all users are gone and all ids used, hence `CHECK_DEADLOCK FALSE`.

In `calls` three tokens are what the hard cases need: one that two calls present at once, and the two
they get for it. Two request slots give every pairwise overlap of exchange, logout, sign-in and
revocation, and are used again and again. Tokens are never reused, so a behaviour stops when all are
issued, hence `CHECK_DEADLOCK FALSE`; the proofs cover any number.

In `cascade` the banks have up to three transactions (`Feeds`) and `MaxWork` bounds transactions and
corrections together: two of one descriptor and up to three corrections, or three of another and two.
That is what a correction of a correction, a re-application beside a correction and two syncs of one
descriptor need. Transactions without an enrichment (`Bare`) are those an earlier failure left.

In `signin` a scene names the requests and codes a behaviour has, since the six groups share only
the account; `MaxRow` (3 rows per table, secrets and code sets), `MaxAttempts` (2), `MaxRequests` (2),
a code's `Ttl` (1) and `MaxTime` (2) let a counter reach its limit with two requests at it, a code
expire, and a third code be issued beside two; `Limit` 3 in `Window` 1 lets the limiter refuse and
recover. In `planning` the scenes do the same; two plans of a goal and two months are what taken
ids and the turn of a month need. The calendar begins in February (`FirstMonth`), so that proposals
fail in its first month and succeed in its second. In `linking` there are two ids, so that a second connection is
possible, one authorization and one public token, each used by several requests.

Fairness. `FairSpec` (in `BankSync` and `Households`) assumes strong fairness of `Work(r)`, the steps of a request that has started:
the event loop resumes every coroutine whose await is over, every provider call has a timeout, and
PostgreSQL queues those who wait for a row. Strong, because a waiting request is enabled only while
the row is free. Nothing is assumed of users, the bank, deletion or crashes. The other modules state
no liveness: their requests wait for nothing but row locks, as those of `BankSync` do.

### 2.9 Findings and observations

Three disagreements between code and documents have a run of their own:

1. `StoredIsEnriched` (`docs/architecture.md:139` says "Every synced transaction gets a
   `transaction_enrichments` row"). When enrichment raises without a database error the flushed
   transactions stay in the session and the next commit stores them. They are never enriched
   afterwards, since a later sync finds them stored.
   The same failure breaks a second promise, that user rules "Always win"
   (`docs/adr/0006-enrichment-cascade.md:17-18`): among those left bare may be transactions for whose
   descriptor the household has a rule, with no other request under way. `RulesWin` of `Enrichment`
   says how far the promise holds: these, until they are corrected, and decisions that were overtaken
   are its only exceptions (`skipped`, `raced`).
2. `TransferKeepsOwner` (`account/service.py:235` says "Transfer ownership so the shared household
   stays usable"). `wipe_user` decides by the role it read at its start. When the owner's deletion
   hands the household to a member whose own deletion has passed that read, the second deletion still
   takes itself for a plain member's and names nobody; members who stay, or whose invitation is under
   way, are left without an owner, and only owners may invite, link or sync.
3. `LogoutAllEndsSessions` (`docs/adr/0003-token-strategy.md:17` says "logout-all revokes every session
   for the user"). An exchange that has found its token valid before logout-all or a password reset
   commits inserts its new session afterwards, or in a transaction the `UPDATE` does not see: the
   device that was just refreshing stays signed in. What does hold, and is proved, is
   `KnownTokensDie`: every token issued before the request is dead.

What the modules also describe, as the exceptions of their properties or as steps of the model:

- *Batches* (`BankSync`). After a failed flush a batch's session refuses work, and the next
  `connection.provider` (`connections/service.py:303`), or `connection.id` after the rollback
  (`notifications/service.py:74`), raises outside the `try`: the rest of the batch is untried.
- *Clients* (`ApiClient`). `tryRefresh` clears the storage on every failure
  (`client.ts:187`), also when an overlapping call has just stored a good successor.
- *Enrichment*. A sync that read the rules before a correction was stored categorises by the old ones.
  A correction whose rule and embedding stay as they are sends no `UPDATE` and so neither locks nor
  waits. A re-application overwrites a correction stored after it read the row. Two global embeddings
  of a descriptor, which overlapping syncs make, let every later global rule for it raise
  (`IndexGlobal`): a single sync is rolled back each time, and in sync-mine the failure is swallowed.
- *Sign-in*. Of two overlapping uses of recovery codes the later one writes the list it loaded and
  brings the other's code back. An activation that overlaps an enrolment leaves recovery codes to a
  secret no authenticator has shown. Two overlapping confirmations of a reset link both succeed. Two
  overlapping requests for codes leave two open. A wrong guess may go uncounted, a limit of
  `MaxAttempts` per request slot remains. A six-digit authenticator code counts as a guess at the
  emailed code. A login overlapped by a reset keeps its session.
- *Planning*. In January and February proposing a budget fails: the conditional expression at
  `budgets/service.py:57-59` yields a mere date there. Of two overlapping contributions one is lost.
  A PATCH may raise the target of a completed goal, which stays completed; a goal that starts above
  its target is lowered to it by its first contribution. At the pace of the surplus, half a month's
  surplus may be missing at the date given. The first targets of a month, set by two requests, fail
  one of them; preferences of two requests may mix their columns.
- *Linking*. Two overlapping completions of an authorization make two connections
  (`connections/router.py:338` says "Avoid duplicate connections"; no key forbids them). A lost
  answer to the registration, or a crash before `snaptrade.py:117` has committed, leaves an owner who
  cannot link any more, and a spent public token is lost likewise. A balance call that fails counts as
  0, a positions call as no positions: the sync succeeds and deletes the holdings.

### 2.10 What is proved

`BankSyncProofs.tla`, checked by TLAPS for any number of connections, requests, versions and
transactions, from `FeedAssumption` and `ConstAssumption` only:

- `TypeCorrect`: `Spec => []TypeOK`
- `LedgerCorrect`: `Spec => []LedgerIsUnionOfImports`
- `Refinement`: `Spec => ImplementsImportLog`
- `ShownCorrect`: `Spec => []ShownIsImported`
- `CleanCommitCorrect`: `Spec => CleanCommitMirrorsBank`

The ledger invariant is not inductive: that a commit adds exactly what its snapshot has over what is
stored depends on what the session read several awaits earlier. The inductive invariant `IInv`
(checked by TLC before the proof) adds, for each request, that the transactions it found are still
stored unless the connection is gone, and that a connection for which it has flushed a new
transaction, in the current sync or in one left behind by a swallowed failure, cannot be gone: the
row is locked and the deletion waits for it (`WipeStep` is where this is used). Steps come in three
shapes, each with a lemma: a request moves on (`LocalStep`), a session commits (`CommitStep`,
`CommitImports`), the tables are left alone (`QuietStep`). `NextInv` proves invariance and the
simulation of `ImportLog` together, action by action.

The last two need a second invariant, `ReadInv`, proved on top of the first: it compares what a
session has loaded with what is stored now. For a connection nobody else has written meanwhile (it
is not in `stale`) status, balance and holdings are what the session read (`ReadOK`); for every
connection, what can only grow has only grown (`LastingOK`: an account row once stored, the bank's
version). A request deals with each of its connections once (`OnceEach`), so that what it left behind
in its session is of none it still has ahead. A commit leaves what it did not write `Untouched`, and
whoever had read the rest is told (`OthersRead`).

`HouseholdsProofs.tla` proves, for any number of users, households, sessions and codes, from
`NobodyAssumption` and `CodeAssumption`:

- `HouseholdTypes`: `Spec => []TypeOK`
- `MembershipsJoinWhatExists`: `Spec => []MembersExist`
- `OwnershipIsUnique`: `Spec => []OneOwnerAtMost`
- `HandingOverIsClean`: `Spec => CleanWipeHandsOver`

Neither `MembersExist` nor `OneOwnerAtMost` is inductive: `Finish` writes what the session decided several round trips
earlier. The strengthening (`SessionOK`, `Apart`) says what locks guarantee in between. A deletion
that holds its code keeps its user (`FinishWaits`: any other deletion of the user waits for the code);
what it loaded as owned stays owned unless the household is gone; an heir it has promoted stays a
member (`FinishWaits`, `LeaveWaits`, `CloseWaits`: whoever would delete the row waits for it). So at
`Finish` the user still is the only owner, and the heir the only one afterwards.

`HandingOverIsClean` adds what a deletion that nothing overtook has decided so far (`PlanOK`): the
households it has dealt with, or has still to, are exactly the user's (`Planned`), and each decision is
right as the memberships are now (`Settled`). Any change of memberships marks those who have read them
(`PublishPlan`), and no other step ends a deletion (`OnlyFinishWipes`). That the heir of an owner is
somebody who is left rests on `OneOwnerAtMost`.

`ApiClientProofs.tla` proves, for any number of tokens and requests, from `TokenAssumption`:

- `SessionTypes`: `Spec => []TypeOK`
- `RevocationIsComplete`: `Spec => []KnownTokensDie`
- `RevokedTokensFail`: `Spec => []ReuseFails`
- `StoredTokenIsGood`: `Spec => []StoredTokenLives`

The server's part of the invariant (`ServerOK`) rests on one fact, `Later`: a session is neither
deleted nor made valid again, so what a request has read can only have become worse; a revocation of
all has found (`Covers`) every session it knew of that is still to be revoked. The device's part
(`Presented`, `Fresh`) says that a token on its way to the app is known to no other call, so it
cannot be spent before it is stored, and that a token presented is one some call still waits for, or
was cut off with. `ServerMove` and `ServerStay` carry the server's part over a step of one request;
`Service`, `Arrival`, `Presentation` and `Delivery` say what such a step means for the device.

`SignInProofs.tla` proves, for any limits, lifetimes, scenes and number of requests and rows, from
`RowAssumption`, `NoRowAssumption`, `BoundAssumption` (requests at a time are finitely many, bounds
are numbers), `SceneAssumption` (how the account of a scene may begin) and `LimitAssumption`:

- `GuessesAreLimited`: `Spec => []WindowBounds`
- `WindowIsExact`: `Spec => []CountsTheWindow`
- `TypesAreKept`: `Spec => []TypeOK`
- `CodesAreOneTime`: `Spec => []OneTime`
- `OneIsOpen`: `Spec => []OneOpenCode`
- `GuessesCount`: `Spec => []GuessesAreCounted`
- `SecretIsProven`: `Spec => []AuthenticatorIsProven`
- `ResetEnds`: `Spec => []ResetEndsSessions`
- `AccountIsKept`: `Spec => AccountStands`

All but the first two rest on one invariant. Its general part says which rows a request may have in its
session at its present point (`ScopeOK`), that a new row belongs to one request (`NewRowsOK`), and that
there is a row left for everyone under way (`Room`). The rest compares what each request read with what
is stored, provided nobody stored it meanwhile (`behind`):

- the account (`AccountOK`): a request that still goes by the user goes by the stored one, and what
  it has pending is what its handler makes of that (`Intends`). Recovery codes in the making are of a
  generation nobody else makes and nobody was accepted with (`CodesOK`).
- codes (`CodeOK`, `ClosesOthers`, `ClaimOK`): only a request that issues leaves a code open, and it
  closes those it read as open; a code gone by as good is open until its acceptance is stored, and
  closed with it (`Closes`). Codes accepted are closed (`AcceptedOK`).
- counters (`Counted`): the counter of a code no guess is about is the number of guesses compared with
  it, and what the only guess about it would store is that number too. This is why the property
  excepts overlapping guesses only.
- sessions (`TokenOK`, `EndsAll`): a reset that stores has every live session in its own session,
  save those of whoever overtook it.

An action either moves one request and leaves its rows (`MoveStep`), is no business of the tables
(`QuietStep`), or pends changes of the account (`AccountStep`) or of codes (`CodeStep`). `COMMIT` is
where everything meets: `CommitStep` is proved conjunct by conjunct, for the request that commits
(`CommitOwn`) and for those it overtakes (`CommitOthers`). A flush and a commit cannot fail on a guess
(`GuessesDoNotFail`): codes are never deleted, so a guess that was compared is always stored.

For the limiter, the invariant (`LimiterInv`) says that hits are in the order of the clock, that those popped are out
of the window and that the rest fit the limit. A hit is admitted when fewer than `Limit` are left, so
the one `Limit` before it was popped (`AdmitKeeps`). Of `SignIn`'s steps only `Verify`, `TurnedAway`
and `Time` touch the limiter (`OnlyVerifyIsLimited`). That bound alone would hold of a limiter that
refuses everybody; `WindowIsExact` is the other half: what is left in the deque when a call is decided
are the calls of the window, each of them and no others. The code looks only at the left end, so this
is where the order of the log (`Ordered`) is needed: once one entry is in the window, so are all
after it (`OrderCounts`).

`ProjectionProofs.tla` is about the planner's arithmetic, for all amounts and months, any finite
spending, any protected categories and any order of categories with equal spending:

- `ProjectionsReach`: the monthly amount reaches the target but for the rounding, a goal is on track
  exactly if its gap is 0, and a surplus with the gap filled always is enough.
- `CutsClose`: the cuts of `RecommendCuts` satisfy `Closes`: none exceeds a fifth of its category,
  together they do not exceed the gap, categories are taken from the largest on, and if a part of the
  gap is left then everything that may be cut is cut.
- `CutsAmountTo`: together they are the lesser of the gap and all that may be cut. The code sorts by
  spending only, so categories of equal spending come in the order of the database: that order
  decides which of them is cut and never how much.

The first rests on `HalfUpIsNear`: a quotient rounded half up is off by at most half a divisor. The
others are about folds, which the community modules define by a recursive function that is chosen.
The induction theorems of the library take a predicate as a parameter, which the provers cannot
instantiate, but its theorem of the least element of a well-founded order (`WFMin`) is about sets.
From it follow the two inductions that are needed, for sets in place of predicates: `Numbers` (of
natural numbers) and `Subsets` (of the subsets of a finite set). They show that the chosen functions
exist and agree wherever they must: a sum is what is taken out plus the rest, in whatever order it is
taken (`SumsExist`, `SumsAgree`, `TotalTakesOut`, `TotalsCompare`), and the fold over a ranking is the
loop of `recommend_cuts`, one category after another (`CutsInTurns`). `InOrder` is the invariant of
that loop: what is cut and what is left add up to the gap, a category is cut only if those before it
are cut in full, and as long as a gap is left all of them are (`TakeKeepsOrder`).

`PlanningProofs.tla` proves, for any number of requests, goals, categories and months, any amounts,
patches and ledgers, from `RowAssumption`, `NoRowAssumption`, `BoundAssumption` and `DataAssumption`:

- `TypeCorrect`: `Spec => []TypeOK`
- `OneByOne`: `Spec => []AsIfOneByOne`
- `Dangling`: `Spec => []NothingDangles`
- `FullCorrect`: `Spec => FullIsCompleted`
- `PlansCorrect`: `Spec => []PlansAddUp`

`DataAssumption` says among other things that the spending of a ledger has finitely many categories,
as a table has rows. What a request is about to store was computed from what it loaded, so the invariant `IInv` (`RequestOK`)
carries that along: the columns a contribution or update goes by are still the stored ones unless the
request is behind (`Current`), and its pending or sent change is the one edit it makes of them
(`Makes`). At the commit the columns it sends, merged into the row as it is by then, therefore are the
edit applied to that row, which is what `serial` records; of a request that is behind, `serial` records
what it stored. `Hangs` says that the rows in a session hang on rows that are stored or in the same session,
and that rows of some tables, once there, stay (`Lasting`); for plans it is the locks of the foreign
key (`Waits`) that keep the goal until the plan is stored.

A plan goes by a surplus and a spending that two statements read, between which a sync may commit,
and is stored some steps later. `PlansInv` follows it: a request that is about to make a plan has read
spending that was stored, and what a request has pending or sent adds up, as what is stored does.
Plans are in the hands of requests that make plans only, at the point where they store them
(`PlansInScope`, from `IInv`); steps of others leave them alone (`Stays`). `MakePlanKeeps` is where
`ProjectionsReach` and `CutsClose` are used.

`EnrichmentProofs.tla` proves, for any number of requests, transactions, descriptors, categories and
corrections, from `RowAssumption`, `RequestAssumption` (the requests at a time are finitely many),
`BoundAssumption`, `DataAssumption` and `NoRowAssumption` (a row is not the absence of one):

- `CorrectionsLast`: `Spec => CorrectionsStand`
- `DuplicatesStayFew`: `Spec => []DuplicatesAreBounded`
- `RulesAlwaysWin`: `Spec => []RulesWin`
- `TypeCorrect`: `Spec => []TypeOK`

A re-application overwrites rows it read some flushes before, so the invariant follows them through
the session (`RowsOK`): an enrichment pending or flushed, other than the corrected one, is of a row
that was not corrected when it was read, or the request is behind on it. A commit of another request
puts the rows it stores on the record of everybody who goes by them (`OthersFallBehind`,
`CommitStep`). A merged `UPDATE` may send another stage than the request decided; `FlushStep` shows
that the stage is then the stored one. Syncs cannot undo anything, because a transaction they import
is not stored yet and no two of them import the same (`Apart`). The second theorem counts: an
embedding about to be inserted was seen by nobody, so those stored and those in sessions add up to
at most the requests (`Bounded`).

`RulesWin` relates three tables, and is not inductive: what a request will store has long been decided
when it commits. A second invariant, `RInv`, says of every request what it has read of the rules and what
the rows in its session make of the stored ones, as long as nobody stored them since. An import goes by
the rules of its household as they are stored (`SyncRules`): what it decided of a descriptor with a rule
is the rule, and it names an embedding only where it found none. A correction (`CorrectRules`) makes the
corrected row, the rule and the embedding agree (`Becoming`), and every row alike is still on its list,
or will follow the rule, or is one a user corrected (`Following`). A transaction that a swallowed failure left bare is
in the sync's `left` and becomes `skipped` when it is stored: until then nobody else sees it, and a
correction of its descriptor ends the exception, because it then has a row that follows the rule.
The columns a merged `UPDATE` leaves
out are those it loaded, hence still the stored ones (`Loaded`). If another request commits first, what
it stored is in `behind`, and the promise is off: that is exactly what `raced` excuses. Only a commit
changes the tables, and `ImportCommits` and `CorrectionCommits` show that `RulesWin` holds after it.

`LinkingProofs.tla` proves, for any number of requests, connections, authorizations and tokens, from
`RowAssumption`, `LinkAssumption` and `NoRowAssumption`:

- `CredentialsAreKept`: `Spec => []CredentialsKept`
- `NoSecondConnection`: `Spec => ConnectedOnce`
- `EditsStand`: `Spec => OwnersEditsStand`
- `TypeCorrect`: `Spec => []TypeOK`

The invariant gives every request the rows it may have in its session at its present point (`Scope`) and
what is in them: the user row belongs to the one request that registers (`OneRegisters`, `SecretOK`), a
connection to the request that inserts it and otherwise only its status changes (`BankOK`), an account's
balance to syncs and the rest to edits (`AccountOK`). That flushes merge by column, and that no two
sessions hold a row, carries these facts from the load to the commit. Types need one more invariant:
positions, which only come and go (`HoldingsOK`), and the observer (`ObserverOK`).

Left to TLC: `SyncEnds` and `RequestEnds`, which are liveness under fairness and need `ENABLED`,
which the prover does not reach. Every other property of a passing run is a theorem.

## 3. Not modelled, and plan

Not modelled, since there is no behaviour over time that a model would add to: metrics (read-only
SQL), rendering, cryptography, redaction patterns and prompts, migrations and seeding, CSV parsing,
the demo bank's generator, the OAuth handshake with its providers (it keeps nothing; what it does to
the account is `OAuth`). The assistant appends messages to a conversation of its own after at most
four rounds of read-only tools. The polling of Flinks jobs ends in an answer or a failure, which is
what `BankSync` has of it. The web client's `bankSync.ts` keeps one promise and one timestamp; what it
starts is sync-mine. The cookie that browser tabs share is the one piece of the clients' session
protocol that is missing.

In order of importance, what is left:

1. An abstract specification of `SignIn` (a code is open, accepted or void) that it implements in the
   absence of overlaps, and one of `Planning` in place of the observer `serial`.
2. The web client beside `Sessions`: two tabs that share the refresh cookie.
3. Liveness of `Linking` and `Enrichment`, with the deadlocks of two corrections.
