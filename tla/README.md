# Aegis, specified

TLA+ specifications of the Aegis control panel (`src/aegis`): a Go agent that
owns all state (`aegis-agent`, an HTTP server on a Unix socket with one SQLite
file behind it) and a Next.js panel that calls it (`aegis-ui`).  TLC checks the
specifications on small instances, TLAPS proves the safety theorems for all
values of the constants.  `PROJECT.json` maps every definition to the lines it
was translated from.

Contents: [the system](#1-the-system), [hazards](#2-what-is-hard-about-it),
[modules](#3-the-modules), [runs](#4-the-runs), [disagreements with the
documentation](#5-where-code-and-documentation-disagree),
[proofs](#6-what-is-proved), [limits](#7-what-is-left-out), [plan](#8-plan).

## 1. The system

| Component | State | Operations | Talks to | Correct when | Module |
|---|---|---|---|---|---|
| Operator sessions, `auth.go` 272-424 | table `sessions` | create, validate (slides the expiry), revoke | audit log, pool, UI cookie | expiry follows use and never passes the hard cap; revoked and expired stay so | `Sessions` |
| Recovery codes, `auth.go` 577-711 | `operators.recovery_hashes` | sign in with a code, burn it | audit log, sessions | a code signs in once; one code always remains | `RecoveryCodes`, `OneTimeCodes` |
| First-run setup, `auth.go` 156-252 and the setup routes | tables `operators`, `webauthn_credentials`; a pending cookie per browser | mint a ceremony, verify it, create the owner, disclose the kit | audit log, sessions | one owner; the kit shown belongs to the account created | `Bootstrap`, `FirstOwner` |
| Passkey sign-in, `auth.go` 497-543, `webauthn-server.ts`, the login routes | `webauthn_credentials.sign_count`; the pending cookie; the authenticator's counter | mint a challenge, sign, verify, compare and write the counter | sessions, audit log | an assertion signs in once; an honest authenticator is never locked out or accused | `Passkeys` |
| TOTP sign-in, `auth.go` 545-575 | none (the seed is only read) | check a code | sessions, audit log | - | no module of its own: one of the sign-ins of `PanelBrowser` |
| Browser session and sign-in flow, `session.ts`, auth pages, forms and routes | session cookie; per tab a page, a navigation or a fetch | load and follow pages, sign in, set up, sign out | agent | no redirect loop; forms land where they send; no session is forgotten unnoticed | `PanelBrowser` |
| Settings and service control, `rpc.go` 295-340 and 527-565, `settings.go`, `services.go`, the form and the list | table `settings`; systemd; a form's values | load, save, start/stop/restart a unit | audit log, agent process | what was done is audited; a form writes what its operator saw or typed | `PanelActions` |
| Job runner, `jobs.go` | table `jobs`; channel of ids; workers | Submit, Start, worker, Get, List | pool, process start and stop | no job lost, none run twice, life cycle of the header | `JobRunner`, `JobLifecycle` |
| Audit log, `audit.go` | table `audit` (chained HMACs) | Log, Verify, List | everybody writes to it | own writers never break it; no row that Log did not write is accepted | `AuditChain` |
| Connection pool, `store.go` 25-42 | one SQLite connection | statement, transaction, cursor | every component | every call gets its turn | `SqlPool` |
| Pages, `modules.ts`, shell and feature pages | none | read, derive, render | agent client | they claim what is there and count what they show | `PanelPages` |
| Agent process, `main.go` | context, listener | start, SIGTERM, end | all | restart recovers | in `JobRunner`, `PanelActions`, `PanelBrowser` |
| Master key, `store.go` 44-66 | key file | load or create | audit, TOTP seeds | survives a crash | not modelled (section 7) |
| Log viewer, system overview, installer | none | read, format | OS | - | not modelled (section 7) |

How they interact.  Every RPC handler runs in its own goroutine on
`r.Context()`; it is a *sequence of SQL statements without a transaction around
them* (only `audit.Log`, `UpsertSettings` and the insert of `BootstrapOperator` use
one), so the calls of different requests interleave between statements although
the pool has a single connection.  A client that goes away cancels the context:
the next statement fails and what was written stays written.  SIGTERM makes `Serve`
return as soon as `Shutdown` begins, and `main` with it, so handlers under way
are cut off like those of a killed process.  A page of the panel is rendered on
the UI's server: it asks the agent for the session and then reads what it shows;
any failed read is the page's failure, for there is no `error.tsx`, `loading.tsx` or
middleware.  Nothing in the UI sets a timeout or retries.

At this commit no RPC calls `Submit`, `Register` or `Subscribe`: the job runner
is complete, is started by `main` and listed by two handlers, but nobody submits
jobs yet.  `JobRunner` and the listings of `SqlPool` describe the package as its
exported functions promise it, for whoever calls them first.  The dashboard and
every page that is not built yet read `jobs`: with the first job in the table they
would meet the self-wait of section 5.

## 2. What is hard about it

`hazards` in `PROJECT.json` lists every place with its line.  In short:

- **Read, think, write.** Session validation, recovery codes, setup and the
  passkey counter read a row, decide, and write in a later statement.  A settings
  form does the same with an operator in between.
- **Partial failure.** A session is inserted before its audit entry, an owner
  before the answer that carries the kit; settings and service actions take effect
  before they are audited; sign-out drops the error of the revocation.
- **One cookie, several tabs.** Answers of sign-ins and sign-outs set and clear one
  cookie in the order they arrive; setup and login share a pending cookie; pages
  that redirect into each other ask the agent independently.
- **Crash and stop.** Rows in `running`, ids only in the channel, an agent that is
  told to stop itself.
- **Dropped errors.** The job runner ignores every error of its own statements, and
  those of workers whose context is cancelled all fail; `Log` takes any error for "no
  rows", `Verify` ignores JSON it cannot read back.
- **Bounds.** A channel of 256 that drops ids, a pool of one connection with a
  nested read, the last recovery code, the hard cap of a session.
- **A chain that must survive its writers**, over a text in which nothing is escaped,
  and accept nothing an outsider makes up.

## 3. The modules

Names follow the code.  An operator named `X_Something` with a comment that
begins `Slip:` is not part of the model: it is a plausible bug in `X`,
substituted for it to see that a property notices.

### Sessions
One action per SQL statement or per stretch of code between two statements:
`BeginCreate`, `InsertSession`, `AuditCreate`; `BeginValidate` (the SELECT),
`RefuseRevoked`, `RefuseExpired`, `RefusePeer`, `PassChecks` (the early returns
in their order, and `now`), `WriteValidate` (the UPDATE); `BeginRevoke`,
`MarkRevoked`, `AuditRevoke`; `Cancel`; `Tick`.  `rows` is the table, `req[r]` what
the handler of request r holds between statements, `seen` the row it read, `at`
its `time.Now()`.  `known`, `used`, `toldRevoked`, `toldExpired`, `contended` and
the two `after` fields are history: what clients were told, and for which ids two
validations have overlapped.

### RecoveryCodes and OneTimeCodes
`ReadHashes`, then `RefuseUnknown`, `RefuseLast` or `Match` (the Argon2id loop),
`WriteRemaining`, `AuditLogin`, `IssueSession`, `Cancel`.  A hash stands for its
code.  `OneTimeCodes` is what the recovery page promises, and, after the first
race of two requests (`raced`), what is left of it; `ImplementsOneTime` maps
`live` to the stored hashes and `spent` to the codes that have signed in.

### Bootstrap and FirstOwner
A ceremony is one visit of the setup page with the seed and kit it was given.
`MintCeremony` is the options route, `ForgetCeremony` the loss of the cookie,
`Verify` the verify route, `CountNone`/`RefuseCompleted`, `InsertOperator`/
`RefuseTakenName` (the transaction and the UNIQUE name), `AuditBootstrap` and
`IssueSession` the steps of `BootstrapOperator`, `DiscloseKit` the answer, `Cancel`
a failure anywhere.  The cookie is cleared only on success, so a ceremony can be
verified again, also while the first call runs.  `FirstOwner` is what first-run setup
promises, open until somebody owns the panel, and what is left of it once two calls
have raced: those who were let in before there was an owner may still follow, under
names and with kits that no owner has, nobody else ever is, and no owner is replaced.
`ImplementsFirstOwner` maps `entered` to the calls between the count and the insert.
The refinement leaves the sessions out; `SessionsAreOfOwners` is about them.

### Passkeys
One operator, one authenticator, several tabs.  `Begin` is the options route (a
challenge sealed into the one pending cookie), `Sign` the touch of the key,
`Submit` the form, which sends whatever assertion its tab has with whatever
cookie the jar has.  The verify route is a request in steps: `Lookup` (the
credential with its counter), `Verify`/`RefuseAssertion` (the WebAuthn library's
rule: right challenge, counter above the one looked up unless both are zero),
`ReadCounter`/`RefuseRollback` (`CompletePasskeyLogin` reads and compares again,
and accepts an equal counter), `WriteCounter` (an UPDATE that does not compare),
`IssueSession`, `Respond` (clears the cookie, whichever ceremony is in it).
`counts` says whether the authenticator keeps a counter at all, and `Registered` what
it may stand at when setup stores it.

### PanelPages and PanelBrowser
`PanelPages` has no state: `PageReads` is what each page asks of the agent,
`DashboardPage`, `HardwarePage`, `LogsPage`, `AuditPage`, `PanelShell` and the
module scaffold are what the pages derive from the answers, `Lane` what a module
that may not be built claims about itself, `FormatBytes`, `Uptime` and `Truncate`
the formatters.  The registry of the UI has 23 modules (the agent's 24, a comment
says 22); the pages of the modules that are built do not use the scaffold, so its
"live" wording is never shown.

In `PanelBrowser` a tab rests on a page, loads one (`nav`, with the cookie it was
`sent` with, counting `hops`) or waits for a fetch (`call`, `id`, `done`).
`ServeHome`, `ServeAuth` and `ServePanel` are the server components of the root
page, of login, recover and setup, and of the panel's layout and pages; a link
between panel pages is followed without asking the layout again (`Follow`).
`Submit`, `Admit`, `Refuse`, `Welcome` are a sign-in or setup; `BeginSetup` is the
count of operators at `auth.go` 181, after which a setup goes on even if another one
has created its operator meanwhile, and `AdmitFails` an agent that fails after it
has committed an operator or a session.  `SignOut`, `Revoke`, `RevokeFails`,
`Farewell` are the sign-out button and its route, `Lose` an answer that never
arrives.  `TurnAway` stands for whatever makes `ValidateSession` refuse a session
that was not revoked (its time, another address or browser, an UPDATE that fails:
`session.ts` 97 makes no difference between them), `Readmit` for its accepting the
same session again, an expired one included when validations overlap; `StopAgent` and
`StartAgent` for `main`.  `calm` and `after` remember that nothing changed since a
navigation began and which form began it; `astray` collects the sessions not revoked
that the browser has lost, with the action that lost them.

### PanelActions
`Load` is the settings page, `Save` and `RunAction` the buttons, `Admit` and `Refuse`
the UI's proxy, which checks the session and passes the request on.
`GetBefore`, `Upsert`, `GetAfter`, `Log`/`LogFails` are the four statements of the
settings handler, `StatementFails` any of the first three failing; `Act`,
`ActFails` and the same `Log`/`LogFails` the service handler.  `ActFails` has a
*partly* branch: `systemctl restart` can stop a unit and fail to start it.  Under
the shipped unit `NoNewPrivileges=true` forbids the agent's `sudo -n`, so there
every action is an `ActFails`; the model keeps both outcomes.  `Halt` ends the
process and cuts off every handler, `ActOnSelf` is the panel acting on the
agent's own unit.  `writes`, `seen`, `alone`, `gaps`, `effects` and `lapsed` are
history: which save a form has seen, whether saves overlapped, what took effect
and what lost its entry.

### JobRunner and JobLifecycle
`SubmitInsert` and `SubmitEnqueue` are the two halves of `Submit` (the second drops
the id if the channel is full); `Dequeue`, `Get`, `RejectUnhandled`, `RunHandler`,
`HandlerReturns` follow a worker; `Start` fails the running rows and reloads queued
ones (`Boot` and `Load`); `Stop` cancels the workers' context; `Die` ends the
process. Each statement of `Start` and of the workers may fail at any time, and its
error is dropped: `Start` may fail no row and read only some, `Get` may leave the
job where it is, `RunHandler` may call the handler behind a row that still says
queued, and `Finalize`, the last UPDATE of `run` and of `finalize`, may change
nothing.  Once the context is cancelled they always fail.  `status` and `errorSet`
are on disk, the rest is lost with the process.  `starts`, `unmarked`, `dropped` and
`failures` are history: calls of handlers, those that left the row at queued, and
the jobs given up since the process started, to a full channel or to a failed
statement. `NullErrorReadable` says whether `Get` can scan a NULL error column.
**In the code it is FALSE** (section 5); with FALSE no handler ever runs, so the
passing run takes TRUE to look at everything behind that first obstacle, and the
theorems hold for both.  `JobLifecycle` is the life cycle the package comment
promises, with what is left of it when an UPDATE fails unnoticed: a job whose
handler runs behind a row that says queued is `adrift` (`Drift`), and ends from
there (`End`) or is queued again as if it had never run (`Lose`, `Crash`).

### AuditChain
`Begin` (BeginTx takes the connection), `ReadPrev` or `ReadPrevFails` (any Scan
error is treated as "no rows"), `InsertAndCommit`, `Rollback`; `EditRow` and
`DeleteRow` are somebody with the database file but without the key, who puts another
entry into a row, another previous HMAC or another HMAC, as far as he knows any
(`KnownMacs`), or deletes rows.  An HMAC is the sequence of texts it covers: two
HMACs are equal iff all the texts are.  The text itself is `Canonical`, with its
ambiguities: columns are joined with bars that are not escaped, so two entries
may have one text, and `Reread` is what `Verify` makes of a JSON column, where
invalid JSON counts as an absent value and another spelling of a document as the
document.  Two text columns and one JSON column stand for the eleven that
`canonicalize` joins.  `Verify` is the function of the same name.  `written` is what
`Log` committed, `faulted` and `edits` whether a read failed and how often somebody
edited.  `VerdictStands` is about the history of the table: what `Verify` names stays
named until that row or one before it is changed from outside.

### SqlPool
A call is the list of database operations its handler still has to do (`Plans`);
`Fail` is a statement or a Scan that fails and ends the handler, `Cancel` a client that
goes away.
`Runner.List` keeps its cursor, and so a connection, while it asks for a second
one to `Get` each job (`NextRow`, `AcquireForGet`, `ReturnFromGet`).  The
connections in use are counted from the calls that hold one (`Holding`) and those
that hold two (`HoldingTwo`).  `Nearer` is the order in which a call comes to its end.
The specification is called `PoolSpec`, so that one module can extend both it and
`JobRunner`.

### How they compose
`PanelBrowser` instantiates nothing but extends `PanelPages`: which reads a page
makes decides which failures end its load.  `Bootstrap`, `Passkeys` and
`RecoveryCodes` end in `CreateSession` and stop where `Sessions` begins; to
`PanelBrowser` all three are a sign-in that the agent admits or refuses, and a
session is accepted, turned away, revoked or not yet made.  `PanelActions` asks for
the session once, in `Admit` or `Refuse`, which are both always possible: whether it
still lives is the business of `Sessions`.  All of them use the audit log as a step
that may fail, whose inside is `AuditChain`; the connection they share is `SqlPool`.
A transaction of `AuditChain` is atomic for the others because it holds the only
connection, which is why its `conn` is a lock there and a statement is one action
elsewhere.

## 4. The runs

All bounds are named constants.  Deadlock is not checked where the system may
really stop (the bounded clock, ids, ceremonies, requests or process starts are
used up); `SqlPool` runs with deadlock checking.

| Run | Instance | Shows |
|---|---|---|
| `sessions` | 1 id, 2 peers, 2 requests, idle window 2, cap 3, clock to 5 | `SlidingExpiry`, `LogoutIsFinal`, `AuditAccountsForSessions` for every interleaving; `TimeoutIsFinal` and `ActivityExtendsSession` unless validations of the session overlapped |
| `recovery` | 3 codes and a wrong one, 2 requests | `CodesNeverRunOut`, `SerialSignsInOnce`, `ImplementsOneTime`: only issued codes sign in, each once until requests race, and one is left whatever they do |
| `setup` | 2 names, 3 ceremonies, 2 verify calls | `ShownKitWorks`, `SessionsAreOfOwners`, `ImplementsFirstOwner`: one owner until calls race, and who may still follow when they did |
| `passkeys` | 3 ceremonies, 2 requests, with and without a counter, registered at 0 or 2 | `AssertionSignsInOnce` until two requests overlap, `NeverLockedOut` always, `NoFalseRollback`: only a request that another one overtook since its lookup is told of a rollback |
| `browser` | 2 tabs, 2 sessions, dashboard and services, 1 fault (a stop of the agent, or a session accepted again) | `ShortRedirects`, `LandsWhereSent`, `SessionsAccountedFor`, `NavigationSettles` |
| `actions` | 2 forms, 1 list, 2 settings of 2 values, 2 requests, 1 stop | `EffectsAccountedFor`, `TrailReplays`, `OverwritesAreOfStaleForms`, `RequestsSettle` (a client is busy for ever only while a running agent owes it an answer) |
| `jobs` | 3 jobs (1 without handler), 2 workers, channel of 2, 3 processes | `NoDoubleExecution` always; `NoJobIsLost` and `QueuedJobsArePickedUp` but for jobs whose own statement failed and ids the full channel refused; `HandlerRunsOnce` (only by a later process, after a call that left the row queued); `ImplementsLifecycle` |
| `audit` | 2 callers, 5 entries of which two and two have the same text, 3 ids, 2 outside edits | `BreaksOnlyWhereReadFailed`, `AcceptedRowsWereLogged`, `VerdictStands` (what `Verify` names stays named until that row or one before it is changed) |
| `pool` | 3 calls, pools of 1 and 2 connections, 2 jobs | `OnlyListingsBlock`: every call returns, unless listings of jobs hold every connection and each waits for another |
| `jobs_AsWritten`, `recovery_Twice`, `actions_Unaudited` | smallest instance that shows it, or that of the passing run | section 5 |

The run `browser` also evaluates the assumptions of `MCPanelBrowser`: amounts around
every boundary of `formatBytes` below half a gigabyte are the nearest in their
unit and keep their order, uptimes read back, the audit page's counts of failures
and actors agree with a direct count, the page is capped at 50 rows, the log
page's totals agree with its sections, two pages show the same amounts of the
same overview, and the rail offers every module exactly once.

Why the bounds are enough.  Two requests are what a race needs, and the theorems
hold for any number.  The session clock passes the idle window twice and the cap
once.  Three jobs, two workers and a channel of two give a full channel, two busy
workers and a job that is refused; three processes give a crash during recovery.
Three audit rows are the fewest in which a row in the middle can disappear and
another be logged later; two edits change a row and then its HMAC, or a row and one
before it; the entries are two that run into each other over a bar, one with invalid
JSON that reads like one of them, and one document in two spellings.  Three codes
are the fewest in which two are burned and one is left; the third ceremony of setup
is the visitor who is late, that of `Passkeys` the sign-in after two that raced.
Two tabs and two sessions let one sign-in overwrite or clear the cookie of another;
the two pages are one that reads the agent without systemd and one whose read of
systemd may fail while the agent answers; one fault is one change of the agent's
mind that a navigation may meet halfway, for what follows it depends only on the
state it leaves.  Two requests of a form each, or of form and list, are enough for a
stale form, an overlap and an entry lost before a later save; two settings let one
be edited and the other only carried along.

Fairness, used for liveness only.
`JobRunner!FairSpec`: the Go scheduler runs every runnable goroutine and handlers
return (`WF` on each worker and on the second half of `Submit`); systemd restarts
a killed agent (`Restart=on-failure`) and whoever stopped it starts it again
(`WF` on `Start`); a stopping process ends (`WF` on `stopping /\ Die`).  Kills and
stops are never forced.
`SqlPool!PoolFairSpec`: handlers run (`WF`), and `database/sql` hands a connection to a
random waiter, so a call that waits for ever while the connection is freed again
and again is served (`SF`).  No fairness on `Cancel`: nothing makes a client give up.
`PanelBrowser!Spec`: the UI's server answers each request for a page (`WF` on `Serve`
per tab).  Operators, sessions, the agent and the answers of fetches are under no
obligation.  `NavigationSettles` then says that no page redirects for ever.
`PanelActions!Spec`: a browser gets an answer that was sent or learns that a
connection is closed, and a proxy gets an error from an agent that is not there
(`WF` on `Deliver` per client).  Nothing is assumed of the handlers, of SQL or of
systemctl, for none of them has a timeout: `RequestsSettle` says that a client
which stays busy is one to whom a running agent owes an answer.  Nothing makes an
agent that stopped start again either: the proxy then refuses.

## 5. Where code and documentation disagree

Each of these has a run that finds it.

- **Queued jobs are never picked up** (`jobs_AsWritten`).  `Submit` leaves `error`
  NULL, `Get` scans it into a `string`, `database/sql` refuses, `run` returns.
- **A recovery code signs in twice** (`recovery_Twice`).  Two overlapping requests
  both read the list before either writes it.  By the same race a slower request
  puts back a code that a faster one burned; `OneTimeCodes!Race` allows it.
- **An action without an entry** (`actions_Unaudited`).  "Every mutating action is
  audited" (`services/page.tsx` 14); the run finds a restart that failed after it
  had stopped the unit, and the handler returns at `rpc.go` 545-548.
  `EffectsAccountedFor` names the other ways: the entry itself fails, the second read
  of the settings fails, the agent stops in between or is told to stop itself.

This one is proved for every instance (`ListingNeverEndsHolds`), and is the one
exception that `OnlyListingsBlock` makes in the run `pool`.

- **Listing jobs blocks the agent.**  With one row in `jobs`, `List` waits for the
  connection its own cursor holds (`jobs.go` 216), and so does everyone else, until
  the client goes away.

Seen while modelling, and left open by the wording of a property instead of a run:

- **A shortened log verifies.**  "Verification walks the chain and flags the first
  broken row if tampering occurred" (`modules.ts` 278); when the newest rows are
  deleted no row is broken.  `AcceptedRowsWereLogged` says what is true instead, and
  names the other gap: an edit that keeps the canonical text (text moved over a bar,
  JSON respelled, an absent value replaced by invalid JSON) is not seen.
- Two setups that overlap under different names both become owners: operators are
  counted outside the transaction that inserts (`SerialSetupHasOneOwner` speaks of
  setups that do not overlap, `FirstOwner` says who can still follow).
- The owner is committed before the audit entry, the session and the answer.  If
  one of these fails nobody has seen the kit and setup is closed (`ShownKitWorks`
  speaks of kits that were shown).
- A failed read of the previous HMAC starts a new chain
  (`BreaksOnlyWhereReadFailed` says exactly where `Verify` then points).
- When the UPDATE to `running` fails, as it always does after a graceful stop, a handler
  runs without its row saying so, and perhaps again in the next process
  (`HandlerRunsOnce` allows one repetition per such call); when the last UPDATE or a
  `Get` fails, the job is given up until the next start (`failures`).
- Overlapping validations can bring an expired session back within its cap or
  shorten the window (`contended` in `TimeoutIsFinal`, `ActivityExtendsSession`).
- Two submissions of one assertion that overlap can both sign in, and an honest
  authenticator can then be told of a rollback (`raced` in `Passkeys`).
- Signing out with an agent that does not answer, or in one tab while another
  signs in, leaves a session that was not revoked in nobody's cookie (`astray`); so does a
  sign-in whose audit entry fails after its session was inserted (`AdmitFails`).
- A form posts all its values, so a stale one brings old values back
  (`OverwritesAreOfStaleForms` says only a stale one does).

## 6. What is proved

The `*Proofs` modules, each over its component's `Spec` as it is checked, with no
assumption but the component's own about its constants.  Each proof goes by an
inductive invariant with a lemma per action and a temporal step at the end.  The
theorems about `SqlPool` are the last part of `JobRunnerProofs`, which extends both
modules, for the call that matters to the pool is the runner's `List`.

| Module | Theorems | Why the invariant is needed |
|---|---|---|
| `SessionsProofs` | `TypeCorrect`, `SlidingExpiryHolds`, `HardCapHolds`, `LogoutFinal`, `AuditAccounts`, `RowsKeepIdentityHolds`; with overlaps excluded `TimeoutFinal`, `ActivityExtends`; `IdleWindowHolds` | a pending UPDATE is computed from an old row: `SnapshotAgrees` says the columns it uses have not changed, `RevocationSeen` that a request which began after a revocation was told has read it, `ToldIsTrue` that what was told stays so.  The time-outs need a second invariant, `TimeInv`: two validations of one session that are both under way are noted as overlapping (`OverlapNoted`), one that is alone has read the row as it is (`AloneIsCurrent`), and the row is never ahead of the last use nor, without an overlap, short of the window that use has bought (`UseInRow`) |
| `JobRunnerProofs` | `TypeCorrect`, `NoDoubleExecutionHolds`, `NoJobIsLostHolds`, `OnlyQueuedJobsStartHolds`, `HandlerRunsOnceHolds`, `RefinesLifecycle`; `AsWrittenNothingRuns` | an id is in one place at a time (channel, a Submit, a worker: `QueueUnique`, `QueueApart`, `SubmittingApart`), and the place determines the status on disk (`WaitingIsQueued`, `WorkedOn`).  `RunInv` keeps account of the handlers called (`RunsAccounted`): a queued job has had only calls that left no mark, and one that is on its way to a handler has not been called by this process.  `NothingReadable`: with the `Get` of the code no worker gets further than `Get` |
| `JobRunnerProofs`, on `SqlPool` | `PoolTypeCorrect`, `PoolRespectedHolds`, `StuckOnlyByListingsHolds`, `ListingNeverEndsHolds`, `CallsAdvanceHolds` | `PoolInv`: a call under way has an operation left, only a listing with a row left asks for a second connection (`CallsInOrder`), and the connections held add up to at most the pool |
| `AuditChainProofs` | `TypeCorrect`, `ChainIntactHolds`, `BreaksOnlyWhereReadFailedHolds`, `AcceptedRowsWereLoggedHolds`, `VerdictStandsHolds` | `Linked`: each row points at its predecessor or at genesis after a fault; `ReaderIsCurrent`: what a caller has read is still last, because it has the connection; `Provenance`: whatever HMAC stands in the table is the genesis value, junk or one that `Log` wrote, and an HMAC that `Log` wrote determines the text and the previous HMAC it was made from (`MacInjective`), though not the entry.  `VerdictStandsHolds` needs `OrderInv`: ids grow along the table (`Grows`) and a caller that goes on from a row it has read goes on from the last one (`ReaderFollows`), so a new entry comes after whatever `Verify` names |
| `RecoveryCodesProofs` | `TypeCorrect`, `CodesNeverRunOutHolds`, `LoginsUseIssuedCodesHolds`, `SerialSignsInOnceHolds`, `RefinesOneTimeCodes` | `WritesSomething`: a pending write is never empty; `Serial`: until a race, what was read is what is stored |
| `BootstrapProofs` | `TypeCorrect`, `ShownKitWorksHolds`, `SessionsAreOfOwnersHolds`, `SerialSetupHasOneOwnerHolds`, `RefinesFirstOwner` | `RowsAreCeremonies` (unique names, each row of its ceremony), `Progress` (what a running call has behind it), `Serial`.  The refinement needs them once more: the insert is a claim because nobody else has the ceremony or the name, the answer discloses because its row is still there, and a second call can be between count and insert only after a race |
| `PasskeysProofs` | `TypeCorrect`, `AssertionSignsInOnceHolds`, `NeverLockedOutHolds`, `NoFalseRollbackHolds`, `CounterForwardHolds` | every counter anybody holds was once the device's (`CountersComeFromDevice`); until a race the one request in its window knows the stored counter (`WindowIsSerial`), and an assertion that signed in is not above it (`WrittenIsSpent`); what has been verified is above the counter its request looked up (`VerifiedIsAbove`), race or not |
| `PanelBrowserProofs` | `TypeCorrect`, `ShortRedirectsHolds`, `SessionsAccountedForHolds`, `LandsWhereSentHolds`; of the formatters `UptimeReadsBack`, `FormatBytesIsClose`, `FormatBytesIsOrdered`, `TruncateKeepsBeginning`; of the pages `AuditPageCountsItsRows`, `LogsPageCountsActiveSources` | `Chain`: how many redirects are behind a navigation bounds the page it may be on, given session and operator; `Destination`: where the page a form sent to can still lead; `Held`, `Books`: who has which session id |
| `PanelActionsProofs` | `TypeCorrect`, `EffectsAccountedForHolds`, `OverwritesAreOfStaleFormsHolds`, `TrailReplaysHolds`, `RequestsAdvanceHolds` | `Orderly`: a request has a number of its own, and its step says whether it took effect; `Fresh`: what a form shows, posts or is about to be told is in force but for edits, unless somebody has saved since; `Replays`: a save that waits for its entry knows both what the trail says and what is in force |

What some of them say beyond the runs.  `AsWrittenNothingRuns` is the finding
`jobs_AsWritten` for every instance: with the `Get` of the code no handler ever
runs.  `ListingNeverEndsHolds` is the self-wait of `Runner.List` for every instance: with
the one connection of `store.Open`, a listing that has found a job is over only
when it fails or its client gives up.  `StuckOnlyByListingsHolds` is the safety half of
`OnlyListingsBlock`: in any pool, everything stands still in no other way.
`CallsAdvanceHolds` and `RequestsAdvanceHolds` are the variants behind the liveness
of `SqlPool` and `PanelActions`: no step sends a call or a request back, so that it
can fail to end only by never being served.  `LoginsUseIssuedCodesHolds` and
`SerialSetupHasOneOwnerHolds` state separately what the runs check as part of the
refinements `ImplementsOneTime` and `ImplementsFirstOwner`.

Only model-checked: liveness (`QueuedJobsArePickedUp`, `OnlyListingsBlock`,
`NavigationSettles`, `RequestsSettle`), which is beyond the prover.  Of
`OnlyListingsBlock` the safety half and the variant are proved, of `RequestsSettle`
the variant; the step from there to "every call returns" is not.  Nor is the exact
number of failed entries and of log lines, which needs induction over sequences.
Every safety property of the runs is a theorem.

## 7. What is left out

Simplifications:

- Cryptography (HMAC, Argon2id, AES-GCM, TOTP, WebAuthn signatures) is
  collision free and unforgeable.  The encoding that an HMAC of the audit log covers
  is modelled as far as it is ambiguous (bars and JSON); other encodings are not.
- Somebody who edits the audit table changes or deletes rows: he does not insert any,
  change an id or see the master key.
- A SQL statement is atomic and durable once it returns; SQLite's own recovery is
  trusted.
- Times are small integers; a tick is any duration, and the clock does not go back.
- A tab does one thing at a time: what an operator does while it waits is done by
  another tab.  The cookie's own expiry is not modelled: a cookie whose session
  has ended and no cookie are treated alike by every page.
- What is typed into the settings form while a save is under way is folded into
  that save.  What a unit does once systemd acted on it is outside.
- The redirects of a page are counted and its destination promised only while
  agent, sessions and cookie stay as they are (`calm`).

Not modelled:

- The master key (`LoadOrCreateMasterKey`): one sequential read or write before
  anything else runs; a short file after a crash is plain from the code.
- `Subscribe`, `broadcast` and `Progress` of the job runner: no caller exists, so a
  model would check a use that nobody makes.
- The in-memory agent of `agent-client.ts` 398-703: a development stub for
  Windows without a socket.
- `audit.List` and its filters, the log viewer and the system overview: they read
  and keep no state.  The pages that show their answers are in `PanelPages`.
- Wording, layout, icons and dates of the pages; the installer, a shell script
  run by hand.

## 8. Plan

Done: everything above, in the order sessions, job runner, audit log, recovery
codes, setup, connection pool, passkeys, pages and browser, settings and service
control, and the proofs of section 6.  Left, in this order:

1. `JobStream`: `Subscribe` and `broadcast`, once an RPC streams job updates; the send
   on a channel that another goroutine closes is the property to state.
2. Submitting jobs from the panel, composed with `PanelActions` and `SqlPool`, once a
   module of the agent registers a handler.

An abstract session (alive, ended, never alive again) was considered and left: a
request that began before a session ended may be accepted after its end was told,
so no step of `Sessions` is the end of that session.  What holds instead is relative
to when a request began, and is stated that way in `LogoutIsFinal` and `TimeoutIsFinal`.
