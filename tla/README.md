# A TLA+ verification of the DAB AI gateway

This directory holds TLA+ models of the gateway in `src/`: a Go service that
puts personas, sessions and audit in front of a vLLM server, and the Next.js
admin console beside it. The models are checked by TLC on small instances, and
their safety properties are proved with TLAPS for every instance.

`PROJECT.json` lists components, runs, mutants, hazards, findings and theorems,
and maps every definition that stands for code to the lines it stands for.

## 1. The system

### Components, their state and their operations

| Part | Source | State | Operations |
|---|---|---|---|
| Context assembly | `gatewaycore` | none (pure) | `dropOverlap`, `capHistory`, `AssembleContext`, `PersistExchange` |
| Conversation store | `conversation` | `conversations`, `messages` | `CreateConversation`, `GetConversation`, `LoadHistory`, `AppendMessages` |
| Chat endpoint | `gateway` | one turn per request | authenticate, limit, decode, resolve, assemble, call or stream, persist, audit |
| Stream relay | `gateway/stream.go` | lines seen, text collected | `relayStream`, `sseData`, error and session frames |
| Two-key auth | `gateway/auth.go`, `apikey` | `api_keys` | lookup, compare, detached touch of `last_used_at` |
| Upstream client | `vllm` | none | `Complete`, `Stream` |
| Usage audit | `usage` | `gateway_usage` | detached `Record` |
| Rate limiter | `ratelimit` | a bucket for each key, last sweep | `allow`, `sweep`, `retryAfter` |
| Admin keys | `admin/keys.go`, `apikey` | `api_keys` | create, list, edit, revoke |
| Admin session | `admin`, `token`, `auth`, `frontend/lib` | the token in a cookie, the session record in localStorage | login, `RequireAdmin`, logout, redirect on 401 |
| Users | `user`, `cmd/createsuperuser` | `users` | create, reset a password |
| Keys page | `frontend/app/dashboard/keys/page.tsx` | React state, requests awaited | load, retry, revoke, cancel |
| Key forms | `frontend/app/dashboard/keys/new`, `.../edit` | form fields, the request awaited, the secret shown | load, type, submit, copy, done, cancel |
| Migrations | `db/migrate`, `cmd/migrate` | `schema_migrations`, the schema, the migration files | `Create`, `Load`, `Up`, `Down` |
| Configuration | `config` | none: read once at start | `Load` |
| Server process | `cmd/server`, `db/pool.go`, `httpserver` | phase, pool, requests in flight | start, serve, shut down, exit |
| Middleware and health | `httpserver`, `log` | a response recorder for each request | log, recover, preflight, `/healthz`, `/readyz`, `/version` |

### How they interact

A chat request passes authentication, the limiter of its key and the decoder;
it resolves a session of its key, loads the history, drops from the incoming
messages what the history already ends with, calls the model, loads the history
*again* and appends the exchange in one transaction; then an audit row is
written by a goroutine that nobody awaits. Administrators edit and revoke keys
under requests that have already authenticated, from pages whose late answers
still move the browser's tab. Every handler runs behind the logging middleware,
whose recorder tells the panic recovery whether the response has begun, and the
readiness check takes its connection from the pool the handlers use. The process
starts if `config.Load` accepts its environment; several servers, of several
releases, may migrate one database at start. On a signal the process stops
accepting, drains, closes what is left after a grace period, and releases the
pool; detached goroutines are not awaited.

The only things shared are the database (PostgreSQL at READ COMMITTED: a
statement sees what is committed, an `UPDATE` locks its row until the end of the
transaction), the limiter's map under its mutex, the pool, and in the browser
the cookie and localStorage.

### What is hard

- turns of one session that overlap: the history changes between the two loads
  of a turn; rows are stamped when a transaction begins, not when it commits;
- a `COMMIT` or a `DELETE` that takes effect while its answer is lost, and the
  retry of what was already done;
- a caller that leaves, the 10 s limit on saving, and a stream cut in the middle
  of a line, an event or after `[DONE]`;
- revocation and edits of a key under a running request;
- a crash or a shutdown with goroutines in flight;
- several migrations of several releases, several `createsuperuser` runs, several
  administrators;
- handlers that flush, panic or are aborted in the middle of a response;
- callbacks in the browser that end late, in another order, on another page, or
  never.

The hazards, line by line, with the properties that would catch them going
wrong, are under `hazards` in `PROJECT.json`.

## 2. The modules

Each module names the state of its component in `VARIABLES`, has one action for
each statement, handler step or callback, and takes its failures from a constant
`Faults`, so that a configuration says which of them can happen. Auxiliary
variables are marked as such where they are declared. An operator whose comment
begins with `Mutant:` is a plausible bug in the definition that follows it; no
specification uses it.

**Messages** has the pure operators of `gatewaycore`. `LongestOverlap` is what
the loop of `dropOverlap` finds; `OverlapLoop` is that loop as it is written, and
that the two agree is checked and proved.

**Conversation** has the store and the turns that use it, over real messages:
`Assemble` (load, drop the overlap, cap), the model's answer, `PersistLoad` (the
second load), `BeginTx` (the base of the timestamps), `Bump` (the `UPDATE` that
takes the row lock), `Commit`. A `COMMIT` whose answer is lost leaves the turn in
`limbo`, from which the database commits or aborts. Timestamps are a logical
clock read by one server; `Id` is the order of two random uuids, chosen freely.
**ConversationLog** is the abstract specification: for each session, an
append-only sequence of whole exchanges. `RefinesLog` says that the store
implements it when callers await their answers.

**ChatTurn** has a chat request from arrival to audit, with messages abstracted
to the requests whose exchange is stored. A request may be left by its caller at
any moment (`Disconnect`), statements fail or lose their answers, the process
crashes (`Crash` loses every handler and goroutine), keys are edited and
revoked. **TurnContract** is what a caller may rely on: an exchange is
attempted and stored at most once, a turn reported as saved is stored, one
reported as failed never will be, and only `unsaved` leaves it open.
`RefinesContract` maps the endpoint to it.

**StreamRelay** has `relayStream` line by line, the frames around it and the
caller's event-stream parser (`Hear`), which decides what the caller really
receives: it reads each line as it is written and takes text and reports only from
events that an empty line has ended. A
line may be an error object of the model (`fault`), which the code relays and
does not look at.

**RateLimit** has the map of buckets, the sweep and the fixed `Retry-After`,
beside ideal buckets that are never swept. The token bucket itself
(`golang.org/x/time/rate`) is external. Two auxiliary variables are an observer
who at any moment begins to count what each key is admitted (`since`, `spent`):
the rate is a statement about every stretch of time. The limiter with a rate of zero or less
lets everything through and has no state; it is not in the model.

**AdminKeys** has the endpoints over `api_keys`, statement by statement: an edit
is a read and a write with nothing held in between. `Unauthorized` is the guard
in front of every route.

**KeyForms** has the pages that create and edit a key. A visit is one mounting of
a page, with its React state; `Submit` sends the request, the server works on it
with the actions of `AdminKeys`, and `CreateEnds`, `SaveEnds`, `SubmitFails` and
`SubmitUnauthorized` are what the `await` of `handleSubmit` goes on to, whichever
page the tab shows by then: a state setter of an unmounted page does nothing, a
`router.push` navigates all the same (`Navigate`). Requests of other clients use
the same endpoints (`OtherSends`).

**AdminSession** has runs of `createsuperuser`, the login handler (the row is
read, later compared and answered), the token, `RequireAdmin`, and the browser:
the cookie is stored with the headers of the answer, the session record after
its body. The console calls a logout endpoint the server does not have, as
`auth.ts` says; the model answers 404.

**KeysPage** has the React state of the page, the requests it awaits and the
clicks that are possible in each state. Slots for requests are reused, so the
number of clicks and retries is not bounded.

**Migrate** has `Up` and `Down` of several processes: the list of applied
versions is read once, each script and its bookkeeping row are one transaction,
and a script may go on in the database after its run has given up. A run knows
the files its binary was built with: those of the last release, or of the
directory, in which `Create` may be at work (`CreateUp`, `CreateDown`: two files,
one after the other) for two developers in the same second. `Loads` is what
`Load` accepts of them.

**Config** has `Load` as a function of the environment: a variable's value is
what kind of text it is (a number, a URL with or without a host, ...), and
`Problems` is the set of variables that the aggregated error names.

**Server** has the phases of the process, from the loading of the configuration;
the connections of the pool, handlers and detached audits, the signal, the grace
and the exit.

**FrontDoor** has what lies between the process and the handlers: the recorder
of the logging middleware over `net/http`'s writer, preflights, panic recovery,
the log line, and the health endpoints. A domain handler is any sequence of
status, body, flush and statement, which may end in a return, a panic or an
abort, or never.

The modules whose name begins with `MC` give constants their values for TLC; those
whose name ends with `Proofs` hold theorems.

### Composition

`Conversation` uses the operators of `Messages`; `ChatTurn` is the composition of
authentication, admission, the session, the model, the store and the audit at the
grain of requests. That a stored exchange is whole and ordered is what
`Conversation` shows; `ChatTurn` takes a committed transaction as one step.

`FrontDoor` extends `Server`, which extends `Config`: one run has requests in
every state of their response, on the connections of the pool, in every phase of
the process, started from any environment. `KeyForms` extends `AdminKeys`: the
answers the pages get are those of the endpoints, as other clients leave them.

## 3. What the runs show

| Run | Question | Bounds |
|---|---|---|
| `conv_serial` | with one turn at a time, a session is an append-only log in commit order, also when the answer to a `COMMIT` is lost; on every history reached, `dropOverlap` is its loop | three turns in two sessions; histories longer than the cap |
| `conv_concurrent` | what survives turns that overlap freely: whole exchanges, histories that end with a reply, the caller's message stored, appends that end | two turns, failures and lost answers |
| `conv_diverge` | is an echo ever stored again? (it is: see below) | three overlapping turns |
| `chat_tenants` | isolation of keys; a request that arrives after a revocation or an edit is answered under it | two keys, two requests, an edit and revocations, every call that is refused |
| `chat_faults` | a follow-up sees the exchange; the outcome recorded is what happened, and is recorded if the model was called, unless the process dies; the contract; a turn its caller has left ends, and so does a stream that got `[DONE]` | a stream or a plain call and its follow-up, every failure, one crash |
| `relay` | stored is what the caller can rebuild; the end is told, and an error the model reported has reached the caller | 12 lines: four events, cut anywhere |
| `rate` | over any stretch of time, across sweeps, a key is admitted at most its burst and what the stretch earns; `Retry-After` works | two keys, every stretch within 11 units |
| `key_forms` | a form makes one key unless its first attempt was reported as failed; the secret is on the screen while the tab stays and nowhere after; what is saved is what is shown; a form settles; a key is revoked once and for good; the last form wins as a whole | two visits of one tab with two requests, and one request of another client; failing statements, lost answers, ended sessions |
| `session` | `createsuperuser` reports what it did; a login proves a password in force since it was sent; the account shown is the cookie's; logout and expired tokens end at the login page | two runs, two overlapping calls of a tab, two accounts, tokens that expire |
| `keyspage` | one request at a time; notices are true; the dialog matches the table; the page settles | three keys, no bound on clicks |
| `migrate` | the bookkeeping is the schema; a success means that every version the binary has a file of is applied unless a Down interferes; not all of several Ups fail | three runs, each an Up or a Down of two, of either release; three migrations, the last one being written; failures and runs that give up |
| `server` | a clean exit loses no request and has logged each; the logged status is the one sent; a panic is answered or leaves the response alone; one error names all that is wrong with the environment; `/readyz` answers; the shutdown ends and releases the pool | two requests on one connection, handlers that may wait for ever; 7680 environments |

Two turns, requests or runs are enough for a race between two of them, which is
what the properties of the concurrent runs are about; the third in `conv_serial`,
`key_forms` and `migrate` is in another session or of another client, or is the
one that comes after the race and must find things in order. Two visits of the
tab are one whose answer is late and the page it disturbs. One connection is the
smallest pool, on which a handler can starve another, an audit and the readiness
check. The files of a third migration make a directory with a version half
written, twice named or whole, on a database that may be ahead of or behind the
binary. Three turns of one session make
`conv_diverge`: one to echo, one to overtake, one to be overtaken. A second tab
would break `SessionNamesCookie`, as its comment says: cookie and session record
are stored at different moments and shared by all tabs, so two logins for
different accounts can leave one of each.

Symmetry is used where only safety is checked and the permuted values are not
told apart: the turns of a session in `conv_serial` and `conv_diverge`, the keys
in `chat_tenants` and `rate`.

### Fairness

- *Conversation*: statements return, the database resolves a transaction it was
  asked to commit, time passes. Nothing of the model; no failure is counted on.
- *ChatTurn*: a handler takes its own steps; a call whose context has ended
  returns (`net/http` and pgx honour it); the save has its 10 s limit. Nothing is
  assumed of the model or the database.
- *Migrate*: a run that was started goes on and the database ends every script.
- *FrontDoor*: the process takes its steps (that serving fails is none of them),
  the grace is a timer, a statement ends because its context is the request's or
  has a limit, and the readiness check goes on because each of its waits has a
  timer. No one is promised a connection, and nothing is assumed of a handler.
- *AdminSession*, *KeysPage*, *KeyForms*: a request is answered or fails in the end, and a
  function goes on when what it awaits has ended. The user need not do anything.

### Disagreements with what the repository says

`conv_diverge` is a run with `"expect": "violation"`, and a finding quotes the
line: a turn that commits between the two loads of another makes an echo be
stored a second time, although `PersistExchange` says that persistence can never
diverge from what was sent upstream. TLC's shortest counterexample has three
turns of one session, the last two overlapping.

The models show other places where the code does not do what a comment or the
documentation suggests. They have no run of their own; the properties are stated
so as to say what does hold.

- Overlapping turns are read in the order of their first timestamps, not of
  their commits (`conversation.go:133`); `CommitOrder` is for one turn at a time,
  `AppendsFollow` for any.
- When the answer to a `COMMIT` is lost the caller is told that the exchange was
  not saved, and it may be (`conversation.go:151`); the verdict `unsaved` of
  `TurnContract` allows both.
- A `session_id` that is no uuid is answered 503, which the documentation calls
  transient (`conversation.go:88`; `ResolveUnavailable`).
- `[DONE]` is relayed before the exchange is stored (`stream.go:142`):
  `FollowUpSeesExchange` is about callers that wait for the end of the stream.
- A caller that leaves between two looks at the context was sent an error frame
  and is recorded as a disconnect (`stream.go:94`; `Classify`).
- A body that ends after a data line and before its empty line lets the error
  frame run into the open event (`stream.go:137`), and the empty line after
  `[DONE]` is not relayed (`stream.go:143`).
- Two edits of different fields of a key: the second writes back what it loaded
  before the first (`keys.go:166`); `WholeFormWins` is for edits of both.
- An error object that the model sends before `[DONE]` ends a short reply, which
  is stored as complete although "stored history can never hold a truncated
  reply" (`stream.go:39`); the caller gets the object as an event.
- A panic in the middle of a stream is recovered (`recover.go:48`): the response
  ends as a whole one does, without `[DONE]`.
- Versions of migrations are called "globally unique" (`migrations.go:7`); they
  are seconds, and two Creates in one second make a directory that `Load` refuses.
- A save whose page was left navigates the tab when it ends (`[id]/edit/page.tsx`,
  line 63), also away from the panel with the secret of a key made since.
- Cancel while a key is being created leaves a key whose secret nobody has seen
  (`new/page.tsx:30`).
- Two Downs at once report the same rollback (`migrate.go:197`).
- A clean shutdown can lose an audit row that is still pending (`usage.go:80`).
- A revocation whose answer is lost leaves the key shown as active on the keys
  page (`page.tsx:68`).

## 4. What is proved

**ConversationProofs** has the proofs about `Messages` and about the store.

The first (any messages with roles and contents):
`LongestOverlapIsMaximal` rests on the existence of the maximum of a bounded set
of numbers; from it follow `UserTurnKept` (a user turn is never dropped as an
echo of a history that ends with a reply), `ResendIsExact` (re-sending any number
of the last messages before a new user turn adds exactly that turn) and
`CapIsTight`. `LoopFindsLongestOverlap` is about the loop itself, a recursive
function. That a function satisfies its recursive equation (`LoopIsDefined`) needs
no induction here, as the function can be given: it drops the longest overlap of
at most `k`. Whichever function the `CHOOSE` behind the recursion picks, at the
longest overlap its value is what `DropOverlap` says, and from there up to the
start of the loop it is constant, since a least `k` at which it were not would be
an overlap (`OverlapsAreMatches`, `BoundedMinimum`).

The store (any finite set of turns, any sessions, contents and requests, any
cap). `ExchangeIntact` alone is not
inductive: a commit adds rows to those of others, and nothing in it says what
those are. `StoreInv` adds that a row carries the message of its turn's batch at
its position and timestamp, that a turn that has committed has all of its rows
and one that has not has none, that rows are totally ordered, and that every
batch ends with the model's reply. With the lemmas on `LoadHistory` (`RankExists`:
the rows of a session in their order are a sequence; `HistoryEnds`: its last
message is the latest row's) it gives `ExchangesIntact`, `HistoriesEndWithReply`
and, with the lemmas on `Messages`, `UserTurnsStored` and `OverlapsAreTheLoops`.
What is stored may not be what was sent when turns overlap (section 3); what holds
then too is that an exchange is the latest of the caller's own messages and the
reply (`TurnsStoreTheirOwn`) and that the model is never sent more than the cap for
the sake of the history (`ContextsAreCapped`): `StoreInv` carries both, as only the
two loads touch what they are about. `LockHeld` and `LockHasHolder` say of each
other's locks what the `UPDATE` needs: `RowLocksAreHeld`. Histories may then be in
another order than that of the commits (section 3), but only for appends under way
at the same time: every row was stamped in the past (`Past`), so an append is read
after all that was committed when it began (`LaterAppendsFollow`, an action
property). TLC agreed with these on the instances of `conv_concurrent`, and on those
of `conv_serial` or `conv_diverge`, before they were proved.

With one turn at a time in each session (`OneAtATime`), `SerialInv` adds who
holds the lock, that rows and transactions in limbo are stamped in the past, and
that commit numbers grow with timestamps: `SerialHistoryInOrder`. From it follows
that the store implements `ConversationLog` (`SerialStoreIsLog`): a commit's rows
come after all rows of its session, a row's place in a history is the number of
rows before it (`RowIsReadAtRank`), so the history grows at its end by the whole
exchange (`LaterRowsExtend`, `CommitAppends`). When commits
are acknowledged too, nothing changes a session between the two loads of its turn
(`LoadStable`): `SerialStoresWhatWasSent`. These need the clock of a single
server; two servers whose clocks differ are outside the model.

**ChatTurnProofs** (any keys, sessions, requests, failures and crashes, under the
assumptions that names of different kinds differ). Four inductive invariants, each
resting on the ones before it:

- `TenantInv`: the credentials in a request are those of the key it presented, a
  session a request is in belongs to that key, and a history it has loaded was
  stored by requests of that session. `TenantIsolation` alone says nothing of a
  request that has its key but no session yet, or of what is stored but not yet
  loaded: `TenantsIsolated`.
- `KeyInv`: a key that was revoked when a request arrived still is, and personas
  only grow; so the check that comes later finds what had been there on arrival:
  `KeysAreNotStale`.
- `ReplyInv`: at each place of the handler, what has been answered, relayed,
  stored and recorded so far (`ReplySoFar`, `StoreSoFar`, `OutcomeSoFar`). The
  outcome is true because it is decided at places where the other three are known:
  `OutcomesAreTrue`. The same facts show that every step of a handler is a step of
  `TurnContract`, or none: `TurnsKeepContract`.
- `SavedInv`: what was reported as saved before a request arrived is stored for
  good under the session it asks for: `FollowUpsSeeExchanges`.

A step changes one request (`StepIsLocal`), so each action has one lemma about
the request that takes it.

**FrontDoorProofs** (any requests, any set of environments, any size of the pool,
any failures of the start). `ServerInv`: before the pool begins to close nothing
was taken from any request, and an exit with 0 was decided when every handler had
returned; `CleanExitLosesNothing` alone is not kept by the step that refuses a
connection. `RecorderInv`: while a handler is at work its recorder agrees with
what `net/http` has sent (`AtWork`), and when it has returned the line and the
answer to a panic are what they should be (`Done`); the lemmas on the recorder's
operations (`RecorderWritesHeader`, `RecorderWrites`, `RecorderFlushes`) are what
makes that independent of how a handler uses its writer. They give `CleanExit`,
`LogMatchesWire` and `PanicsAreAnswered`. A step of the front door is a step of the
process or none (`FrontDoorIsServer`), so what is proved of `Server` by itself
holds behind it: `PoolInv`, in which phases the pool is open and which handlers and
audits can be under way, gives `PoolAlwaysReleased` and `FrontDoorReleasesPool`,
the safety part of `ShutdownEnds`. `OneRepair` is about `Config` alone:
for every environment, putting right the variables that `Problems` names leaves
no problem (`RepairIsEnough`), although some hide others (`LISTEN_ADDR` hides
`PORT`, an address that is missing is not also badly formed).

**GatewayProofs** has what stands around a chat turn on its way in and out: the
limiter and the relay.

The limiter (any keys, rate, burst and sweep period such that a bucket is full
again before it is forgotten, `SweepAssumption`, which the defaults of `config.go`
satisfy). `RateInv` says that a bucket that is present agrees with the ideal one
and that a bucket that is absent would be full: `SweepGivesNothingAway` and
`RetryAfterIsHonest`. `NothingIsSpentTwice` adds the observer: what was spent since
it began and what the ideal bucket still holds are covered by the burst and by
what was earned, from which `RatesAreBounded` follows; the bound alone is not
kept, as it does not say how full the bucket is.

The relay (any texts, any stream of one line to an event, cut anywhere, of any
length). `RelayInv`: what was collected is what the caller has of whole events and
of the one under way (`Agrees`), which is empty after an empty line, and hence
where [DONE] may come; before the end there is no error frame and nothing stored
(`Open`). `StoredIsRebuilt` is only about the end and about saving, and says
nothing of the event under way, so it is not inductive. With `HeardOnce` (a line
is counted once, whether its event has ended or not) and `OneErrorFrame` this
gives `StoredWasReceived` and `CallersAreTold`.

**KeysPageProofs** (any keys, any calls). `PageInv` says that a load hides the
table, that `confirmRevoke` runs under `revoking` in front of the table or behind
its own load, and that a list which arrives after a notice has the key as
revoked: `AwaitsOneRequest`, `NoticesAreTrue`, `DialogsMatchTable`.

**KeyFormsProofs** (any keys, labels, visits, requests of other clients and
failures). `AdminInv` is about the server: what the stage of a request says of
its answer and its key (`SentOp`); that a row holds what its last writer sent in
full and its own secret (`RowInv`); that an answered revocation found or made its
key revoked (`RevocationInv`). `RevokedOnce` alone is not kept by an edit or by a
second revocation, which know nothing of the first. It gives `KeyIsRevokedOnce`,
`RevocationCannotBeUndone` (an action property: it needs that a request which
makes a key is never one of a key that exists) and `RowsAreOneEdit`. `VisitInv`
is about the tab: a visit is unopened, on the screen or left, holds a secret only
while it shows the panel, and waits only for the request it last sent, with the
form as it was sent; `ToldInv`, that a page which was told of a key got the
server's answer, joins the two: `FormMakesOneKey`, `SecretIsOnScreen`,
`EditsAreSaved`. `FormsUseEndpoints`: seen from the server, the forms and the other
clients do nothing that `AdminKeys` does not allow, with the requests they can
make as its requests.

**AdminSessionProofs** (any accounts, runs, calls, tabs and life of a token).
`RunInv` and `AccountInv`: a run that reports a write has made it, every write to an
account but the one that created it is of a run with `-update-password`, and an
account exists once any run has created or found it; `ReportsAreTrue`. `LoginInv`: a
login between its two looks has read, or will read, a password that was in force
since it was sent; `LoginProvesPassword` is only about the end of a login, so it
is not inductive: `LoginsProvePassword`. `BrowserInv`: between the headers and
the body of a login its token is the cookie. `SessionsNameCookie` assumes one tab
(`OneTab`), in which the form is disabled while a login is awaited; it is false
of two tabs, see section 3.

**MigrateProofs** (any migrations with any dependencies, any number of runs,
releases, developers and failures). `AscendingLists`: the number of smaller
members takes every value below the size of a finite set of numbers once, so the
list of an `Up` has every version that is not recorded. `LoadIsComplete`: what
`Load` accepts is one migration for each version that is named. `MigrateInv`: a
run that goes on has each version of its files recorded or still to do, works on
the first of them, and the versions that runs report are recorded and differ, as
long as nothing undoes them; `UpIsComplete` alone says nothing of a run that has
not returned. It gives `UpsAreComplete`.

Type correctness is proved for every component that has a state (`TypeCorrect`,
`RelayTypeCorrect`, and as a part of `RateInv` and `PageInv`). Each inductive invariant was also checked by TLC on
the instance of its component's run.

### Only model-checked

- liveness under fairness (`AppendsEnd`, `TurnEnds`, `ReadyzEnds`, `ShutdownEnds`,
  `FormSettles`, `PageSettles`, `SignsOut`, `SomeoneFinishes`), which is outside
  this prover;
- `EchoNotStored`, which is false.

## 5. Not modelled

- Hashing, comparing and generating secrets and passwords: whether they match.
- Encoding, JSON, HTTP headers, the text of errors, layout of pages.
- `RequireSuperuser` (no route uses it) and the Bearer header of `RequireAdmin`.
- Several gateway servers with clocks that differ, and limiters that are not
  shared between them.
- `status` and `version` of `cmd/migrate`, which only read; files in the directory
  of migrations whose names are malformed, which `Load` refuses at once.
- CORS headers and the allowlist of origins, request ids, log levels and the
  wording of log lines, hijacked connections; `http.ErrAbortHandler`, which no
  handler of the repository raises, is in the model as the middleware treats it.
- Tabs beyond the first of one browser; the pages outside the dashboard.

## 6. Plan

Done, in the order of importance: messages and store, chat turn, relay, limiter,
keys, migrations, server, admin session, keys page, key forms, middleware and
health, configuration; theorems on the store and the log it implements, the echo
detection and its loop, the chat turn and its contract, the limiter, the relay, the
keys page, the front door and the process behind it, the configuration, the key
forms and their endpoints, the admin session and the migrations.

`ChatTurn` is not composed with the buckets of `RateLimit`. The limiter reads
nothing of a turn but its key and decides before the turn reads or writes a
session; in `ChatTurn` its
decision is free, so every behaviour under the real limiter is one of `ChatTurn`,
whose theorems hold of it, and `RatesAreBounded` bounds how many turns of a key
get past it. No property of this code speaks of both.

What remains open is outside these tools: liveness for every instance, which TLC
shows on small ones only.
