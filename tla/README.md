# Verification of purpura-backend

TLA+ models of the service in `src/`, checked with TLC on small instances and
proved with TLAPS for every value of their constants, but for what depends on
fairness. Line numbers are those of the source files.

## 1. The system

A REST API over PostgreSQL, in ports and adapters: HTTP handlers decode a
request and call one use case; a use case calls repositories, one SQL statement
(or one transaction) at a time, and a few outside services. The process keeps no
data of its own: whatever is shared is in four tables, and most hard behaviour
comes from handlers of different requests that interleave between two statements.
What the process does share is its life: a listener, a pool of connections and a
shutdown, around handlers that may still run.

| Component | State | Operations | Hard parts |
|---|---|---|---|
| Account service `internal/app/auth_service.go` | none; what a handler holds between two calls | Register, Login, AuthenticateWithGoogle, LinkGoogle, UnlinkGoogle, DeleteAccount, Me | checks made in one call and used in the next; races for an email or a `sub`; tokens that outlive accounts |
| Verification service `internal/app/verification_service.go` | idem | RequestVerification, ConfirmVerification | single use under concurrency; expiry against the clock; a failure between two writes; deletion meanwhile |
| Event service `internal/app/event_service.go`, `event_import.go` | idem | Create, Get, Update (PATCH), ChangeStatus, Delete, Query, Export, Import | read-modify-write of whole rows; imports of several statements; events of a deleted account |
| Query windows `internal/app/query_window.go` | none | resolveWindow | month ends, leap days, days of 23 and 25 hours |
| Repositories `internal/adapters/postgres`, `internal/db`, `db/migrations` | tables `users`, `user_credentials`, `email_verification_tokens`, `events` | one statement each; CreateWithPassword is a transaction | unique indexes, foreign keys, cascades, 0 rows |
| HTTP `internal/adapters/http` | none | routing, recoverer, logging, cors, authMiddleware, codec, error codes | which errors may reach an authenticated client as 401 or 500; the status sent before the body; panics |
| Process `cmd/api/main.go`, `internal/config` | listener, pool, signals, requests in flight | Load, run, serve, Shutdown, Close | a deadline, a failing listener and signals against handlers in flight |
| Tokens, hashing, Google, mail, ids, clock | outside | Issue/Verify, Hash/Compare, Verify, Send, NewID, Now | they fail, or succeed and lose the answer |

What makes each correct: *accounts* - no two share an email or a Google identity,
an account keeps a way in, nobody enters by email alone, an id never comes back;
*verification* - an email is verified by a link mailed for that very account, used
once and in time, and a user who insists gets there; *events* - they change only
at the hand of their owner, hang on an existing account, are stored clean, and
imports write what their summary says, and a backup restores what it was made of;
*queries* - pages neither overlap nor leave gaps, and a window holds exactly the
days asked for; *the process* - it serves only when configured, behind the token
check, and stops when told to, without cutting off what it could wait for.

The hazards behind these properties, each at its line, are in `PROJECT.json`.

## 2. The modules

| Module | Models | Notes |
|---|---|---|
| `ErrorCodes` | `internal/app/errors.go`, `statusForCode` | codes and HTTP status |
| `AccountStore` | the account tables, their constraints, the statements on them | a statement is atomic |
| `AccessDirectory` | abstract: accounts and the keys (password, Google identity) that open them | one atomic step per operation |
| `AuthService` | `AuthService` and its handlers | one action per repository call |
| `VerificationService` | `VerificationService` and its handlers | safety and liveness specifications |
| `Accounts` | both account services on the same tables | extends the two |
| `EventBook` | abstract: a book of events in which each write is atomic | what the event service promises |
| `EventService` | `EventService`, `ImportEvents` and the statements on `events` | one action per repository call |
| `Backend` | `AuthService` and `EventService` on one database | extends the two; tokens, cascade, recycled emails |
| `EventCodec` | the JSON of an event, the aggregate, the row, and the conversions | no state |
| `EventApi` | the event handlers with the data they carry | one request at a time |
| `QueryWindow` | `resolveWindow` | no state; against a calendar walked day by day |
| `EventQuery` | `parseQueryInput`, validation, paging, order and `Query` | a client that walks pages |
| `Router` | the routes and the chain of middlewares | no state |
| `Config` | `config.Load`, `NewJWTService` | no state |
| `Server` | `main.go`, the pool, the middlewares around a handler | composes `Router` and `Config` |
| `*_proofs` | theorems of the module they are named after | TLAPS; section 4 |
| `MC*` | instances for TLC | constants only |

**How state and actions correspond to the code.** A member of `Request`
(`VRequest`, `EventRequest`) is a slot of the server: a handler in flight, and
after its response the next one. `req[r]` is what the goroutine holds in local
variables (the user it read, the idToken's claims, the rows still to write), and
`call` is the repository call it makes next. An action is that call with the code
around it, up to the next call or the response. What a handler does before its
first call reads nothing shared, so arrival and first call are one action
(`LoginFindByEmail`, `RequestFindByID`, `UpdateFindByID`...). `answer` holds the
response written in the last step: it is what properties about answers look at, and
no action reads it. A token of the API is a member of `sessions`, added by `Issue`
and removed by `Expire`; in `EventService` every user has one, in `Backend` those
of `sessions`. `Backend` composes the whole of both services: what `EventService` calls
`accounts` is the domain of `users` there, and each step of the account service takes
its effect on the events with it, which is none but for the cascade of a deleted
account.

In `EventApi` an action is a whole handler, since what matters there is the data: a
body is a function from the keys it brings to their values, and `response` keeps what
was asked and what was answered. In `Server`, `main` is the program counter of the main
goroutine, `listener` and `errCh` are the goroutine of `ListenAndServe` and its
channel, and `conn[c]` is a connection with its request: how far it is, which kind of
handler it has reached and with whose id, the status that was sent and the one that
was logged. A handler is any sequence of statements and one response, since which
statements it makes is the subject of the services.

**Failures.** A call may fail without effect (`CallFails`, `FirstCallFails`) or
take effect and lose its acknowledgement (`LostReply`); the code cannot tell the
two apart and answers 500, except where it swallows the error
(auth_service.go:137). A crash or a deadline of the process abandons the requests
in flight, which is what a failed call does too; nothing is held in memory across
requests. Each model bounds the failures with a constant.

**Abstractions.** Emails are model values with a table `Lower` for
`ToLower(TrimSpace(_))` and a set of those `net/mail` accepts. A password is a
value with a length in bytes; its hash matches it alone. A name is blank, a text, or a
text with a NUL (U+0000). A token's id stands for
its secret and the hash of it. An event is its owner, status, two timestamps and a
function from a small set of fields, with `Clean` for the trimming of a description;
validators are one set of good values, so the different 422 codes are one. The fields
themselves, each with its validator and code, are in `EventCodec`. A query in
`EventService` is its two statements and the set of its rows; their order and
their pages are the subject of `EventQuery`.

**The database when the service starts.** Empty, but for Google accounts older than
migration 0003 (some of `LegacyId`): no `sub`, and verified by migration 0004.

## 3. What is checked

Deadlock is not checked: the services stop when the ids, the clock, the failures or
the requests of an instance are used up, which are bounds of the models, and the
process of `Server` exits.

| Run | Bounds | Question |
|---|---|---|
| `MCAuthService` | 2 accounts, which may be legacy, 3 spellings of 2 emails and one with a NUL, passwords of 8 and 73 bytes, 2 slots, 1 failure | all races of two requests; `AuthInv`, the inductive invariant, holds; keys are unique; nobody enters by email alone; no 500 but for a failure or a NUL; the service implements `AccessDirectory` |
| `MCAccounts` | 2 accounts that share an email, 2 tokens, 2 verification slots and an account slot, clock to 1, 1 failure | a link is good once, in time, for its own account, whatever the account service does meanwhile; `AccountsInv`, the inductive invariant, holds |
| `MCVerificationLive` | 1 account, 3 tokens, 2 slots, 1 failure | a patient user gets verified |
| `MCBackend` | 2 accounts ever, 1 email, 2 events, a malformed id, a text with a NUL, an account slot and an event slot, clock to 1 | events stay with their owner and their account, also when the email is registered again; no 500 but for a lost account or a statement with that id or text; `EventService` implements `EventBook` |
| `MCEventImport` | 1 user, 2 ids, 2 slots, clock to 1, 1 failure, malformed ids | imports against everything else: ids, timestamps, summaries; `EventInv`, the inductive invariant, holds |
| `MCEventApi` | 2 users, 3 events, 4 requests, bodies that deviate in a key, patches of one or two keys, backups with a key changed | exports are complete, imports restore, patches merge, answers are what was stored and what is read next |
| `MCEventQuery` | every period of 2023-2025 in UTC and a zone with summer time; up to 3 rows, pages, sizes, filters and orders | windows hold exactly the days asked for; walking the pages sees all, once, in order |
| `MCServer` | 2 connections, a pool of 1, 2 signals, 13 environments | start, requests, failures and shutdown |

Why the bounds are enough: a race here is between two handlers over one row or one
key, so two slots, two accounts and two or three ids already show it; a third slot
only repeats a role. An id is needed per object a behaviour creates, and a deleted
object's id is not given back, so the instances reach deletion and re-creation. With a lifetime of 1 and a clock
that moves once, a link expires before, between and after the two steps of its
confirmation. One
failure reaches each call, and two failures are two requests that end early. What
the theorems cover holds for every value of the bounds. Rows of `EventQuery` take
few values on purpose: ties are what breaks paging. Four requests of `EventApi` are a
create, an export, a change and the import that undoes it, or two creates and a backup
that fills a body. A pool of one connection makes the second handler wait, and of two
signals the second comes while the first one is being obeyed, or after signals have
ceased to be caught. `MCBackend` has no Google accounts and no failures: who enters an
account, and how, is what `MCAuthService` is about, and here only that an account
comes and goes.

`Permutations` are used as symmetry only for sets whose members the specification
and the instance treat alike (slots; Google identities; ids of accounts, all of
which may be legacy or none, in `MCAuthService` and `MCBackend`; ids of tokens; users
of events), and never in
the liveness run.

**Fairness** is assumed in `PatientSpec` and in `ServerSpec`. In `PatientSpec`, `WF` of `Proceed(r)`: a handler
that has begun goes on, as goroutines do, and every call returns (the mail
client has a timeout, resend.go:35). `WF` of asking and of following a link: the
user keeps trying - that is the hypothesis of the property, not a claim about the
code. Failures are bounded, and time moves only to `MaxClock`, with a lifetime
that lets some link be followed in time; the property is then that no sequence of
failures leaves an account that cannot be verified. The user asks again only when
no usable link is at hand and none is on its way.

In `ServerSpec`, `WF` of `MainStep`: the main goroutine runs, and the timer of the
shutdown fires, which is what makes `StopsWhenTold` true of handlers that never end;
`WF` of `Return(c)`: Postgres answers every statement in the end, be it with an error.
That one is a hypothesis about the outside (no statement has a timeout of its own),
and `StopsWhenTold` needs it: `pool.Close` waits for the connections in use. Nothing
is assumed of handlers, clients or the listener.

### Disagreements with the documentation

Four runs are expected to end in a violation: each states what a comment of the code
promises and shows a behaviour that does not keep it (quotes and lines in
`PROJECT.json`, `findings`). All four are races that no sequential test reaches.

1. `MCAuthSubReplaced`: the user of a password account asks for two links at once (the
   instance has no legacy accounts); both find no identity, and the second replaces that
   of the first, since the UPDATE does not say `AND google_sub IS NULL`.
2. `MCAuthSameSubRace`: the loser of two first sign-ins violates both unique
   indexes, and gets `email_taken` if Postgres reports the one on the email.
3. `MCEventLostUpdate`: concurrent edits undo each other, and a PATCH rewrites the
   status.
4. `MCEventImportAborts`: an event deleted between the lookup and the write of a
   partial import ends the import halfway.

More were met while modelling. They need one request only, or no request at all, and
no run is kept for them. The models have the behaviour of these:

- the back-fill of a legacy account answers `googleLinked: false`, since the
  response is made from the row read before it (auth_service.go:158;
  `GoogleBackfill`);
- one item whose id is not a UUID turns a partial import into a 500
  (event_import.go:126; `ImportBadId`);
- queries and exports with a token of a deleted account answer 200 and an empty
  list, where auth_service.go:228 says that they fail (event_service.go:132;
  `QueryCount`, `QueryPage`);
- `(page - 1) * pageSize` overflows an int, and page 2^62 + 1 of size 20 is the
  first page (event_service.go:128; `Offset`);
- an event at the edge of year 9999 may be stored and leave JSON's range in the
  server's zone: every answer with it, a backup included, is then a 200 with an empty
  body (codec.go:318; `WriteJSON`);
- a text of an event with a NUL passes the validators and is a 500; an import of it stops
  there, with the items before it applied (`HasNulText`, `Refused` of `EventCodec`);
- so it is with accounts: a name with a NUL passes `NewUser` and is refused by the INSERT
  (user_repository.go:68), and a login asks for an email that nobody has validated
  (auth_service.go:66); both are a 500 (`TextRefused`, `LoginFindByEmail`);
- `PATCH` and `DELETE` of `/events/export`, and `GET`, `PATCH` and `DELETE` of
  `/events/import`, are not a 405: chi falls back to `/events/{id}` (router.go:121), whose
  handlers take the word for an id and, unless the body is refused first, answer 500
  (`Matches`, `BadPathId`);
- an export has no limit, an import takes `MAX_BODY_BYTES`: a backup may be too large
  to be restored in one request (`BodyTooLarge`, `ImportEvents` of `EventApi`);
- the branch for `ErrServerClosed` (main.go:144) is never taken: only `Shutdown`
  closes the server, and then nobody reads the channel (`MainInv`, at `select`);
- a signal before `serve`, or after it, kills the process at once, with the pool
  still open (`Signal`);
- an RS256 pair whose halves do not match starts a server that refuses every token it
  issues (`NewJWTService`).

And the models leave out that a `BCRYPT_COST` over 31 is an error of every
registration, although bcrypt_hasher.go:25 says that it is clamped; and that the field
`sub` of the log is always empty, since it is read from the request as it was before
the token check (middleware.go:53).

A few more behaviours are in the models and no property is about them, since nothing
is promised of them: a race whose loser meets a failed lookup is answered as a conflict
(`CallFails`, auth_service.go:137); a request whose commit loses its acknowledgement is
refused or done twice when it is sent again (`LostReply`, `AckLost`); `updated_at` may
move back when two updates race (event_service.go:73); the total and the page of a query
are two statements (event_repository.go:116); with a statement that never returns,
`pool.Close` never does (main.go:52).

`PatchIsMerge` of `MCEventApi` shows that patches are exact for requests one at a
time, which `MCEventLostUpdate` refutes for racing ones.

## 4. What is proved

Every safety invariant, action property and refinement that a passing run checks is a
theorem as well, for any values of the constants that satisfy the named assumptions:
any sets of accounts, emails, identities, passwords, tokens, users, events, documents
and environments, any number of requests in flight and of failures, any bound on the
clock. Finiteness is assumed of the rows of a table that is paged or exported, and of nothing else.

| Module | Inductive invariant | Theorems |
|---|---|---|
| `AuthService_proofs` | `AuthInv` | `UniqueKeys`, `CredentialsMatchProvider`, `AuthenticatedNever401`, `UnlinkKeepsAccess`, `NoMergeByEmail`, `GoogleLoginHoldsSub`, `LoginProvesPassword`, `DeadSessionsStayDead`, `NoSpuriousInternalError`; `AccessDirectory` is implemented |
| `VerificationService_proofs` | `VerInv` | that it is one, of the service by itself |
| `Accounts_proofs` | `AccountsInv` | `VerifiedByLink`, `OneConfirmer`, `UsedBeforeExpiry`, `NoOrphanTokens`, with accounts that come and go |
| `EventService_proofs` | `EventInv` | `SealedInOrder`, `DeletedStaysDeleted`, `SummaryAccountsForAll`, `OnlyItsOwner`, `ShowsOwnEvents`, `NoSpuriousEventError`, `AtomicIsAllValid`; `EventBook` is implemented |
| `Backend_proofs` | `BackendInv` | `OnlyItsOwner`, `ShowsOwnEvents`, `NoSpuriousEventError`, `DeletedStaysDeleted` and the refinement of `EventBook`, with accounts that come and go |
| `EventQuery_proofs` | `WalkInv` | `WholeDaysAskedFor`, `WalkSeesAll`, `WalkInOrder` |
| `EventApi_proofs` | `ApiInv` | `ExportIsComplete`, `AnswerIsStored`, `PatchIsMerge`, `RestoreRestores` |
| `Server_proofs` | `ServerInv` | `NoneCutShort`, `NeverSilentlyStops`, `ServesOnlyConfigured`, `UserIsKnown`, `LoggedStatusIsSent`, `NoStatementCut` |

### Assumptions

They are named in the modules that declare the constants, and TLC evaluates them in
every run.

- *Conversions.* `EmailAssumption`: `Lower` is idempotent, valid emails are normalised and
  have no NUL, and `Lower` neither adds nor removes one. `ValueAssumption` of `EventService` and `TrimAssumption` of `EventCodec`:
  trimming is idempotent, and does not change whether a value is valid.
  `BodyAssumption`: a value in a JSON body is null, of the wrong type, or of the type of
  its key. `EnvironmentAssumption`: a variable that strconv parses is a number.
- *Nulls are no values.* `IdentityAssumption`, `PasswordAssumption`, `TokenAssumption`,
  `EventIdAssumption`, `VerificationAssumption`, `ValueAssumption` of `EventCodec`.
- *Types of inputs.* `DocumentAssumption`, `InputDateAssumption` (time.Parse refuses a
  date that the calendar does not have), `InputAssumption`, `RowAssumption` (what rows
  are ordered by is a number), `ApiAssumption`.
- *Zones.* `ZoneAssumption`: clocks are moved by two hours at most, so that midnights
  come in the order of their days. `CalendarAssumption`: the days that are compared with
  a window begin in year 1, as a query does (query_window.go:77).
- *Sizes.* `QueryAssumption`: the rows of a table can be counted in an int, without
  which an offset could wrap before the last page. `ServerAssumption`: the pool has a
  connection.
- *Composition.* `BackendAssumption`: the users of events are the accounts.

### Arguments

**Accounts.** `UniqueKeys` is not inductive by itself for what is needed of it: an
INSERT uses an id drawn earlier, so one must know that no other request or row has
it; `UnlinkKeepsAccess` needs that a request about to clear a `sub` saw a credential
that is still there, which follows from `CredentialsMatchProvider` and from the fact
that nothing removes a credential but the deletion of its account;
`NoMergeByEmail` needs that the account a sign-in is about to back-fill still is a
Google account with that email. `AuthInv` collects these facts: the types,
`EmailsCanonical`, `UniqueKeys`, `CredentialsMatchProvider`, `IdsOK` (ids in use
were handed out; an id under creation belongs to one request and to no row, nor to
a session), and for each request `ControlOK` (which data it has at which call) and
`MemoryOK` (what it read of an account still holds, or the account is gone). That a
login proves its password although email and hash are read in two calls, and that no
interleaving makes a 500 without a failure or a NUL in a text of the request, follow from
`AuthInv`.
For the refinement, the writes of a step are classified (`StepWrites`): a row is
inserted with its keys, a `sub` is set or cleared, a row is deleted, or nothing is
written. Each class is one action of the directory.

**Verification.** A confirmation reads a token, marks it and marks the email, in three
calls. `ConfirmsOwnToken` says what remains true of the first when the others run, or
that the token went with its account; `TokensFresh`, that a token under creation is
in no table and no mail but its own. `AccountsInv` adds what neither service could say:
the account that a verification remembers is not one that is still to be created
(`NoIdReturns`). Without it, an id that came back would be verified by the link of its
predecessor. Each service is shown to leave the invariant of the other alone.

**Events.** A PATCH and an import write rows that were read or prepared some calls ago.
`WriteOK` says of each what it may rely on at the write: the row has the owner of the
request; an INSERT has an id that never named an event; the row an UPDATE is for still
has the `created_at` that was read, or is gone for good. `PendingIds` keeps the INSERTs
of different requests apart, which `DeletedStaysDeleted` needs. `EControlOK` balances
the items of a document between done, failed and still to do, which is
`SummaryAccountsForAll` at the end. `BackendInv` is the invariants of both services and
`accounts = DOMAIN users`: a step of the account service opens one account, closes one,
or neither (`OneAccountAStep`), and all the event service sees of it is `accounts`
growing or a cascade (`AccountStep`). The refinement of `EventBook` goes by the three
statements that write: INSERT, UPDATE and DELETE are its actions, since the INSERT has a fresh id and
the UPDATE keeps the owner and the creation of the row; a cascade is its closing of an
account.

**Queries.** For windows, the days of the calendar are numbered without gap or overlap:
a month begins where the one before ends, also over the end of a year (`MonthLength`,
`YearStarts`), so that `NextDay` adds one to the number (`NextDayIsNext`) and dates
compare as their numbers (`DaysCompare`). With midnights in the order of the days
(`MidnightsOrdered`), a window from the midnight of one day to that of another holds
exactly the days between (`WindowCovers`), which is then shown of each kind of period,
the normalisation of month 13 included (`MonthWindow`). For pages, the id that ends
ORDER BY makes the order total (`PrecedesIsTotalOrder`), so that there is exactly one
sequence of the rows: each row stands in it at its rank (`PlaceIsRank`,
`OrderIsUnique`). Two SELECTs hence slice the same sequence, and slices join
(`PagesJoin`), as long as the offset does not wrap, which it does not on a page that
exists (`IntHoldsOffset`, `PagesHoldAll`). `WalkInv` says that what the client has
collected is the part of that sequence from where it began.

**Content.** `ApiInv` says of the rows of the table, and of the events of the document
the client keeps, that the validators and the columns have let them through: texts are
trimmed, instants are whole microseconds, what is null may be null. Then storing such a
value and reading it again is the identity (`RowShowsEvent`, `ItemCopied`), so an answer
is what was stored, and what a read shows as long as JSON carries its year (`ReadIs`); and decoding a body over a row that decodes is a merge
(`EditIsMerge`). An export enumerates the user's rows (`ExportShows`), which can be
ordered: a row's place is the number of those that are not after it (`OrderExists`). For a
restore, the items of an export have different ids, those of events that are gone get
fresh ids by their place among the others (`Numbered`), and the last write of an id
decides (`ImportedIs`), which is then the only one (`RestoreDone`).

**The process.** That an exit with 0 cuts nothing short is a statement about the last
step; what makes it true is decided earlier, when `Shutdown` returns nil, and must
survive the steps in between, in which the deferred `Close` still runs. `DrainedInv` says
what holds from then on: a signal came, the listener is shut, and no connection has a
request or has been refused. For it to be inductive no request may arrive after the
listener is closed (`MainInv`: at `shutdown` it is not `on`, and a listener that starts
late does not listen any more), nobody may be refused before the pool is closing
(`ConnInv`), and the result is set only on the way out. `RequestOK`, in `ConnInv`, ties
the stage of a request to what was sent and logged, and a handler that reads the user to
a request that has one; that follows from `ReadersAreProtected`, a lemma on the route
table. What a route demands is computed from the sets of `Router`, whose members are
constants of the program.

### Layout

A proof module extends the module it is about; those of the compositions extend the
proof modules of their parts and cite their lemmas. Each begins with lemmas on the
operators that change the tables, goes on with what happens to the other requests when
one moves (`QuietStep`, `WriteStep`, `StepKeepsFresh`, `OthersStand`...), has one lemma
for each action or pair of like actions, and collects them in the lemma that `Next`
keeps the invariant. The properties come last.

### Only model-checked

`EventuallyVerified` and `StopsWhenTold`: liveness under fairness is out of the reach of
this prover. The four disagreements of section 3 are counterexamples, which TLC finds.
That `BackendInv`, `WalkInv` and `ApiInv` are invariants is a theorem and not part of a
run: TLC agreed on the instances of `MCBackend`, `MCEventQuery` and `MCEventApi` before
they were proved.

## 5. Not modelled

The CORS headers and request ids, the wording of the log, signatures of tokens and
passwords byte by byte, rendering of mails, the cost of hashing, the overflow of a
configured lifetime, the build. `UpdatePasswordHash`, `Reschedule` and the Parse functions
of the enums are called by nothing. Zones whose clocks change at midnight are out of
scope, as query_window.go:37 says. Of `net/http`, the timeouts of a connection, a client
that goes away (its statements fail, which the services have as failed calls) and
connections with several requests are left out, and that `Shutdown` may close a
connection whose first request is just arriving: no handler has seen that one. Request
bodies of the account operations are modelled by what they decode to; 400 and 413 are
answered there as in `EventApi`, before any service is called.

## 6. Plan

Done in this order: `AccountStore`, `AuthService`, `AccessDirectory`, the proofs of
`AuthService`, `VerificationService`, `Accounts`, `EventService`, `QueryWindow`,
`EventQuery`; then `EventBook` and `Backend`, `EventCodec` and `EventApi`, `Router`,
`Config` and `Server` with its proofs; then the proofs of everything else that is
checked. Next:

1. action properties worth a theorem that no run checks yet: a token once used stays
   used, the creation of an event is never moved, `emailVerified` goes back only with
   its account;
2. for `QueryWindow`, that consecutive months and years share their bound, which the
   lemmas of the calendar nearly say;
3. `EventQuery` over a table that changes between two pages: which rows a walk still
   cannot miss;
4. tokens with an expiry (`Issue`, `Verify`) on the same clock as verification.
