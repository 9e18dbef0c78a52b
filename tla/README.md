# Formal models of the sex worker safety DAO toolkit

TLA+ models of the services and the frontend in this repository, the TLC runs that
check them on small instances, and TLAPS proofs of their safety properties for
every value of the constants. Paths such as `checkin.go:57` are relative to
`src/services/checkin-dao/services/`, and those that end in `.ts` or `.tsx` to
`src/frontend/src/`, unless they say otherwise.

## 1. The system

Five parts run beside PostgreSQL and Qdrant (`docker-compose.yml`):

| Part | Language | State it keeps | Operations |
|---|---|---|---|
| gateway (`services/gateway`) | Rust, pingora | a token bucket per client, in memory | health, rate limit, JWT check, path rewriting, forwarding |
| checkin-dao (`services/checkin-dao`) | Go | tables `users`, `check_ins`, `emergency_alerts`, `bad_client_reports`, `dao_proposals`, `dao_votes`; goroutines; the Qdrant client's mock | the handlers of `routes.go`, the check-in monitor, alert dispatch, embedding of reports |
| attestation (`services/attestation`) | Rust, axum | table `attestations` | create, get, verify, list circuits |
| analytics (`services/analytics`) | Julia | Qdrant collection `reports` | dedup; statistics without state |
| frontend (`frontend`) | Next.js, React | token and user in local storage; per page the state of its hooks, which lives while the page is mounted | login and logout, the check-in, emergency, governance and report forms, navigation |

How they interact:

- A request passes the gateway (limiter, then JWT), is rewritten and forwarded,
  and is routed, authenticated again and handled by its service. The port of
  checkin-dao is published as well, so a request may come straight to it.
- Inside checkin-dao, `main.go` starts one monitor goroutine. It finds overdue
  check-ins, marks them and calls `EmergencyService.TriggerAlert`, which inserts
  an alert and starts a dispatch goroutine (SMS, then webhook). Users' SOS button
  calls the same function.
- `RegistryService.SubmitReport` inserts a report and starts a goroutine that
  embeds it through the Qdrant client.
- The frontend calls the backend in one place, the report form
  (`components/AttestationForm.tsx:47`, `lib/api.ts`). Every other handler waits for a
  timer that stands in for its request, over constants of the source. Its pages
  share nothing but local storage, which other tabs of the browser share too.
- Everything shared by the services lives in the database. No operation of checkin-dao opens a
  transaction: each statement commits on its own, and a row lock lasts as long as
  its statement. Several processes of the service may run on one database.

What is hard about it, and which properties are about it:

| Behaviour | Where | Properties |
|---|---|---|
| check-then-write in two statements, by requests and by monitors of several processes | `checkin.go:57-82`, `:153-178` | `OnTimeCompletionIsFinal`, `AtMostOneAlertPerInstance`, `ImplementsPromise` |
| a loop that updates rows while the result set that locks them is still open | `checkin.go:153-187` | `OverdueDetected` |
| two writes of one logical step, a crash or a lost acknowledgement in between | `checkin.go:171-186`, `emergency.go:49-65` | `MissedRaisesAlert`, `LostAlertsAreFaults`, `NobodyFallsThrough`, `OneAlertRowPerProcess`, `AlertMatchesCheckIn`, `ImplementsPromise` |
| time limits shared by the calls of a dispatch | `emergency.go:126-141` | `SlowSmsKeepsWebhook`, `WebhookReached` |
| two resolvers, two moderators, two registrations, two votes at once | `emergency.go:70-93`, `registry.go:134-151`, `handlers/auth.go:60-81`, `dao.go:134-148` | `ResolvedOnce`, `AnswerIsAVerdict`, `TokenNamesItsRow`, `LastCastCounts`, `ImplementsBallot` |
| a deadline checked in one statement, a vote written in another | `dao.go:130`, `:143` | `BallotCloses` |
| a token signed at one time, and never compared with the table at another | `middleware.go:45-60` | `CallerIsKnown` |
| a bucket that is drained and refilled | `gateway/src/ratelimit.rs:18-37` | `WindowBound` |
| an unlocked flag shared by goroutines, a request whose answer is lost | `qdrant.go:63`, `:90-94` | `OnlyFallbackHides`, `EmbeddingSettles` |
| search and upsert in two requests; a PUT that is answered before its point can be found | `analytics/src/similarity.jl:41-58`, `qdrant.jl:52` | `TwinsWereHidden`, `StoredIsFoundLater` |
| three scripts that create tables of the same names, services that start before the database, a pool shared by requests and a monitor that needs two connections, a stop that waits for connections | `db/migrations.go:12-117`, `migrations/001_initial_schema.sql`, `docker-compose.yml:32-34`, `db/postgres.go:24`, `main.go:37-105` | `ServesOwnTables`, `StartServes`, `NobodyStarves`, `StopEnds` |
| a handler that waits and then acts on whatever the page's state is by then, while its form was cancelled, reopened, edited or left | `app/checkin/page.tsx:23-48`, `app/dao/page.tsx:63-72`, `components/EmergencyButton.tsx:15-23`, `components/VoteButton.tsx:17-25` | `CompletesWhatItShows`, `CompletionIsOneCall`, `OnePendingUnlessOverlap`, `OneAlertPerVisit`, `CreationIsOneCall`, `HighlightedIsCast`, `VoteIsOneCall` |
| an answer that is lost, late or not the backend's | `lib/api.ts:29-41`, `components/AttestationForm.tsx:54` | `HeardIsTrue`, `TwiceOnlyAfterError` |
| local storage read at one moment for the screen and at another for the request; a login that outlives its page | `components/Navbar.tsx:31`, `lib/api.ts:17`, `app/login/page.tsx:14-35` | `SentAsShown`, `LoginSettles` |

## 2. The modules

| Module | Models | State, and its counterpart in the code |
|---|---|---|
| `CheckIns` | `services/checkin.go` | columns of `check_ins` (`status`, `owner`, `due`); HTTP workers `req`; per monitor its loop `pc`, `inHand`, and the open statement: snapshot `snap`, rows sent and unread `sent`, row locks `locked` |
| `Emergency` | `services/emergency.go` | columns of `emergency_alerts` (`row`, `subject`, `resolvedBy`); per dispatch goroutine its process `host`, `stage` and remaining context `left`; `resolver` |
| `SafetyNet` | `main.go`: the two above in one process | adds `cause`, what an alert was raised for. The monitor's `TriggerAlert` is one step of both, and `Stop` takes a process's monitor and dispatches together |
| `SafetyPromise` | what the safety net promises its users | what became of a check-in, which are late, which were completed before that, who was alerted about what by which process; no clock, statement or failure |
| `DAO`, `Ballot` | `services/dao.go`; what voting promises | columns of `dao_proposals`, rows of `dao_votes`, `worker`; `Ballot` knows an author and a choice per user only |
| `Auth` | `handlers/auth.go` | rows of `users`, workers inside Register or Login, tokens signed |
| `RateLimiter` | `gateway/src/ratelimit.rs` | tokens per client |
| `RequestPath` | `proxy.rs`, `gateway/src/auth.rs`, `routes.go`, `middleware.go`, the handlers' answers; `EXTENDS Auth, RateLimiter` over one `Clock` | `req`, where each request stands |
| `VectorStore` | `services/qdrant.go` | points in Qdrant, `mock`, `mockMode`, and where each goroutine stands |
| `Registry` | `services/registry.go`; `EXTENDS VectorStore` | columns of `bad_client_reports`, `desk` (workers in UpdateReportStatus) |
| `Dedup` | `analytics/src/similarity.jl`, `qdrant.jl` | points Qdrant has accepted and those it searches among, where each request stands |
| `Schema` | the three scripts that create tables | `layout`: whose columns each table has |
| `Lifecycle` | `main.go`, `db/postgres.go`, `attestation/src/main.rs`, `docker-compose.yml`; `EXTENDS Schema` | where each `main` stands, the monitor's pass and the requests as holders of pool connections |
| `OneCall` | what a button with an asynchronous handler promises | the call under way and the outcome of the last one |
| `CheckInPage` | `app/checkin/page.tsx`, `CheckInWidget.tsx` | the hooks `checkIns` (`list`, `done`), `showSchedule` (`formOpen`), `scheduleTime` (`timeSet`), the widget's `completing`; `scheduling` and `ending` hold the handlers inside their wait |
| `EmergencyPage` | `app/emergency/page.tsx`, `EmergencyButton.tsx` | `open`, `loading`, `sent` of the button, `alertTriggered` of the page; `triggers`, the calls of one visit, each ending in the page first and then in the button |
| `DAOPage` | `app/dao/page.tsx` | `showCreate`, which fields have text (`written`), `creating`; `creations`, the calls inside their wait |
| `ProposalPage` | `app/dao/proposals/[id]/page.tsx`, `VoteButton.tsx` | `selected`, `loading` (`voting`); `casting` |
| `ReportForm` | `AttestationForm.tsx`, `api.submitReport` and `request` of `lib/api.ts` | the form's hooks; per attempt what became of it at the backend (`reached`), what the form was told (`told`) and with whose token it went (`sentBy`) |
| `Session` | `lib/auth.ts`, `app/login/page.tsx`, `Navbar.tsx` | the two items of local storage, the login form, `handleConnect` calls (`connects`), the user the Navbar `shown`, the navigation under way (`going`) |
| `Browser` | the layout and the ways between pages; `EXTENDS` the six above | `path`, the pages that Back and Forward reach (`entries`); leaving a page unmounts it |
| `MC*` | values and symmetry sets for runs | |
| `*Proofs` | theorems about the module of that name (`SafetyNetProofs` also about `CheckIns`, `RequestPathProofs` about `Auth` and `RateLimiter`, `BrowserProofs` about the pages) | |

One action stands for one statement, call or early return of a handler, with
everything that goes with it; what a worker carries to its next statement is in
its record (`req`, `resolver`, `worker`, `auth`, `desk`). Actions named `...Fails`
and `...Unacked` are the error paths: a statement that did nothing, and one that
committed and whose acknowledgement was lost. Operators marked "Mutant of" change
the one named as a plausible mistake would; no run uses them as they stand.

Abstractions that hold throughout:

- In the frontend one action is what runs between two awaits: a click up to the
  handler's wait, what follows the wait, one navigation. React commits the state of
  a click before the next event, so a "disabled" attribute guards the next click, and
  an updater such as `setCheckIns((prev) => ...)` sees the state of its own moment.
  A form's text is abstracted to what its handler asks of it.
- UUIDs are fresh members of a finite set; a spent id is never reused.
- One clock stands for the clocks of the database and the service; in
  `RequestPath` a request reads it at several moments, which is what two
  services do. The monitor's ticker is left out: an idle monitor may wake up at
  any time.
- A statement on one row is atomic; `SELECT ... FOR UPDATE SKIP LOCKED` is not:
  it walks its snapshot row by row and blocks when its client does not read.
  `BufRows` is how many unread rows a connection holds.
- History variables (`raised`, `ontime`, `cause`, `issued`, `total`, `before`,
  `verdicts`, `saw`) record what a property speaks about; no guard of a
  component's own actions reads them.
- The models of the services are those called with the user of the token. The
  code does not get there today, see section 6.

## 3. The runs

Every run is `tlc -config X.cfg M`. Deadlock is checked in `Browser`, where a page can
always be loaded again, and not in the others, which may simply have no more
requests, ids or time.

| Run | Module | What it asks | Bounds |
|---|---|---|---|
| `CheckInsMonitor` | `CheckIns` | do requests and monitors of two processes keep completions and alerts apart, does each lost alert cost a failure, and is every overdue check-in decided through two failures? | 2 monitors, 2 workers, 2 check-ins, times 0..1, 2 faults |
| `CheckInsBigResult` | `CheckIns` | the same question when a result is larger than its connection holds: **violated** | 1 monitor, 3 check-ins, `BufRows` 1 |
| `CheckInsLostAlert` | `CheckIns` | does every missed check-in get an alert when something fails? **violated** | one fault |
| `EmergencyAlerts` | `Emergency` | resolution, time budget and dispatch | 1 alert, 2 resolvers, 2 processes, 15 s and 10 s in units of 5 s, 1 fault |
| `SafetyNet` | `SafetyNet` | do alerts belong to their check-ins, at most one row per process, does the chain implement `SafetyPromise`, is there always somebody who will tell, and does an overdue check-in reach the webhook unless something fails? | 1 process, 1 check-in, 2 users, a button, a resolver, 1 fault per component |
| `DAOVoting` | `DAO` | voting under interleaving; implements `Ballot`; what is still written after the deadline | 3 workers, 2 users, 1 proposal, quorums 0..2 |
| `RequestPaths` | `RequestPath` | identity, tokens, limits and who reaches a handler | 2 requests, 2 wallets, 3 ids, a bucket of one, tokens that live one tick, leeway one |
| `RequestRoutes` | `RequestPath` | is a documented route served through the gateway? **violated** | 1 request |
| `Registry` | `Registry` | embedding with fallback, verdicts of two moderators | 2 reports, 2 moderators, 2 workers, 1 fault |
| `DedupTwins` | `Dedup` | when are alike reports stored side by side, and is what was stored found in the end? | 3 reports, two alike and a blank one, each sent twice |
| `Lifecycle` | `Lifecycle` | start, stop and restart over any order of scripts; who waits for the pool | 2 requests, a pool of 2, 1 statement each, 1 fault |
| `Browser` | `Browser` | the frontend's forms under every order of clicks, timers, answers, navigations and other tabs | seven trips (see below): 3 new check-ins, 2 calls or 2 submissions per button, 2 logins, 1 fault, 1 write of another tab |

Why the bounds are enough. A race of this code is between two actors over one
row, so each race has two (three where an operation has two statements of its
own: `DAOVoting`); a second check-in is there because the monitor's loop carries
rows over from one to the next. Two times suffice for "due" and "overdue", and
`MaxTime` 1 in `RequestPaths` lets a token be issued, accepted with leeway and
refused. One fault shows each single failure, the second one in
`CheckInsMonitor` a failure of the recovery. Where a property is also proved
(section 5) the bounds do not matter. Every property of a passing run comes with
a mutant of the code that breaks it under the same bounds, so the bounds do let
the case happen.

In `Browser` the pages do not disturb each other but for what a navigation does to
them, so a behaviour keeps to one trip: each page with one beside it to leave for and
come back from, the pages a login passes, and a report sent around a login.
`MCTrips` lists them; the theorems of `BrowserProofs` hold for any set of trips.
`SafetyNet` runs one process; that two do not add rows for each other's check-ins is
the theorem `OneRowPerProcess`, and `CheckInsMonitor` runs two.

Fairness. A goroutine that can run is run: weak fairness on the steps of a
monitor (`MonitorStep`), of a dispatch (`DispatchStep`) and of an embedding
(`GoStep`), and the database goes on with a statement that can proceed
(`StreamStep`). A crashed process comes back because `docker-compose.yml` says
`restart: unless-stopped`. Qdrant makes
an accepted point searchable in the end (`Dedup`'s `Index`), at no promised moment; that is
what it answers to a PUT without `wait=true`, and the only fairness assumed of a
service outside this repository but the database. In `Lifecycle` a waiting request, and the monitor, get a connection of the pool if one
is free again and again (strong fairness): puddle's semaphore serves who waits in
order; the same holds of PostgreSQL's row locks. In `Browser`
the timers of a mounted page go off, and so does a login's, and a page asked for
arrives: the browser's event loop. Nothing is assumed of users, requests, the clock,
resolvers, answers (`fetch` has no time limit, so nothing is promised of a submission) or faults; the number of faults is bounded by `MaxFaults`, without which nothing could
be promised.

## 4. What the runs show, component by component

**Check-ins.** `CompleteCheckIn` reads with `FOR UPDATE` outside a transaction and
writes by id, and so does the monitor, so a row *is* decided twice: a missed
check-in may still become completed, and the reverse. What holds in spite of
that: a check-in completed before it was overdue stays so and raises nothing, a
monitor raises at most one alert for a check-in, and only for one that is overdue
and no longer pending. `SafetyNet` runs the last part over the rows of both tables, as
`ImplementsPromise`: whatever statements, races and failures there are, what users see is
a check-in that is scheduled, becomes late, is completed or missed, and is alerted about
only when late. Through failures every overdue check-in is decided by a
later tick. The run `CheckInsBigResult` shows the exception: the monitor's UPDATE
waits for a row lock of its own SELECT, which waits for the monitor to read.
`CheckInsLostAlert` shows that a row marked missed is never looked at again when
its alert failed. Nothing but such a failure loses an alert, and each loses one at most
(`LostAlertsAreFaults`): two monitors over one row, or a completion in between, lose none.
`NobodyFallsThrough` says it of the whole chain: without a failure a missed check-in is at
every moment in the hands of a monitor or of a dispatch, or the webhook was called. (At the start of a schedule, `Before(time.Now())` lets a
check-in be due at this very moment; `Overdue` uses the strict comparison of the
query. That is the boundary `OverdueWhenDue` gets wrong.)

**Emergency.** One resolver is recorded for good, and the phone lookup and Twilio together leave the webhook
its time unless the lookup alone took it. A dispatch reaches the webhook unless
its process stops; then nobody dispatches the alert, since only the goroutine knew
of it. The SMS goes to the phone of the alert's own user (`emergency.go:131`);
there is no table of contacts.

**Voting.** The service implements `Ballot`: the last vote a user casts counts, and
the proposer's automatic "yes" never replaces it, although it is written after
the proposal can be voted on. A vote checked before the deadline may be written
after it (`dao.go:130` and `:143`), but only by a request that was under way at the
deadline, once each (`BallotCloses`). A failed automatic vote is only logged. Nothing
ever ends a proposal: no statement writes `dao_proposals.status` after the INSERT.

**Request path.** Although registrations race, tokens name the row and role of their
wallet; a handler runs for a known caller; the window bound of the limiter. The gateway
may let a token pass that has expired (its library allows a leeway of 60 s); `JWTAuth`
looks at the clock itself before it calls the handler, and `RequestPath` has both checks.
Nothing in the code changes a role or deletes a user, so the stale role a token may carry
after somebody did so by hand is not modelled. Clients without `X-Forwarded-For` share
the bucket `unknown`.

**Registry.** An embedding ends in Qdrant, in the mock, refused or lost with its
process. Once the client has fallen back, `SearchSimilar` reads the mock alone, so
what the process stored in Qdrant before is hidden from it until a restart; no report
it stored is in neither place, and none is hidden before (`OnlyFallbackHides`). The answer of `UpdateReportStatus` is a verdict, though possibly of the other
moderator. Mock mode lasts until a restart, which empties the mock. The payload
in Qdrant keeps the status "pending" for ever.

**Dedup.** Alike reports are stored side by side only when neither was searchable when
the other was looked for. That is more than two requests at the same time:
`upsert_point` does not send `wait=true` (`qdrant.jl:52`), so Qdrant may answer, and the
service say "stored", before a search sees the point, and the like of it that is sent
next is stored as well. What was stored is found in the end, and is a duplicate of itself
when sent again; a text of white space alone is like nothing, since its embedding is
zero (`similarity.jl:12-15`), and is stored each time. No code calls `create_collection`,
so with an empty Qdrant both services' PUTs are answered 404 (`CollectionMade`,
`UpsertFails`).

**Lifecycle.** The tables of checkin-dao never mix two scripts, since each script
is one transaction that fails over the other one's tables, and the service serves
over its own tables only. A process that is started serves in the end unless the
tables of 001 were there first. The monitor holds one connection of the pool and
asks for a second; requests and passes come to an end all the same, unless a result
is too large (`wide`, `blocked`: the case of `CheckInsBigResult`). A stop ends even
then, because the monitor's context is cancelled before the pool is closed. What a
stop does not do is wait for requests: nobody waits for `srv.Shutdown`, and a request
between two statements is cut (`Exit`).

**Pages.** The vote buttons, "Submit Proposal" and "Complete Check-In" are each a
`OneCall`: whatever is cancelled, reopened or left meanwhile, a second call starts
after the first one ended, and a call ends unless its page is left. That is less
obvious than the "disabled" attribute looks: the flag has to live in a component that
stays mounted while the form comes and goes, and in the widget it is dropped
together with the call it belongs to. "Send Alert" goes out once per visit. Schedule
is the exception: nothing disables it, and two clicks within its second make two
pending check-ins (`overlap`), of which the next completion completes both; only then.

**Report form.** "Report Submitted" is true, and a form filled in once is stored
twice only after an error was shown: an answer that was lost cannot be told from a
refusal. An answer that comes when the page is gone changes nothing.

**Session.** Connect leads away from the login page unless `btoa` cannot encode the
address. A report carries the token of the user the Navbar shows, unless another tab
wrote the storage since, the login of a page that was left landed since, or a logout
is under way; in those three cases it may not.

## 5. What is proved

Proofs are checked by TLAPS from the named assumptions on constants only.

| Module | Theorems about properties of runs | Further theorems | Inductive invariant |
|---|---|---|---|
| `SafetyNetProofs`, on `CheckIns` | `OnTimeCompletionIsFinal`, `AtMostOneAlertPerInstance`, `LostAlertsAreFaults` | types; `AlertsOnlyOverdue`; the monitor waits for itself only over a backlog of `BufRows` + 2 (`SelfWaitIsForBacklogs`) | every row a monitor holds (snapshot, unread, in hand) is overdue and was not completed on time: due times are fixed and the clock only grows; a row whose alert is next, or was raised, is decided and not held again |
| `SafetyNetProofs`, on `SafetyNet` | `AlertMatchesCheckIn`, `OneAlertRowPerProcess`, `ImplementsPromise`, `NobodyFallsThrough` | the composition implements `CheckIns` and `Emergency`, so that the theorems of both hold in it; who was on time is alerted nowhere (`NobodySafeIsAlerted`) | the one of `CheckIns`, and: an alert of a check-in names its owner, and the check-in is overdue, decided and not on time; a process that raised an alert for a check-in is done with it, so the rows map one to one to processes; an alert the monitor was told of has a row and a dispatch |
| `EmergencyProofs` | `SlowSmsKeepsWebhook`, `ResolvedOnce` | types; a resolver reads a resolved alert; a dispatch that is through called the webhook, goes forward only, texts its own user only, and takes nothing back | remaining time is at least the budget less the lookup less one request; somebody is recorded exactly when an alert is resolved; nothing is texted before the lookup is over |
| `DAOProofs` | `LastCastCounts`, `EmptyBallotMeetsNoQuorum`, `ImplementsBallot`, `BallotCloses` | types; one row per user and proposal; a quorum that was met stays met (`QuorumKept`) | a proposal has a proposer exactly when it exists; an insert under way owns its id; a pending automatic vote is the proposer's; the rows are finite and a quorum, stored or about to be, is at least one |
| `RequestPathProofs` | `TokenNamesItsRow`, `WindowBound`, `CallerIsKnown` | types; id and role of a row never change; the path implements `Auth` and `RateLimiter` | tokens left and requests passed since a moment grow by at most one per tick; a wallet has one row and an id names one (`OneRowPerWallet`); ids under way are fresh, what a worker is about to sign names a row; a request in a handler carries the user of a signed token |
| `RegistryProofs` | `OnlyFallbackHides`, `AnswerIsAVerdict` | types; the mock holds a report once; points have rows; verdicts were asked for; a report is embedded once and forward only; a decided report is never pending again | a goroutine runs only for a report with a row, and the mock holds only what was stored; a worker carries a verdict that was asked for, and one about to read back looks at a decided report |
| `LifecycleProofs` | `ServesOwnTables` | types; tables keep their columns, and those of 001 lock checkin-dao out for good; the pool keeps its bound, and when exhausted somebody can give back; nothing outlives its process; a stop only gets connections back, and none that is stuck | the tables checkin-dao uses all have one layout; the monitor has a row when it makes a statement; connections out are at most `PoolSize`, and without a serving process there are no requests |
| `DedupProofs` | `TwinsWereHidden` | types; only Qdrant's indexing stands between a stored report and its being found (`AnswersStand`) | what a search was among is still searchable, and who is about to upsert, or was stored first, saw nothing alike |
| `BrowserProofs` | `OneAlertPerVisit`, `HighlightedIsCast`, `OnePendingUnlessOverlap`, `CompletesWhatItShows`, `HeardIsTrue`, `TwiceOnlyAfterError`, `SentAsShown` | types; the vote buttons, "Submit Proposal" and "Complete Check-In" implement `OneCall!CallSpec` | one per page, each kept by every navigation: the flag of a button holds exactly when one call is under way; without overlap a check-in on its way means nothing is pending, and a completion under way means the check-in shown at its click is the only one pending; the Navbar shows the token's user but in the three cases above |

None of these invariants follows from the property alone. `AtMostOneAlert...`, say,
needs to know that a check-in whose alert was raised cannot be in the monitor's
hands again; that in turn needs that it is decided, and that a decided row enters
no snapshot.

**The refinements.** `SafetyNet` is shown to implement `SafetyPromise` step by step: a
completion is one of the promise, late or not by the clock of that moment; `MarkMissed`
and its unacknowledged form are `Miss`, which needs that the row in hand is late and was
not completed on time; the INSERT of a monitor's alert, acknowledged or not, is `Alert`,
which needs that this process has none yet (`OnceInv`, `Behind`); every other step
changes nothing the promise sees. What follows from the promise alone (`SafeIsFinal`,
`NothingIsTakenBack`) is proved of it and holds of the rows. Likewise each step of the
process is one of `Emergency` or leaves it alone, for which a row in a monitor's hand must
have a user (`RowsAreOwned`); `EP`, the instance that carries the theorems of
`EmergencyProofs`, is the same specification (`SameEmergency`).

**Around liveness.** Fairness is out of the prover's reach, but most of each argument is
not. Proved are, for every value of the constants, the steps a fairness argument is made
of: every step of a dispatch and of an embedding comes closer to its end and none goes
back (`DispatchGoesForward`, `NoSecondEmbedding`), and the end is the one promised
(`NoDispatchWithoutWebhook`); a stored report waits for Qdrant's indexing alone
(`AnswersStand`); whoever holds a connection of an exhausted pool, or of one
being closed, can go on (`NoCircleOfWaiting`, `StopNeverStuck`), and a closing pool
only gets connections back (`StopDrains`); 001 loaded first excludes serving for ever
(`InitialSchemaLocksOut`), which is the case `StartServes` exempts; and a missed check-in
is lost by a failure of its own or not at all (`LostAlertsCostFaults`,
`NobodyIsForgotten`), which is what `CheckInsLostAlert` violates and what
`OverdueNotified` keeps. `SelfWaitIsForBacklogs` gives the exact backlog from which
`CheckInsBigResult` can happen.

The invariants and action properties that are proved and named by no run were checked
by TLC first, on the constants of the run of their module. The type invariants are
proved for every value of the constants, so no run repeats them. The same holds of
`AlertsOnlyOverdue`, which `ImplementsPromise` contains, and of `QuorumNeverLost`.

The assumptions are those the constants carry in their modules; `DispatchAssumption` says
of `SafetyNet` what `Emergency` assumes: a request of the HTTP client (10 s) is
shorter than its context (15 s).

Only model-checked: the liveness properties (`OverdueDetected`, `WebhookReached`,
`OverdueNotified`, `EmbeddingSettles`, `StoredIsFoundLater`, `StopEnds`, `StartServes`, `NobodyStarves`,
`LoginSettles`, and that a `OneCall` ends), which need fairness and `ENABLED`. The violated
properties are refuted by TLC, and by the code they model.

## 6. Where code and documents disagree

Three runs end in a violation; `PROJECT.json` quotes the lines they contradict:
`CheckInsLostAlert`, `CheckInsBigResult`, `RequestRoutes`. Other
disagreements met while reading, for which no run is spent:

- `JWTAuth` stores the user under a key of type `contextKey`
  (`middleware/middleware.go:15-20`), and handlers ask for the string `"user_id"`
  and assert its type (`handlers/checkin.go`, and others): each of them panics and
  is answered 500. `RequestPath` has it (`HandlerPanics`); the models of the
  services say what happens once the key is right.
- The README's similarity flow (`src/README.md:191-193`) searches, flags and stores "if no
  match found"; as `Dedup` says, a report may be stored right after one with the same text
  was answered as stored, because `upsert_point` does not wait (`TwinsWereHidden` is what
  holds). And a score of exactly 0.85 is a match (`similarity.jl:43`), not one above it.
- The README's proposal lifecycle (`src/README.md:174`) has no code behind
  "passed", "rejected" and "executed".
- The emergency button says "emergency contacts"; the SMS goes to the user.
- `verify_attestation` hex-decodes `HASH:HEX` (`attestation/src/proof.rs:89`), which is
  never hex: verification answers 500 for every attestation.
- `docker-compose.yml:88` mounts `migrations/001_initial_schema.sql` into the database, and
  the README (`src/README.md:68`, `:248`) has it loaded by hand; `db/migrations.go` then
  fails at its index on `emergency_alerts(status)`, a column 001 does not have, and
  `main.go:44` exits. `StartServes` exempts that case (`HasIndexedColumns`), and since
  tables keep their columns and `ServesOwnTables` holds, checkin-dao never serves
  on a database prepared as documented: docker restarts it for ever. The attestation
  service does serve there, and its INSERT fails for the missing column `payload`.
- With the defaults of `docker-compose.yml:37` the attestation key has 16 bytes, and
  `attestation/src/config.rs:25` asks for 32: the process panics. `Lifecycle` assumes
  a key of the right length.
- `main.go:82` says "Graceful shutdown"; see the lifecycle in section 4.
- The emergency page says "Your emergency contacts have been notified"
  (`app/emergency/page.tsx:46`); its handler waits for a timer, and nothing calls
  `api.triggerAlert`. The check-in, governance and vote handlers call nothing either.
- The report form sends `reportCategory`, `locationRegion` and `encryptedDetails`
  (`AttestationForm.tsx:48-50`); `handlers/registry.go` binds other names, so a report
  that gets there is refused, and through the gateway the route is not found at all
  (`RequestRoutes`). "Encrypted" is `btoa`.
- The login page makes its token itself (`app/login/page.tsx:26`); both services refuse
  its signature.
- An address that `btoa` cannot encode leaves the login page loading for good:
  `handleConnect` has no `finally`. The login of a page that was left lands all the same
  and pushes `/dashboard` over the page shown by then.
- Cancel hides the schedule form and the proposal form and stops nothing: when the
  wait is over, the form is closed, and the fields emptied, over what was typed since.
- The page of a proposal ignores its `[id]` (`app/dao/proposals/[id]/page.tsx:23-24`) and
  always shows, and votes on, the same one.
- "Privacy-preserving registry of verified reports" (`app/registry/page.tsx:38`) lists
  pending and dismissed ones too, and the form's category "Other" cannot be filtered for.

## 7. What is not modelled

- `gateway/src/server.rs`, `main.rs`: wiring; the health loop only logs.
- `gateway/src/middleware.rs`, `crypto.rs`: called by nothing.
- Embeddings, cosine similarity and statistics: data without control. `Dedup`
  uses the relation they define.
- Readers that change nothing (lists and gets), unless a race is about what they read.
- Logging, CORS preflight, query strings, bodies; signatures of tokens.
- `FindDuplicates` (no caller), but `SearchSimilar`'s fallback is in `VectorStore`.
- Frontend: the registry's filter, the dashboard, the landing page and the cards show
  constants of the source, and have no handler that waits (their links are in
  `Browser`); `isAuthenticated`, the widget's own `handleSchedule` and every function of
  `api` but `submitReport` are reached by nothing; the theme and how things look.
  Browser history is the set of pages the document has shown, and a page taken from
  the back/forward cache is not modelled. Another tab's login or logout is one step.
- External code is modelled from its use: PostgreSQL's row locks and single
  statements, the governor's bucket, the two JWT libraries' view of `exp`,
  Qdrant's PUT, Twilio and webhook as calls with outcomes. HTTP.jl may repeat a
  PUT by itself; an upsert is the same when repeated.

## 8. Plan

Built: the core chain (check-ins, emergency, their composition), voting with
its abstract specification, the request path with identity and limits, the
registry with its vector store, deduplication, the lifecycle of the services over
their tables, and the frontend page by page and in one tab; all with proofs of their
safety properties.

What could come next:

1. `Attestation`: create, get and verify over one table, the encodings of
   `proof.rs` by what they do; the promise "Mock verification complete" and the
   column `is_verified`, which is written after a read made earlier.
2. `Lifecycle` with the dispatch and embedding goroutines, and answers during a stop.
3. When the frontend's handlers call the backend: `ReportForm`'s treatment of answers
   for each of them, composed with `RequestPath`.
4. Proofs: what a dispatch adds to `SafetyPromise` (who was told, not only alerted); that
   `Lifecycle`'s monitor and `CheckIns`' make the same passes.
