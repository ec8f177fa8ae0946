# eco-app in TLA+

A verification project for eco-app: two Go services over one Postgres database
and the React clients in front of them. The modules below model the program at
the grain at which it interleaves (one SQL statement, one message, one
response), TLC checks them on small instances, and TLAPS proves what they state
for every value of the constants: any number of users, workspaces, todos,
requests, replicas, streams, processes and tabs. Only liveness is
left to TLC.

## 1. The system

| Part | Source (`src/services/…`) | State it keeps | Operations |
|---|---|---|---|
| Workspaces, shares, todos | `app-shell` and `app-todo`: `internal/httpapi/handler.go`, `postgres_store.go` | tables `workspaces`, `workspace_memberships`, `todos` | create/delete workspace; list/create/delete share; list/create/update/delete todo |
| Accounts, sessions, gate | the same files, `auth.go`, `app-shell/main.go` | tables `users`, `user_sessions` | login, Google login, session, logout, reset password, `requireReadySession`, `create-user` |
| In-memory store | `memory_store.go` (both services) | maps behind one mutex | the same `AppStore` interface; what the handler tests run on |
| Google OAuth handshake | `google_oauth.go`, the two Google handlers | the browser's state cookie | start, callback |
| Todo events | `app-todo/internal/httpapi/todo_events.go`, `handleTodoStream` | subscribers per workspace, a 16-slot channel each, NATS subject `todos.events` | publish, broadcast, subscribe, unsubscribe, stream |
| Migrations, start-up | `internal/apiruntime/apiruntime.go`, `main.go`, `internal/migrations` | goose version tables, the legacy one they are bootstrapped from | `migrate`, wait, bootstrap |
| Todo client | `web-todo/src/exposed/TodoFeature.tsx` | the list shown, requests under way | load, refetch on event, create, update, delete |
| Shell client | `web/src/App.tsx`, `app/session.ts`, `app/workspaceRouting.ts` | session state with the accessible workspaces, selected workspace and app, address and history, collaborators | bootstrap, login, logout, reset, select workspace or app, step through the history, create/delete/leave workspace, share, unshare |
| Views, theme, Nicole feature, Helm/k3d | `web/src/features`, `web-nicole`, `deploy` | none of the application's | — |

How they interact. The browser calls app-shell (`/api/auth`, `/api/workspaces`,
`/api/shares`) and app-todo (`/api/todos`) with one session cookie.
Both services use copies of one `PostgresStore` on one database, so each sees
what the other commits, and each serves any number of requests at once, in any
number of replicas. After a todo has changed, app-todo publishes an event to
NATS; every replica hands it to the streams it serves for that workspace, and a
client that hears of it fetches the list again.

What makes it hard. **The store opens no transaction around a request** (only
`ProvisionUser` has one): authorization, existence checks and the change itself
are separate statements, and anything may be committed in between. Correctness
rests on the foreign keys, on `rowsAffected`, on primary keys and on facts
that, once read, can only become false by the row being deleted. On the way to
the clients: events are published after the commit and may be lost, streams
subscribe after they have announced themselves, responses overtake one another.

What makes each part correct:

* *Workspaces, shares, todos*: a request acts only on what its caller had access
  to while the request ran; only the owner deletes; the owner is never a
  collaborator; no orphaned or misattributed todo; a deletion is reported once
  and stays.
* *Accounts*: a session or a new password only for credentials that were good
  while the request was open; nobody is let in with a password their
  administrator has seen; one winner among racing `create-user` commands.
* *In-memory store*: it answers what `PostgresStore` answers, otherwise the
  handler tests test something else.
* *Todo events*: a change reaches every open stream of its workspace once, or a
  later event makes up for it.
* *Migrations*: a server serves only once its sets are applied; what a version
  table records has been applied, in order.
* *Clients*: what is shown is eventually what the server has, and belongs to
  the workspace selected; the address names what is shown.

## 2. Modules

| Module | Models |
|---|---|
| `WorkspaceService` | the workspace, share and todo routes over `PostgresStore`, one action per SQL statement |
| `WorkspaceContract` | what those routes promise, without statements: callers, the permits they gain while open, what is shown and changed under a permit |
| `MemoryWorkspaces` | the same operations in `memoryStore`, one step each |
| `WorkspaceConformance` | the reading of a `WorkspaceService` request as a `memoryStore` operation |
| `MCWorkspaceService` | instances of these for TLC |
| `WorkspaceProofs` | the inductive invariant of `WorkspaceService`, proved, and the proof that it implements `WorkspaceContract` |
| `WorkspaceConformanceProofs` | the proof that, one request at a time, `WorkspaceService` implements `MemoryWorkspaces` |
| `AccountService` | accounts, passwords, sessions, the gate and `create-user`, one action per SQL statement |
| `AccountContract` | what they promise: the rights a request gains from its credentials, and what each right allows |
| `AccountProofs` | the inductive invariant of `AccountService`, proved, and the proof that it implements `AccountContract` |
| `MCAccountService` | instances for TLC |
| `TodoEvents` | from the commit of a change to the fetch of a client that hears of it: handlers, NATS, broker, channels, streams |
| `Migrations` | the migrate jobs and waiting servers over the version tables, one action per database statement |
| `Browser` | signing in and out by password and over Google as the tabs of one browser see it: requests, answers, cookies, the auth handlers of app-shell |
| `WorkspacePanel` | the list of todos or of collaborators the client shows, while loads, events and changes race on it |
| `Shell` | the page around it: the workspaces it lists, the one selected, the app, the address and the history, while the user moves and answers arrive |
| `TodoEventsProofs`, `MigrationsProofs`, `BrowserProofs`, `WorkspacePanelProofs`, `ShellProofs` | the inductive invariants of these five and what follows from them, proved |
| `MCTodoEvents`, `MCMigrations`, `MCBrowser`, `MCWorkspacePanel`, `MCShell` | instances for TLC |

### WorkspaceService

State: the four tables (`users`, `owner`, `members`, `todo`), the set `born` of
UUIDs generated (the database never generates one twice) and `req`, the
requests in flight. A request record holds the local variables of its handler
and store method: the route, the actor, the workspace, target and todo named,
what `workspaceByID` returned (`seenOwner`), and `pc`, the statement it will
execute next. `Start` is a request that has passed `requireReadySession`;
`Fallback` is `workspaceFromQuery`/`workspaceFromBody` with a blank workspace;
`Lookup*`, `TodoWorkspace`, `AuthorizeWorkspace`, `UserExists` are the reading
statements of the store methods, in the order of each method (which differs:
`CreateWorkspaceShare` looks up before it authorizes, `CreateTodo` after);
`InsertWorkspace` … `RemoveTodo` are the statements that answer. `Interrupt` is a
request given up between two statements: a closed connection, a database
error, a stopped process. `CascadeDelete` is what the foreign keys do.

Left out on purpose: names, titles and descriptions (a blank one is refused
before any statement, in every route alike); an id that is not a UUID, which
the code answers like an unknown one; the order of the lists, of which only
"owned before shared" matters to `Fallback`; `todos.edited_at` and
`created_at`; the publication of events, which follows the last statement.

### AccountService

State: `password` and `mustReset` (the rows of `users`), `session` (unexpired
rows of `user_sessions` by token), `issued`, and `req` as above. A password
stands for itself and for its hash. Expiry is an action that may strike any
session at any moment. `flag` is `password_reset_required` as the request read
it, on which `handleResetPassword` decides later. A `DELETE FROM user_sessions`
that fails is answered 204 as the code does. Users are never deleted by any
code, so branches for an account that disappears are left out. Cookies are
tokens presented by the browser, any token ever issued.

### TodoEvents

State: `changes`, the number of changes committed to each workspace (the list a
fetch returns is abstracted to how many changes it has seen); `writer`, the
requests between commit, `Publish` and answer; `bus`, messages of NATS on their
way to each replica; `cast`, the broadcasts under way with the subscribers they
have copied and not yet served; `stream`, a `handleTodoStream` with its channel
and its client; `nats`, whether `NATS_URL` is set. `Commit` is the
last statement of a todo route, `Publish` is `publishTodoEvent`,
`StartBroadcast` and `Send` are the two halves of `broadcast` (copying under
the lock, sending without it), `Receive` the callback of the NATS
subscription. A stream writes ": connected" (`Connect`), subscribes
(`Subscribe`), writes events (`Deliver`) and ends in two steps (`Hangup`,
`Unsubscribe`) since the deferred unsubscribe runs later. A client answers each event by a
fetch, which sees at least what is committed when the event is written; that
its answers may arrive out of order belongs to the client.
`Crash` ends a replica at any step and `Lose` drops a message.

Left out: heartbeats; the type and todo of an event, which the client ignores;
the errors of `Publish`, which a lost message covers; reconnection of an `EventSource`, which is
another stream; `TodoEventBroker.Close`, whose deferred call never runs because
`log.Fatal` ends the process. NATS is external: at most once to each replica,
unordered between publishers.

### Migrations

State: `restarts`, how often each job has been run again; `found`, the version tables of the database as the rollout finds them;
`table`, each version table as the sequence of versions in order of
insertion; `schema`, the migrations whose statements have been executed;
`proc`, the processes, each with its place in its plan, what it has read and
the statement it executes next. A plan is a sequence of sets to run or to wait
for, as in `main.go`. `Ensure`/`Create` are `EnsureDBVersion`, `ReadVersions` and
`InsertVersion` the bootstrap (the versions the monolith had applied and the
table has not got, smallest first), `CheckMissing`/`ReadVersion`/`Migrate` are
`goose.Up`, `Poll` is the wait with its deadline. `Fail` makes any statement
fail or kills the process; `Restart` is Kubernetes, which runs a server again as often
as it exits and a job until its `backoffLimit` is spent (`GivenUp`), whether it failed, was killed
or timed out waiting; `AfterError` is what the two callers of
`prepareMigrationSetLocked` make of an error. `gooseMu` is local to a process
and each process uses it once at a time, so it has no place in the model. Goose is
external: its version is that of the row inserted last, and `Up` refuses
gaps. Rollbacks are left out, as no command runs them.

### Browser

State: `jar` and `stateCookie`, the two cookies of the browser; `tab`, what each
of its tabs shows (`page`, `user`); `exchange`, the requests under way, each with its tab, the cookies it was
sent with and then its answer; `session`, the live rows of `user_sessions`;
`begun`, which handshakes `handleGoogleLoginStart` has begun and in which
browser; `approval`, what Google knows of each code it issued. A tab may have several
requests under way at once: what the page disables meanwhile (`isSubmittingLogin`,
`isSubmittingPasswordReset`) is a guard, and nothing else is, so "Log out" can be pressed while a reset runs
(`PasswordSetupView.tsx:57`). A request
is sent (`Open`, `Login`, `Logout`, `Reset`, `Work`, `GoogleLink`, `Approve`, …), served in one
step by its handler (`HandleSession` … `HandleGoogleLoginCallback`,
`RequireSession`), and answered (`Arrive`), with anything in between, so answers
arrive in any order; `Lose` is a connection that fails, before or
after the request was served. The browser stores the cookies of an answer before the page
looks at it, and a page does what `App.tsx` does then: a failed login stays on
the login page although `handleLogin` may have set the cookie already, a reset shows the user it answers
(`applySessionState`), a
logout is followed by a load of the session whatever became of it, and a page
whose request `requireSession` refuses stays and says so, its cookie cleared. A tab is "away" on any page
that is not the client's, Google's consent page above all; when its document goes, its
requests are dropped (`Dropped`). `Leave`
and `Revisit` are addresses out of the history or copied, and `Elsewhere` is
another browser that begins a handshake or is given an approval: what a state
cookie is for. The deferred `SetCookie` of the callback has no effect, since
`http.Redirect` has written the header.

Left out: the SQL statements and the credentials, which are `AccountService`'s;
what a request of the signed-in page asks for (`Work` is any, but for the reset, which answers the
session state); the error in the address of the login page; what the server does with a request
whose document has gone, since the browser cancels it: a session it ends is one that expires, and one it opens nobody has the
token of. Google is
external: it takes a code once.

### WorkspacePanel

State: `panel`, which list it is: `TodoFeature`'s todos or `App`'s
collaborators; `rows`, the table, `alive`, the workspaces there are, and `born`, the ids generated; `selected`,
`shown`, `loading`, `busy`, the state of the component (`shown` counts how often each row is listed, for a
row may be listed twice); `load`, `refetches`, `asked`, the requests not served; `events`,
those on the stream; `answers`, under way in the order in which the requests were
served. `Select` is a change of workspace with its effects: the answers of the old loads and
refetches will be ignored (`isActive`: they become `Ignored`, and arrive by
`ArriveIgnored`), those of the old changes are not. `Create`, `Update`, `Delete`, `Leave` and `DeleteWorkspace` are the
handlers up to their `fetch`, with the buttons that are disabled meanwhile;
`ArriveChange` is what follows the `await`: a new todo is appended as it is, a
new collaborator unless it is listed, updated and deleted todos are found by
id, collaborators by their email alone. `ArriveDeparture` is the answer to the deletion of
a workspace or to leaving it: another workspace is selected, any but that one, and `setShares([])` empties the
collaborators, even if that workspace has been selected and loaded before. `Others` is any other
client: it changes todos, which is an event, and collaborators, or deletes a workspace with all its
rows, which is none. Any request may fail, before or after it has changed the table.

Left out: the order of the list, titles, drafts, messages; events a stream misses, which
`TodoEvents` has; the page without any workspace, which lists nothing; the loss of one's own access, after which
requests fail, as they may at any time.

### Shell

State: `page`, which of its four pages `App` renders; `listed`, `selected` and
`app`, its `accessibleWorkspaces`, `selectedWorkspaceId` and `selectedAppId`;
`address`, `back` and `forward`, the location and the history of the tab;
`form`, `deleting` and `leaving`, what keeps buttons and forms from being used;
`requests`, under way, each with what the render that asked it showed: the
handlers use `accessibleWorkspaces`, `currentWorkspace` and `selectedAppId`
after the `await` as they were before it. `own` and `astray` are history
variables, for `ListIsOwn`.

The actions are the handlers: `Back` and `Forward` (`handlePopState`),
`SelectWorkspace`, `SelectApp`, the `Ask…` up to their `fetch`, and the `Arrive…`
and `Fails` after it; `Reload` starts the page over at its address. `Render` is what every
handler ends in: the state it sets, the address it writes, and then the effect
of `App.tsx:261`, which chooses another workspace when the selected one is not in
the list. React runs that effect before the next event it handles, so it
is part of the step.

The server is whatever it answers: any list of workspaces with a session, any
workspace as the one created. What it may answer is `WorkspaceService` and
`AccountService`; here no answer is excluded. An address is what
`readWorkspaceLocationFromPath` reads in it, so `/workspaces/:id` is the todo
app's. The list is a set: its order matters to which workspace is the first, and
that may be any. A leave is the removal of oneself as a collaborator;
that it is offered to collaborators only, and the deletion to owners only, is
left out, so the model does more than the page.

## 3. Runs

| Run | Instance | Checks |
|---|---|---|
| `workspace_races` | 2 users, 2 workspaces, 1 todo, 2 requests on share/unshare, create/delete todo and delete workspace | `TypeOK`, `OwnerNotMember`, `TodosBelong`, `DeletionsFinal`, `KeepsContract` |
| `workspace_sequential` | all nine routes, one request at a time | `ConformsToMemory` |
| `accounts` | 2 users, 2 passwords, 1 token, 2 requests on all account routes and create-user | `TypeOK`, `ProvisionedOnce`, `GateHolds`, `KeepsContract` |
| `account_reset` | 2 passwords, 1 user, 2 requests | `CurrentPasswordRequired` is **violated** |
| `todo_events_faults` | 2 workspaces, 2 replicas over NATS, 2 writers, 1 stream, 2 changes each; crashes and losses | `TypeOK`, `AtMostOnce`, `RefetchSuffices` |
| `todo_events_hears` | 2 replicas over NATS or 1 without, 2 writers, 1 stream, 3 changes; no faults | `Hears` |
| `todo_events_connected` | 1 replica, 1 writer, 1 stream | `ConnectedHears` is **violated** |
| `migrations_rollout` | both jobs and the todo server, 2 migrations per set, the shell's both applied by the monolith; the shell table just created, or the tables of a later rollout; 1 failure, jobs run again once | `TypeOK`, `RecordsTrue`, `InOrder`, `RolloutWaits`, `RolloutStarts` |
| `migrations_fresh` | the same four processes on an empty database | `WaitsForLatest` is **violated** |
| `browser` | 2 tabs, 2 session tokens, 1 code; of 2 accounts, of which 1 a Gmail address, 2 requests under way at once and 2 handshakes, all but one (`Instances`) | `TypeOK`, `PageAgreesWithCookie`, `HandshakeBound`, `SignedOutForCause` |
| `workspace_panel` | either list, 2 workspaces, 1 key, 1 change not served, 1 event or refetch not served, 2 answers under way, and at most 3 of all these once the user has acted | `TypeOK`, `NoForeignRows`, `ListedOnce`, `SettledShowsServer` |
| `shell` | 2 workspaces, 2 apps, 1 entry of history besides the address, 2 requests under way | `TypeOK`, `AddressNamesSelection`, `ListIsOwn`, `OnlyStaleAnswersMislead` |

`KeepsContract` is refinement: the contract's specification with the request
records mapped to callers and permits (to offers and rights). It says what an
interleaving may do: a collaborator removed in the middle of a request may
still finish that request and nothing else; a credential replaced in the middle
of a login may still open that one session.

`ConformsToMemory` is refinement too, with a single slot: when requests do not
overlap, the sequence of statements of each method amounts to the one step of
`memoryStore`, with the same status, rows and tables. With several slots it
does not hold and is not meant to.

`CurrentPasswordRequired` is the sentence of `services/api/README.md:88`.
`handleResetPassword` chooses the kind of reset by a flag read one statement
earlier (`handler.go:350`). With two resets open at once on a fresh account
the second replaces the password the first has just chosen, without
`currentPassword`, although the requirement has been cleared.

`RefetchSuffices` is the comment "Drop overflow events. Clients refetch the
canonical todo list on receipt" (`todo_events.go:172`) made precise: an event is
dropped only at a full channel, and whatever was in that channel makes the client fetch
what the dropped event announced. `Hears` is the same over time and over replicas.

`ConnectedHears` is what `TestTodoStreamReceivesMutationEvents`
(`handler_test.go:407`) relies on: a change made after ": connected" was read.
`handleTodoStream` flushes that line before it calls `Subscribe`
(`handler.go:576-581`); an event broadcast in between is not heard of, and
the client shows a stale list until the next change.

`WaitsForLatest` is violated on an empty database: two processes find no
version table, one creates it, the other's CREATE fails. `WaitForMigrations`
(`apiruntime.go:87-90`) tests for an empty list of migrations before it looks
at the error, and the list is empty because of the error: the server serves, or
the todo job migrates, before the shell set has been applied, against
`services/api/README.md:312`.

The upgrade from the monolith, where no version table exists, is checked for
safety only. A waiting server that read the version table before the job
bootstrapped it inserts the legacy versions again, possibly after the job has
applied the next migration; the version is that of the last row, so it falls
back and whoever waits for the latest one times out until a migrate job runs
again. `RecordsTrue` and `InOrder` hold nevertheless. `RolloutWaits` and `RolloutStarts` are about a
rollout that finds the tables, the former as long as nothing has failed; no document promises more.
`RolloutStarts` does not promise that every job ends well: one that waits for another's set, as the todo job
does, may time out once more than its `backoffLimit` allows, and is then given up although nothing has failed
(`todo-api-migrate-job.yaml:6`). It says that this, and more failures than the limit, is all that keeps a
job from finishing, and that a server serves once its sets are applied.

`HandshakeBound` is what the state parameter is for, checked against
what the code leaves open: the state cookie is never cleared and survives its
handshake for ten minutes, two tabs overwrite it, and addresses of the consent page and
of the callback are opened again, also in another browser. `PageAgreesWithCookie` and
`SignedOutForCause` say what late, failing and lost answers may do to a
browser. What they may do is in the premises: another tab, or an answer that leaves the page as it is, may change the cookie
under a page; the answer to a request sent with another cookie may show its user, be it a load another tab has overtaken or
a reset answered after the same tab has logged out (`App.tsx:479`); and the clearing of an expired cookie, by
`handleSession` or `requireSession`, may hit a newer one when
the answer is late.

`ListedOnce`, `NoForeignRows` and `SettledShowsServer` say what goes
wrong in the lists of a client whose stream misses no event. A todo is listed twice when its event
has had the list loaded before the answer to the POST arrives
(`TodoFeature.tsx:235`, which the test of that form in `App.test.tsx` cannot see for want of a
stream). A row created in one workspace appears in the next one selected
(`App.tsx:647`). After an older answer has overtaken a newer one, the list stays
wrong until it is loaded again: by the next event, or for collaborators by the
next change of workspace. So it does after another client has changed the collaborators or deleted the
workspace with its todos, since there is no event of either (`handler.go:441`, 653), and when the answer to a
deletion or departure empties the collaborators of a workspace already loaded (`App.tsx:611`, 707). The history variable `astray` remembers what may have led the
list away from the database and what has brought it back; a change not yet served is no
excuse, as it has changed neither.

`AddressNamesSelection` is what the address bar is for, against every handler
that writes it from what an old render showed, and against the effect that repairs the selection
behind it. `OnlyStaleAnswersMislead` and `ListIsOwn` again say exactly what goes
wrong. The app in the address is that of the render that asked: delete a
workspace in the todo app, switch to Nicole's app before the answer, and the page shows
Nicole's app at `/todo/workspaces/:id` (`App.tsx:605`, likewise 561 and 704), where
`notes/decisions/2026-06-13-multi-remote-workspace-shell.md:9` says that workspace URLs
are app-aware; reloading then opens the other app. `AddressNamesApp`, which the module states, is
therefore no invariant: TLC refutes it in five states. The list loses a workspace that
was created, and regains one that was deleted or left, when the answer to an older
delete or leave puts back the list of its render (`App.tsx:595`, 696); and a
create asked before a sign-out adds its workspace to the list of whoever has signed in since
(`App.tsx:555`). Nothing else does, whatever the user does meanwhile: that is `astray`.

**Bounds.** Two users make owner and collaborator; two workspaces make a right
to one that must not serve the other; two requests make every race in this
code, since each hazard is one request overtaken between two of its statements
by another that changes the tables. One todo is enough because no statement
relates two todos; a todo is never created again under the same id, so creation
and deletion races need only one. Slots are reused, so the runs contain
arbitrarily many requests, at most two at a time. `Workspaces`, `Todos` and
`Tokens` are also the bounds on how many are ever generated: when they are used
up the corresponding INSERT can no longer happen, and provisioning needs a
workspace too. Sets are symmetric since their members are only compared for
equality. The channel of 16 is abstracted to one slot: what matters is whether it is
full and whether it is empty, and with three changes it overflows. Two replicas
and two writers make messages overtake one another; one stream is enough
because streams share nothing but the broadcast that serves them one by one.
Two legacy versions make a bootstrap that a kill leaves half done, and one failure is
enough for that; two migrations of the todo set make one recorded and one to come. A `backoffLimit` of one stands for that of
six: a job has time-outs and failures it survives, and is given up after them. Two tabs, or two requests of one, make answers
overtake one another, and two tokens
an older and a newer session; two handshakes cross, or one of them is another
browser's. An instance has one request at a time with two handshakes, or two requests with two accounts and no
handshake, or two requests with one account and one handshake: all at once is out of reach, and the
proofs cover it. In the lists one key makes a todo, its copy and its deletion, and a
collaborator of either workspace; the races are between the answers, of which two
are under way, with one change and one event or refetch behind them: a second
change or refetch starts once the first has been served, and overtakes its answer.
The user sends another change or selects another workspace while at most two requests
or answers are under way (`MaxUnderWay`): two answers still race, and the load of
the workspace selected runs beside both. No
handler relates two rows of a list. In the shell two workspaces make the one selected
and the one fallen back to, two apps the one shown and the one asked in, two
requests two answers that overtake one another, and one entry behind or ahead a
step in the history; the same run with two entries gives the same
answer. The races of reads and of `updateTodo`, which change no row another request relies
on, are left to the proofs. Each property has a mutant, a plausible bug in one mapped definition,
under which its run fails.

**Deadlock and fairness.** A server with nothing to do rests, and once the ids
are used up and the requests answered the instance may stop; the configurations
say `CHECK_DEADLOCK FALSE`, all but that of `Shell`, whose page can always be reloaded. `WorkspaceService`, `AccountService`,
`Browser`, `WorkspacePanel` and `Shell` assume no
fairness: their properties are safety properties, and a request may be
abandoned at any statement. `TodoEvents` is weakly fair for what goroutines do
by themselves (publish, broadcast, subscribe, deliver, unsubscribe) and for the
delivery of NATS messages that are not lost; `select` picks among ready cases
at random, so `Deliver` is not starved by heartbeats. Nobody has to change a todo, to open
a stream or to leave it. `Migrations` is weakly fair for each process,
restarted by Kubernetes when it has exited (`restartPolicy`), a job no more than `backoffLimit` times; failures never
have to happen. The runs with liveness use no symmetry.

## 4. Proofs

The theorems hold for every value of the constants the assumptions allow. What
is proved is listed here by component: the inductive invariant `Inv` of its
proof module, why it is needed, and the theorems. Each proof has a lemma per
action and, below it, a step per conjunct that the action can disturb; the
theorem `Invariance` joins them by PTL.

**Assumptions.** Null values lie outside the sets they complete, and the words
the records use are not among the values of a constant (`NullsAssumption`,
`NoneAssumption`, `NoKeyAssumption`, `NoWorkspaceAssumption`, `WordsAssumption`, `DistinctAssumption`). `Routes` are routes
and Gmail addresses are addresses (`RoutesAssumption`, `AddressesAssumption`), `Panels` are of the two lists (`PanelsAssumption`), and the default app is one of the apps (`AppsAssumption`). Numbers are
numbers: capacity, bounds, versions, plans of sets (`CapacityAssumption`, `BoundsAssumption`,
`MaxChangesAssumption`, `MaxErrorsAssumption`, `PlanAssumption`, `SetsAssumption`),
and a service without NATS is one replica (`ModesAssumption`). One says something of the world:
`RecordedAssumption`, that the version tables a rollout finds have no gaps beyond
what the monolith had applied. Earlier rollouts leave them so: it is what
`InOrder` and `RecordsTrue` say of the tables and the schema when they end.

**Workspaces, shares, todos** (`WorkspaceProofs`: `TypeCorrect`, `OwnerStaysOut`,
`TodosStayInPlace`, `DeletionsStayFinal`). None of the invariants is inductive
alone: what protects the rows is what the requests in flight have read. `Inv`
adds

* `RowsReferToRows`: rows carry generated ids and refer to existing rows (the
  foreign keys);
* `Placed`: which routes execute which statements, and with which arguments;
* `Grounded`: what a request read is still true, or the workspace or todo it
  read it of is gone for good. A request at the INSERT of `CreateWorkspaceShare`
  knows a workspace whose owner is not its target: owners do not change, and a
  deleted id is never generated again.

`DeletionsFinal` follows because a reported deletion keeps its id in `born`, and
every INSERT takes its id from outside `born`.

`Implements` is `Spec => KeepsContract`, the refinement. Each action
is shown to be a step of the contract or a stutter (a read that grants
nothing), `AuthorizeWorkspace` being the step that gains a permit; the
invariant above supplies that the actor is a user and the row is there.

**In-memory store** (`WorkspaceConformanceProofs`: `Conforms`). With one slot
(`OneSlot`, the hypothesis of the theorem) `Spec => ConformsToMemory`. The invariant adds
`Fresh`, the sequential version of `Grounded`: nothing but the provisioning
of other accounts happens between two statements, so what a statement has
read *is* still so at the last. The statement that answers is then the
`memoryStore` operation with the same answer, the statements before it are
not seen, and an arrival forgets the previous answer. That no answer of a
sequential request can come from the branches for overtaken requests (no
affected row, a foreign key that refuses) is part of the proof.

**Accounts** (`AccountProofs`: `TypeCorrect`, `ProvisionsOnce`, `GateStaysHeld`;
`Implements`). `Inv` says which statements a route executes
(`Placed`), that an account a request has found is there, that one the gate has
let in has a password of its own choosing, and that the password a successful
`create-user` printed is in force until it is replaced (`Grounded`), and that no two
`create-user` have succeeded for one account (`OneWinner`). It is preserved
because an account stays and, once its owner has chosen the password, is never
marked for a reset again (`Stable`). `Implements` shows each statement to be a
step of the contract or a stutter: the statement that finds the session or
compares the password gains its rights from the accounts of that moment.

**Todo events** (`TodoEventsProofs`: `TypeCorrect`, `HeardAtMostOnce`,
`DropsAreHarmless`). The event of a change is, for each stream, in one place only: with its
writer (`WithWriter`), in NATS (`WithNats`), in a broadcast (`WithBroadcast`) or in
the hands of the stream, and nowhere before its change is committed
(`Truthful`), so a client that fetches the list sees all it was told of. `Routed` and
`Targeted` say that NATS is between all writers and streams or none, and that a
broadcast serves its own replica's subscribers of its own workspace; `Sound` has
what concerns one stream, among it that an event dropped or delivered is
covered by the last fetch or by an event still queued. `DropsAreHarmless` is that
conjunct; crashes and losses only remove events.

**Migrations** (`MigrationsProofs`: `TypeCorrect`, `TablesTellTheTruth`,
`MigratedInOrder`, `RolloutsWait`). A table gains only versions whose migrations
have been executed, and executed migrations stay; so whatever a process has read
of a table, the migrations up to it are there (`Fit`) when it acts on it. In a
calm rollout, one that finds its tables and where nothing has failed, no
process creates a table, and none is past a wait for a set that is not
complete (`Patient`).

**Browser** (`BrowserProofs`: `TypeCorrect`, `PagesAgree`, `HandshakesBound`,
`SignedOutWithCause`), for any number of requests under way in a tab. `SlotFits` relates each request and answer under way to the cookies
and the tables: a state cookie sent or stored is of a handshake begun here, an
answer that names a user carries or was asked for with a session of that user
(ended, perhaps), one that clears the cookie has found it dead. Sessions end and
handshakes stay begun, so this survives any delay, and `PageFits` follows when it arrives. The last two
theorems are action properties: `Inv` on the state before a step rules out
the steps they forbid.

**Client lists** (`WorkspacePanelProofs`: `Types`, `KeepsForeignRowsOut`,
`ListsOnce`, `Settles`). `Basics` says what an answer under way may hold: it fits its
request (`Fits`), the answer to the creation of a todo has an id no other answer and no
list had before it was generated (`Fresh`), and one load at most is under way (`OneLoad`). The first three theorems need no more. `Settles` needs to know which answer
will have the last word. The answers are a queue; the last list in it that is going to be
believed, or the list shown if there is none, is an anchor (`Anchored`).
`Anchors` says that, once nothing is left to be served, the database has what the anchor
has after the changes served since (`Follows`). Of todos there are none, for
the event of each change brings another list; of collaborators, which have no
events, the last change of each decides, in the queue as in the table. An answer that overtakes marks the older ones as
late (`Overtaking`), and so does a change of which there is no event, by another client: an old list cannot pass for an anchor.
Believing it leaves the
list astray, and only a list that nothing has overtaken ends that. `Follows` claims this only while all answers queued behind the anchor
are going to be believed (`Clean`): a change of collaborators that failed or was sent from another workspace, and the
departure from this one, will lead the list astray when they arrive. `Anchors` was
checked by TLC as an invariant before it was proved.

**Shell** (`ShellProofs`: `TypeCorrect`, `AddressFollowsSelection`,
`AppLeftByStaleAnswersOnly`, `ListFollowsAnswers`). Here the properties are
inductive together: `Inv` is their conjunction. The lemma that carries the proof is
`Rendered`: a handler that leaves an address of the workspace it selects still does
so after the effect of the next render, and the page is left with a workspace of its list. `Accounted` is the
action property for one step; only the handlers that bring an app from an
earlier render need an argument (`StaleAnswer`), all others write the app of their own.

**Robustness.** The leaves are small enough that they also hold when every prover is
given a third of its usual time (`tlapm --stretch 0.33`).

**Only model-checked.** The liveness properties
`Hears` and `RolloutStarts`: fairness and `ENABLED` are out of the provers'
reach. The violated properties are refuted by TLC's traces.

## 5. Plan

Done so far, in the order of importance: the workspace and todo routes with
their contract and proofs, the accounts, the todo events, the migrations, the
browser with the Google handshake, the lists of the clients, the shell around
them; and proofs of every safety property the runs check.

What is left: the account operations of `memoryStore` in `ConformsToMemory`, and
a composition of `Shell` with the services in place of arbitrary answers.

## 6. Not modelled

Views, theme and the Nicole feature render props; Helm and k3d are
configuration. JSON, trimming, e-mail syntax and cookie attributes are
formatting that no property distinguishes. In `WorkspaceService` and
`AccountService` a statement that commits while its reply is lost is not
modelled: the request would end as with `Interrupt` and the row would be as
after the statement. Each service carries a copy of the other's handlers which its
server does not mount; they are not modelled twice. Of `memoryStore` the account operations are not modelled,
as the plan says. That a password reset leaves the other sessions of the account valid
(`postgres_store.go:112`) is what the code does and no document denies; it is a
listed hazard without a property.
