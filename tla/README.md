# A TLA+ model of Joyce (jasmin-web-gui)

Joyce is a Django console and messaging API in front of Jasmin, an SMS gateway. This directory
models its logic in TLA+, checks it with TLC and proves the most important results with TLAPS.

    tlc -workers 2 -config Outbound.cfg MCOutbound      # a run: a .cfg and its module
    tlapm OutboundProofs.tla                            # the proofs; likewise OutboundSends,
                                                        # DlrForwardProofs, ConfigSyncProofs,
                                                        # ConfigSyncSafety, WorkspaceProofs,
                                                        # PayloadProofs, AlgorithmsProofs

`PROJECT.json` lists the runs, the source lines behind every definition, the hazards of the code,
the mutants (a definition ending in `_Something` is the definition of that name with a plausible
bug in it; one is kept for every property, and the property fails with it) and the theorems.

## 1. Inventory of the system

| Part | Source (under `src/quark`) | State it keeps | Operations | Status |
|---|---|---|---|---|
| Outbound messages | `messaging/services.py`, `tasks.py`, `models.py`, `forms.py`, `views/views.py`, `clients.py` | `OutboundMessage` rows: status, `jasmin_msg_id`, `jasmin_batch_id`, DLR columns | `expand_send_payload`, `submit_send` on three paths, `process_bulk_http_send`, `apply_dlr`, `apply_batch_callback`, the callback views | modelled (`Outbound`, `Payload`), safety proved |
| External DLR forward | `messaging/tasks.py` | `external_dlr_forwarded_at`, Celery tasks | enqueue, run, retry, give up | modelled (`DlrForward`), safety proved |
| PB bridge | `jasmin/reactor.py`, `router_pb.py`, `smpp_pb.py` | the reactor thread, one result queue per call | `run_in_reactor`: schedule, wait, time out; the PB operations | modelled (`ConfigSync`) |
| Configuration sync | `utils/jasmin/extras.py`, `jasmin/models.py`, `jasmin/views/views.py` | Django rows of groups, users, connectors, filters, routes, interceptors, and the Jasmin objects they stand for | save, delete, enable/disable, start/stop, route and interceptor updates, resync of MO routes | modelled but for a few operations (`ConfigSync`), proved |
| Conversions | `jasmin/models.py`, `jasmin/utils/utils.py` | none | connector configurations and user credentials, to Jasmin and back | modelled (`Conversions`, `Credentials`), proved |
| Import | `jasmin/import_config.py` | the same rows | snapshot of a live Jasmin, upserts in one transaction | modelled (`ImportConfig`), proved |
| User sync | `crons/jasmin_user_sync.py` | `jasmin_user_last_synced_at`, user credentials | beat every minute: pick due workspaces, overwrite local users | modelled (`Workspace`, `ConfigSync`) |
| Workspaces, tokens | `workspace/models.py`, `workspace/views`, `middleware.py`, `jasmin/connection.py`, `utils/crypto.py`, `messaging/authentication.py` | connection choice and fields, prefix, token, roles | signup, settings, test, clear, token, gate, prefix generation | modelled but for roles and login (`Workspace`), proved |
| Forms | `jasmin/views/forms.py`, `sub_forms.py`, `jasmin/utils/*` | none | validation of filters, routes, interceptors | modelled (`RouteForms`), proved |
| REST lists, dashboard, PDF docs, templates, deployment, SMPPSim | `api/views.py`, `web`, `messaging/api_docs_pdf.py`, ... | none of their own | reading and rendering | not modelled |

How the parts talk to each other:

- A web thread runs `submit_send`. One item: it saves the row and calls Jasmin's classic `/send`
  itself. Several items and a REST API: it saves the rows and posts `sendbatch` chunks. Several and
  no REST API: it saves the rows and publishes a Celery task; a worker sends them one by one.
- Jasmin calls `/batch-callback` for each item of a `sendbatch` and `/dlr` for each delivery
  report. Both views find a row, change it and answer `ACK/Jasmin` whether they found one or not.
- `/dlr` then publishes `forward_external_dlr` for workspaces with an external channel.
- Saving a configuration row calls Jasmin over Perspective Broker in the Twisted thread and blocks
  the request until the answer or a timeout; a failure of a first save deletes the row again.
- Import, user sync and the connector status read write the same rows from Jasmin's side.

What is hard here: no row lock and no transaction around submit, worker or callback (autocommit;
the one `transaction.atomic` is in the import); objects read before an HTTP call and saved after it;
callbacks that overtake the save of the id they are matched by; tasks delivered twice or lost with
their worker; timeouts of calls that succeeded; two copies (Django and Jasmin) of each
configuration object; several workspaces on one Jasmin.

What makes the parts correct:

- Outbound: the id on a row belongs to that row; a status shown is backed by what Jasmin holds; a
  receipt is never invented nor wiped out by a submitter; nothing is sent more often than tasks are
  delivered; no queued row is forgotten while its holder lives; every queued row is settled.
- Forward: a forward that counts as done delivered its DLR or a newer one; every task ends; a
  failure is retried as often as configured.
- Configuration: after every operation the row and the Jasmin object agree or the user was told;
  an update that fails leaves the old object; workspaces do not touch each other's objects.
- Import and sync: idempotent, nothing local lost, no newer local value overwritten.
- Workspaces: prefixes are unique, the console opens only with a usable connection.

## 2. Modules

| Module | What it is |
|---|---|
| `Outbound` | the message path: rows, web threads, workers, Jasmin, callback views |
| `Lifecycle` | what one row promises, whichever path sent it (the abstract specification of `Outbound`) |
| `OutboundProofs` | proofs: types, correlation, who may write to a row, statuses, receipts, queued rows |
| `OutboundSends` | proofs: `Outbound` implements `Lifecycle`; how often a row is accepted, when a DLR finds no row |
| `DlrForward` | the forward task with Celery's retry |
| `DlrForwardProofs` | proofs: its types, and that forwards deliver |
| `ConfigSync` | a configuration object as a row and as a Jasmin object, requests, PB calls, Jasmin |
| `Mirror` | what a row that was saved promises (the abstract specification of `ConfigSync`) |
| `ConfigSyncProofs` | proofs: type correctness, and what a request holds in each phase |
| `ConfigSyncSafety` | proofs: all its other properties, and that it implements `Mirror` |
| `Workspace` | workspaces: signup, settings, tokens, connections, the user sync, the server's key |
| `WorkspaceProofs` | proofs: its type invariant and its four safety invariants |
| `Payload`, `RouteForms`, `ImportConfig`, `Conversions`, `Credentials` | the parts without state between calls, as functions |
| `PayloadProofs` | proofs: what the functions of `Payload` compute, for inputs of any length |
| `Algorithms` | one call of each of those functions on any input of a bounded set, and what they promise |
| `AlgorithmsProofs` | proofs: all the invariants of `Algorithms`, and what any sequence of imports keeps |
| `MCOutbound`, `MCConfigSync`, `MCWorkspace`, `MCAlgorithms` | the instances for TLC |

### Outbound

The columns of `OutboundMessage` that the logic reads are variables of the same name (`status`,
`msgId` for `jasmin_msg_id`, `batchId` for `jasmin_batch_id`, `dlrStatus`, `deliveredAt`); a row
that was not created yet has status "absent". An *agent* is a web thread inside `submit_send` (named
by its call) or a Celery worker; it has rows still to send (`todo`), the rows of its HTTP call in
flight (`call`), and what it knows of the answer (`answer`, `ref`). A *view* is a web thread that
serves a callback and holds what it read (`dlrView`, `batchView`).

| Code | Actions |
|---|---|
| `submit_send`, `submit_outbound_message`, `_create_queued_messages` | `SubmitSingle`, `NotConfigured`, `SubmitRest`, `SubmitAsync`, `SaveSingle` |
| `_submit_via_rest` | `CallBatch`, `SaveBatch` |
| `process_bulk_http_send` | `StartTask`, `FailUnsent`, `CallSend`, `SaveWorker`, `WorkerRaises` |
| `apply_batch_callback`, `BatchCallbackView` | `ReadCallback`, `SaveCallback`, `DropCallback`, `ViewFails` |
| `apply_dlr`, `DLRCallbackView` | `ReadDlr`, `SaveDlr`, `DropDlr`, `ViewFails` |
| Jasmin, network, processes (external) | `JasminSend`, `JasminBatch`, `JasminRefuse`, `JasminItem`, `Report`, `Crash` |

One database query is one step. An HTTP call is three: the request leaves (`CallSend`, `CallBatch`),
Jasmin acts and the answer is heard or not (`JasminSend`, `JasminBatch`, `JasminRefuse`), the caller
uses it (`Save...`). Between any two of them every other agent, Jasmin and the views may run. Saves
write exactly the columns of their `update_fields`: the full save of the single path writes them all.

What is abstracted: numbers, contents and ids are members of small sets; DLR strings that the code
maps to one status are represented by one of them, and those it does not know by "OTHER"; the rows
of a call go out in order of their keys; how `_submit_via_rest` cuts its chunks is left open (any
prefix of what remains), so that what holds here holds for every chunk size. Jasmin issues fresh
ids, accepts or refuses, works through a batch in any order and sends any DLR about what it
accepted at any time and repeatedly. A batch callback says whether it succeeded by its message id.
An answer of `sendbatch` that is accepted has a batch id; one whose batch id is blank, which the code
would save as such, is left out.

### Lifecycle

Six actions on rows, ids and reports: create, accept, settle, report, receipt. A row is never queued
again once settled; it only carries an id Jasmin gave to it; DLR columns are written only for a DLR
of such an id; "delivered" comes only with a time of delivery and a DLR that says so. `Outbound`
implements it under the identity mapping of the variables they share (`ImplementsLifecycle`).

### DlrForward

DLRs of a row are numbered. The view saves the DLR (`SaveDlr`), then enqueues (`Enqueue`); a worker
reads row and workspace (`Take`), posts (`Reach`, `Miss`) and ends (`Succeed`, `Retry`, `GiveUp`,
`Die`). A task keeps how its arguments were passed, because that decides whether a retry can be
published: `self.retry(kwargs=...)` keeps the positional arguments of the request, and Celery checks
that a call binds before it publishes it. A worker acknowledges a task before it runs, so a task
dies with its worker. Rows are not deleted in the model.

### ConfigSync

An instance is about objects of one `kind` (chosen in `Init`): group, user, SMPP connector, route or
interceptor. `db` are the Django rows by primary key, `jasmin` the live objects by their key on
Jasmin, `stored` what Jasmin has persisted. A request is a web thread, or one row of the user sync:
it holds the instance it loaded (`obj`), the remote methods its PB call has still to run (`todo`),
what the call gave so far, and its `answer`: a page, a form error (`refused`) or an exception.

| Code | Actions |
|---|---|
| `run_in_reactor`, PB adapters | `PbStep` (one remote method), `PbFail`, `PbTimeout`; after a timeout the call runs on: `LateStep` |
| create views, `save`, `_handle_operation_error` | `Create`, `PushedNew` |
| update views, `jasmin_connector_status` on load | `Load`, `GotStatus`, `Update`, `Pushed`, `UpdateDropped` |
| delete, `handle_remove_result`, `ReactorErrorDeleteMixin` | `StartRemove`, `Dropped` in `Deleted`, `DropFails` |
| `resync_mo_routes` | `ResyncDropped`, `Pushed` |
| start, stop, the flag's reversal | `StartStop`, `StartedStopped`, `Rechecked` |
| user sync, button and cron | `FetchUsers`, `CronFetches`, `Fetched`, `ApplyUser` |
| Jasmin (external) | `JasminRestart` (loads what is stored), `Spend` (bills a message) |

What an object says (credentials, host, connectors, script) is one of two values, one of which
cannot be turned into a Jasmin object (`Unconvertible`: a code that is in no table). `alone` is a
history variable: the requests whose row and object nobody else has changed since they began.

`Mirror` promises this of a row: once a save was reported as a success, and until somebody touches
it, the row, the live object and Jasmin's disk say the same. `ConfigSync` implements it under the
mapping at its end (`INSTANCE Mirror WITH`): `copy`, `live` and `kept` are what row, object and disk
say, `trusted` the rows of successful requests that are still alone.

### Workspace

`row[w]` has the columns the logic reads: name, prefix, choice of Jasmin (`link`), host, password,
tested, whether the API is on (`enabled`), token, sync interval (`every`), and minutes since the
last sync (`age`). The two hosts and the two passwords of a custom connection are one each: the code
sets, requires and clears them together. A stored password carries the server's key it was encrypted
with; a server restart may change the key (`Restart`). A settings request loads its row in one step
(`Open`) and acts in a later one, from the copy it loaded. Names have slugs (`SlugOf`) and slugs
lose their hyphens and underscores (`Squeeze`): any functions that fit will do.

| Code | Actions |
|---|---|
| `SignupForm`, `Signup.save`, `User.create`, `WorkSpace.create` | `Signup` (the form), `SignupUser` or `SignupUserFails`, `SignupWorkspace` or `SignupFails`, `SignupMember` |
| `WorkspaceMiddleware`, `JasminConnectionGateMiddleware` | `Open` |
| settings form, `regenerate_messaging_api_token`, `clear_jasmin_connection`, `test_connection` | `Settings`, `Regenerate`, `Clear`, `Test` |
| `sync_jasmin_users` | `SyncStarts`, `Fetch`, `Stamp`, `SyncEnds` |
| time, the server | `Minute`, `Restart` |

Two things are left out: a name whose slug is empty, for which `generate_prefix` returns none and no
prefix is looked up, and a second run of the user sync that beat starts while the first one runs.

`chosen`, `shown` and `founded` are history: the connection last reported as saved, the token its
clients were given, and the first prefix.

### The functions

`Payload`: `expand_send_payload`, the numbers of the bulk form, and the chunks of `_submit_via_rest`.
`RouteForms`: what the filter, route and interceptor forms take, the rows they make, and what is
built from those; a result that is neither "ok" nor "refused" is an exception or a refusal by
Jasmin's own constructors. A route or an interceptor builds its filters first, each from its row as
it was saved (`Stored`); which gids and uids the constructors of Jasmin's `Group` and `User` refuse is
a constant (`JasminRefuses`), as they are not part of this code. `ImportConfig`: `import_workspace_config` from the old rows and a snapshot
to the new rows (one transaction, so one step). It looks a filter up by what it says, and under the
made id only a filter that says what the id was made from is ever found (`KeptRows`), so `LocalFid`
does not say what would become of another. Of the rows that the database may refuse, it has the SMPP
connectors and groups whose columns are too short; a `base_url` or a `uid` that is too long is left out.
`Conversions`: the coded columns and numbers of an SMPP connector, to Jasmin and back, and what the
form shows for them. `Credentials`: a user's fields from Jasmin, through the form, to
Jasmin. `Algorithms` makes a behaviour of one call; its invariants compare the output with the input.

## 3. Runs

| Run | Question | Instance |
|---|---|---|
| `outbound` | do all paths keep ids, statuses, sends and holdings right, and implement `Lifecycle`? | one of two calls (one row; two rows to different numbers), two workers, one view, four message ids, two batch ids, task delivered up to twice: 215,494 states |
| `outbound_races` | what can two views on the same row do? | a call of two rows, two views, a delivery report and one of unknown status, redelivery, forwards on: 151,920 states |
| `outbound_settles` | is every queued row settled? | both calls at once, on all paths, one worker, one view: 69,688 states |
| `dlr_forward` | do forwards deliver, and end? | three DLRs of a row, two workers, one or three attempts allowed, URL switched at will: 34,160 states |
| `config` | is what the console reports as done so, and does every kind of object keep `Mirror`'s promise? | each kind in turn, two workspaces on one Jasmin, two keys, two rows, two values, two requests: 1,047,409 states |
| `workspace` | do tokens, connections and prefixes stay good, does the sync go on? | two workspaces, two users, names "Acme", "A b" and "Ab" (prefixes that are free and that collide), the demo and one other Jasmin, two passwords, two requests: 260,080 states |
| `algorithms` | do the functions keep what they promise, on every input? | 526,402 states; inputs as below |
| `same_number_twice`, `forward_retry`, `failed_creation`, `moved_route`, `route_update` | does the code keep what its documentation and comments say? | as small as shows it; each one fails |

Properties of the passing runs:

- `Correlated`: an id on a row is the id Jasmin accepted that row under. Needs that no call names a
  number twice (`DistinctDestinations`).
- `StatusBacked`: anything past queued, except failed, means Jasmin holds the row or a batch with it.
- `ReceiptBacked`: DLR status, delivery time and "delivered" come from DLRs about that very row.
- `SendsBounded`: a row is accepted at most once, on the async path at most once per delivery of its
  task. The bound is the exact one: a redelivered task does send rows twice.
- `OwnedRowsUntouched`: until its thread saves a row, nobody else changes it. The full save of the
  single path is right only because of this.
- `QueuedIsHeld`, `QueuedSettles`: a queued row is in someone's hands, and is settled in the end,
  unless it is an orphan: its process died, its connection was not configured, or its task could
  not be published. The code takes orphans up nowhere.
- `ReceiptKept`: submitters never wipe out a receipt; `delivered_at` is lost only if a second DLR's
  view read the row before the first was saved (which does happen). In `outbound` it is about
  redelivered tasks and their old cursors, in `outbound_races` about two views.
- `ReportFindsRow`: a DLR is lost only if its row is still shown as queued or failed (the sender
  has not saved the id yet, timed out or died), was sent twice, or waits for a batch callback.
- `ForwardDelivers`, `ForwardsEnd` for the forward task.
- `SuccessTruthful`: when a request that nobody interfered with is reported as done, row, live object
  and Jasmin's disk are what was reported, whichever remote method failed or timed out on the way, and
  after a restart of Jasmin too. `ImplementsMirror` says it over whole behaviours. It says nothing of
  a failure that was reported: that one is not always true is what `failed_creation` shows.
- `RefusedCreateLeavesNoRow`: rollback, but for a workspace without a connection, where the row of
  a group, a user or a connector does stay (the error comes before the code that would roll back).
- `ObjectGoesFirst`: a request that nobody interfered with leaves no object of Jasmin without its row
  or under another key than its row's, but for the rollback of its own creation and for an update that
  gives a user or a route another key. So a deletion whose call failed keeps its row. The update of a
  route to another slot is no case of it: there the object does stay behind (`moved_route`).
- `WorkspacesIsolated`: a PB call that its request still waits for, and that nobody interfered with,
  changes no group, user or connector of another workspace that has a row for it. Calls that run on after
  a timeout, and requests whose row was deleted meanwhile, are left out: the key may have changed
  hands. So are routes and interceptors, whose slots all workspaces of one Jasmin share; there it
  does not hold.
- `SignupFinishes`: a signup ends as a member of a new workspace; or in an error because the address
  or the username is in use (the form looks only for the address); or in an error because the prefix
  is, and then the account stays without a workspace.
- `ShownTokenWorks`, `ChosenConnectionResolves`, `PrefixKept`: see the definitions;
  each names the exceptions that the code makes, such as a full save of an old copy.
- `SyncsAgain`: a workspace that stays configured is synced again and again, unless another due one
  hinders it: one whose password cannot be decrypted ends the task for all, one with a wrong password
  for the same endpoint spoils the fetch of all of them.
- `EachRowItsId`, `EachNumberOnce`, `ChunksPartition`, `ChunksWithinLimits`: no row without its id,
  twice or never.
- `FilterFormSound`: a filter that its form takes is saved and built, unless its nature does not have
  the type, its key is not the type's, its value is missing, not wanted, not valid or refused by
  Jasmin, or its script is one line that looks like a path.
- `RouteFormSound`, `InterceptorFormSound`: what these forms take is built and accepted, unless an MT
  rate is missing or negative, the order is negative, a route's filter is of the other nature, or a
  filter was saved but cannot be built.
- `ImportRepeats`, `ImportIsCareful`, `ImportIsComplete`: a second import changes nothing; every row of
  another workspace is as it was, of each kind; none of one's own disappears, filters and passwords
  stay as they are; every route comes with its filters and connectors.
- `ConfigSurvivesImport`, `CredentialsSurvive`: nothing is lost on the way round but what they name:
  the code of the receipts moves by one each time, a count of zero becomes its default, five NPIs are
  shown by the form as another or as none of its choices, a default source address is
  not in the form.

Bounds, all of them constants: rows, calls, workers, views, ids and DLR strings as above;
`MaxDeliveries` (how often the broker hands out one task), `MaxCalls`, `MaxDlrs`. Two rows in a
batch are enough for a callback to hit the wrong one, two workers for a stale cursor, two views for
a lost update, four ids for both rows to be sent twice, three DLRs for a forward to be both behind
and ahead of another. In `config` two rows and two keys let objects collide, two requests interfere, one
value converts and one does not. In `workspace`, `MaxToken` (tokens given out) and `MaxAge` (minutes
counted) are as small as an interval and a regeneration need; no password that looks encrypted occurs
in its runs (`Ciphertext` is empty), the proofs cover it. `algorithms` takes payloads of up to two
entries of two numbers (`MaxEntries`, `MaxTo`), batches of up to eight rows (`MaxRows`), four
numbers typed into the bulk form (`MaxParts`), of five that stand for two valid ones, one too short
and one left blank, chunk sizes 1 to 3, three groups, one user, two criteria, two
slots, and for forms all combinations of what they distinguish, with two filters out of five saved
ones, of which two can be built. The
proofs have no bounds. Deadlock is not checked: calls may all be served, requests done,
and the system rests.

Fairness is weak and only on the program's own steps: threads and workers go on, an HTTP call ends
(the clients pass a timeout to `requests`), the broker delivers a task to an idle worker. Jasmin need
not accept, report or call back, the views need not be called, and processes may die at any time.
`DlrForward` has the same for its workers. `Workspace` is fair to time (`Minute`), to beat and the
sync task (`SyncStarts`, `SyncStep`), and strongly to a fetch that is answered: a Jasmin may fail, but
not every time. Its requests and restarts need never come. `SyncsAgain` is about servers that stop being
restarted and workspaces that are serviceable from some time on.

What the failing runs show (each is a finding in `PROJECT.json`):

- `same_number_twice`: two messages to one number in a `sendbatch` get their ids crossed.
- `forward_retry`: a failed forward is never retried, because its retry binds both parameters twice.
- `failed_creation`: a creation is reported as failed and its row withdrawn, and the object is live: the
  call timed out and was done after all, or only its persist failed.
- `moved_route`: the slot to remove is read from an instance that the form has changed, so a route that
  is moved stays live where it was.
- `route_update`: an updated route, or one pushed again because its HTTP connector changed, loses its
  row and connectors to the removal, and is not pushed.

Other things seen while modelling, which properties name as exceptions or the models show. They have
no run of their own:

- A late DLR takes a row from delivered back to acked (`Lifecycle` allows it).
- Stopping a connector that is stopped already leaves its row active: a failed call negates the flag
  instead of restoring it (`extras.py:179`), though the comment there says "revert".
- A push enables a user whatever its row says; updating a running connector stops it (`Built`).
- An imported connector with the numbering plan DATA is shown as Telex, and likewise four others,
  because the choices of the form (`jasmin/models.py:358-381`) and the table of codes
  (`jasmin/utils/utils.py:154-165`) differ (`Renumbered`).
- The settings form says of the password "Leave blank to keep it", but removes it: `save()` reads the
  old one from an instance that the form's cleaning has overwritten (`workspace/views/forms.py:264`,
  `WithConnection`).
- A workspace named with one word cannot save its settings: its prefix collides with itself, and
  looking for another filters by a field that does not exist (`workspace/models.py:294`, `Found`).
- Two usernames that differ in case only make the login of both raise (`workspace/backend.py:9` gets one
  user by iexact).
- `MESSAGING_QUOTAS` and `SMPP_QUOTAS` are used only for a user saved without credentials, which no
  form does.

## 4. Proofs

The theorems hold for every value of the constants that satisfies the assumptions named in the
modules, with no bound on rows, calls, workers, workspaces, requests or steps.

### The message path

From `AgentAssumption` and `ValueAssumption` (calls and workers are different things, calls own
disjoint non-empty finite sets of rows, keys and ids are natural numbers, the blank is none of them,
a task is delivered at least once), `OutboundProofs` proves:

- `TypeCorrect`: `Spec => []TypeOK`. Types alone are not inductive: a save writes the id of an
  answer into a column, so `Answers` adds that the id is of the kind the caller expects, and that a
  call that was not made has no answer.
- `Correlation`: under `DistinctDestinations`, `Spec => []Correlated`. The invariant
  `CorrelationInv` follows the id from Jasmin to the row: a thread's call holds rows of its own call
  of `submit_send` (`Holdings`); the id in an answer belongs to the rows of that HTTP call
  (`OkAnswers`); a batch has distinct numbers and the rows that carry its id are among its rows
  (`Chunks`); a callback carries number and id of one row of its batch (`CallbacksMatch`); the view
  that serves it has found that row (`ViewsMatch`). `IdsStay` (Jasmin reuses no id) lets each of
  them survive the steps of others. It is in `ViewsStep` that distinct numbers are needed.

Further in `OutboundProofs`, on the same invariant, `HandsInv`, and on:

- `ThreadOwnsItsRows`: `OwnedRowsUntouched`. `Owners` says which rows an agent may hold, `Fresh`
  what the rows of a web thread that has not saved them look like: nobody has an id for them, so no
  callback finds them and no worker was given them.
- `StatusIsBacked`: `StatusBacked`, as every status beyond queued is written by somebody who heard
  of an acceptance, or matched an id that only acceptance gives.
- `ReceiptsAreKept`, `ReceiptsAreBacked`: an action property and an invariant about the receipt
  columns. `RowStep` sums up what any step does to one row, `ViewReads` relates what a view has read
  to the row it read; the second needs `Correlated`, hence distinct numbers.
- `NoQueuedRowForgotten`: `QueuedIsHeld`; a row leaves the hands of its holder only settled, or
  with the holder, which makes it an orphan.

`OutboundSends` proves `Implementation`: `ImplementsLifecycle`. `PromiseInv` adds to the above that
rows in anyone's hands exist and that "unknown" is never saved; then each action is one of Lifecycle,
applied to the row it settles, or changes nothing there. It needs distinct numbers too: otherwise a
batch may give a row the id of another.

Its second part proves `SendsAreBounded`: `CountInv` weighs what Jasmin accepted of a row against
the deliveries its task has left and the calls that still hold it; every step keeps the balance.
It also proves `DlrsFindTheirRows`: `ReportFindsRow`. A row with another id than the DLR's has two,
so the count says that its task was delivered twice. A row without an id is queued or failed, or in
a chunk, or was sent twice (`Traced`), because a worker that blanks an id has a row that another
worker had before (`Sole`). It needs distinct numbers, for `Correlated`.

### The forward

`DlrForwardProofs` proves `ForwardTypes` and `ForwardsDeliver` under `ForwardAssumption`. The
invariant is `ForwardInv`: the types, `TasksAreSaved` (a task stands for a DLR that was saved),
`PostsArrived` (what a task has posted, and not yet stamped, reached the channel) and the property
itself.

### Configuration

From `ConfigAssumption` and `NoneAssumption` (any kinds among the five, workspaces, keys, values and
requests; at least one row; distinct rows have distinct cids):

- `ConfigTypes` (`ConfigSyncProofs`): `TypeOK`. Inductive with `Shape`: which remote methods a
  request may have left (`Planned`), which operations are in which phase (`Placed`), who has an
  instance (`Held`), and that no row has a key not yet given out (`Numbered`).
- `SuccessIsTruthful`, `RefusedLeavesNoRow` (`ConfigSyncSafety`): `SuccessTruthful`,
  `RefusedCreateLeavesNoRow`. The invariant is `Knowing`: what a request that nobody disturbed knows
  in each phase. Its instance is the row (`Remembers`); what its call has not failed to do is done,
  live and then on disk (`Pushes`, `Drops`, `Starts`); what it read is still so (`Reads`); what it
  reports is so (`Reports`, `Leaves`). The steps of others and of Jasmin spare whoever stays alone
  (`Bystander`, `JasminSpares`), and what is spared is still known (`StillKnown`).
- `ObjectGoesBeforeRow`: `ObjectGoesFirst`, which says less than its name for the update of a route
  (see above), from `Drops`, and from `RowSteps`, the five ways in which
  a step of a request changes rows.
- `WorkspacesStayApart`: `WorkspacesIsolated`, as a request works on its own key, its instance is its
  row, and groups, users and connectors have a key to themselves (`Unique`).
- `MirrorImplementation`: `ImplementsMirror`. A row becomes trusted only when its push is answered
  (`Witnesses`), and then row, object and disk are the same by `Reports`.

### Workspaces

`WorkspaceProofs` proves, from `WorkspaceAssumption` and `NoneAssumption` (any sets of workspaces,
users, names, hosts and secrets, any slug function, squeezing twice is squeezing once) and without
fairness, that `Spec` implies always:

- `WorkspaceTypes`: `TypeOK`. Inductive only together with `Copies` (a request that has loaded holds
  a row of an existing workspace, under the name that workspace has) and `Synced` (the sync plans and
  fetches existing workspaces only).
- `PrefixesKept`: `PrefixKept`. `Named` says that the prefix is both the one generated from the name
  and the first one. Every step either leaves a row, rewrites it under its name, creates it, or lets
  a minute pass (`RowStep`), and each of these keeps it (`NamedStep`), since a save only happens when
  the generated prefix is not taken, and a stale copy has the same name.
- `TokensWork`: `ShownTokenWorks`; `ShownStep` splits the steps into those quiet about a row and those
  that save it, where the token saved is the one recorded as shown, or a stale save clears the record.
- `ConnectionsResolve`: `ChosenConnectionResolves`, by the invariant `ChosenInv` (the row resolves
  under the key in use), which settings, clear and restart re-establish.
- `SignupsFinish`: `SignupFinishes`; usernames, addresses and prefixes in use stay in use (`InUse`), so
  the reason for which a signup was refused stays true.

### The functions

`AlgorithmsProofs` proves every invariant of `Algorithms` for any values of its constants: any
numbers, contents, ids, workspaces, criteria, slots, codes and limits, and inputs of any length. It
uses the assumptions of the function modules (`NoneAssumption` of `ImportConfig`: the mark for a
missing row is not a row; those on the ids an import makes) and three of `Algorithms`: the bounds are
numbers, there is something to import and a workspace to import it to, and the filters that routes and
interceptors are given were saved (`StoredAssumption`). A step makes one call, so
each theorem is a fact about the function, cited for the inputs of that call. Those facts are lemmas
of their own and say more than the runs: they range over all inputs, not those of `Algorithms`.

`PayloadProofs` has what is about sequences. The functions there are loops over a list, written as
recursive functions. The library's induction theorems take a predicate, which no installed
prover can instantiate, so `SetInduction` and `StepInduction` put a set in its place, the set of
numbers for which the claim holds, and prove the principle from the least number outside it
(`WFMin`). `Recursion` gives the states a loop goes through, and `FlattenSteps`, `FlattenConcat`,
`FlattenAppend` what `FlattenSeq` of the community modules does.

- `NumbersAreOnce`: `EachNumberOnce`, from `RecipientsOnce`, by induction over the parts typed
  (`Collected`: what is collected so far are the numbers of the parts so far, each once).
- `RowsHaveTheirIds`: `EachRowItsId`. What is counted in sequences is counted in their flattening
  (`CountConcat` by a bijection of positions, `CountFlat` by induction), and each entry that is
  taken keeps its ids (`ItemsKeep`).
- `ChunksArePartitions`, `ChunksAreWithinLimits`: from `ChunksFit`. `GroupedTo` is kept while rows
  are gathered into runs: these hold the rows so far in order, each run has one content. `FitTo` and
  `Room` are kept while the runs are put into chunks: the chunks done fit, the one being filled has
  room, and `Sent` of both is the runs so far.
- `FilterFormsWork`, `RouteFormsWork`, `InterceptorFormsWork`: the three form properties, by the
  type of the filter, route or interceptor; for any set of values that Jasmin refuses and any saved
  filters, with no bound on how many are chosen.
- `Configurations`, `CredentialsKept`: `ConfigSurvivesImport`, `CredentialsSurvive`, a coded field or a
  credential at a time; the first uses that the code found for a name is one of that name's, and a
  number (`CodedTables`), and for what the form shows, that a code is found under its own key in both
  tables (`KeyFound`).
- `ImportsRepeat`, `ImportsAreCareful`, `ImportsAreComplete`: the import's three properties, for any
  rows that satisfy `KeptRows` (a user's group exists; the id made for a criterion belongs to a
  filter that says it, or to none) and any snapshot that satisfies `LiveConfig` (an MT route has no
  HTTP connector). `ImportKeeps` proves that an import leaves `KeptRows`, so the three hold of every
  import in any sequence of them. The second half of `KeptRows` is what the rest of the code leaves
  true: no view changes a filter's row, and the id is a hash of what the filter says. The heart
  of the first is that the second import finds the same filter for each criterion (`LocalAgain`),
  because a filter that was there stays as it was and two criteria are never found in one
  (`LocalApart`).

### Only model-checked

The liveness properties (`QueuedSettles`, `ForwardsEnd`, `SyncsAgain`), as TLAPS has no reasoning
about fairness here. Every safety property of the passing runs is also proved.

## 5. Not modelled, and what could follow

Not modelled: rendering (templates, PDF, dashboard), lists and serialisers of the REST API,
deployment and SMPPSim have no state or logic of their own worth checking. Login with its lockout,
roles and permissions are single queries and comparisons over a row. `JasminGroup.activate` and
`deactivate` are called by nothing. A renamed user leaves its old object on Jasmin: nothing in the
code would take it off, so there is no promise to check. Workspaces and messages are deleted nowhere but in
Django's admin.

In order of worth:

1. Routes and interceptors of several workspaces on one Jasmin, once the code separates their slots.
2. Roles, login and its lockout, if they grow beyond single queries.
