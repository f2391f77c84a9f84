# ciwi: specifications, model checking and proofs

ciwi is a CI/CD server with agents.  The server keeps projects, pipelines and
job executions in one SQLite file; agents poll it over HTTP, lease job
executions, run them and report; browsers and the native desktop client read
views and issue commands.  This directory holds TLA+ modules of the parts whose
correctness depends on the order in which things happen, the TLC
configurations that check them, and machine-checked proofs.

Every definition is a translation of Go code in `src/`.  `PROJECT.json` names
the lines (`map`), the runs, the hazards and the theorems.

## The system

### Inventory

| component | state it keeps | operations | what makes it correct |
|---|---|---|---|
| job execution store (`internal/store`) | table `job_executions` | create, lease, report, requeue, cancel, delete, flush, two maintenance passes | first terminal status wins; columns agree with the status; a blocked job is never leased; deleted stays deleted |
| job dispatch (`server_agents*.go`, `internal/agent/agent_exec*.go`, `agent_api.go`) | activation and authorization of agents, the job an agent runs | lease, start, report with retries, cancel, deactivate, monitor | who executes a job holds it; one running job per agent; queued work is taken; what the server ended stops |
| agent update rollout (`server_agents*.go`, `agent_update.go`, `agent_main.go`) | target, attempt and backoff per agent, deferred update of the agent | request, retry with backoff, acknowledge, defer, install, hand over | no job is given to a process that exits; a wanted version is tried in the end |
| dependency runtime (`server_pipeline_chains_runtime.go`) | blockers in the metadata of queued jobs | reconcile after terminal reports, maintenance and start | a dependent starts only after its dependencies succeeded; a failed dependency cancels what waits for it |
| pipeline runs (`server_pipelines*.go`, `server_pipeline_versioning.go`) | executions with version, source and artifact references; the branch | run, run a chain, run a job, dry run, run from cache, rerun, bump | what runs is what the dependencies proved; a version belongs to its commit; bumps do not collide |
| rerun (`server_job_rerun.go`, `protocol/job_attempts.go`) | attempts in metadata | rerun all/one, latest attempts | one latest attempt per job spec |
| command receipts (`application/command_receipts.go`, `store/sqlite_command_receipts.go`) | table `command_receipts` | claim, complete, fail, mark unknown at start | a command with an idempotency key is carried out at most once; replays return the recorded result |
| native client recovery (`presentation/operations`, `adapters/gio`: journal, broker, session) | operations, `native-operations.json`, the session, the reconciliation | submit, run, cancel, restore, reconcile, suspend, resume | an operation is never forgotten silently and takes effect at most once; success is reported only if it happened; nothing overtakes the reconciliation |
| artifact downloads (`gio/artifact_download*.go`, `server/artifact_downloads.go`) | records, journal, staged files, destinations, server sessions | start, pause, resume, cancel, attach, detach, checkpoint, verify | the journal never claims bytes that are not on disk; completed means whole; transfers end |
| job output (`agent_exec_runner.go`, `application/changes.go`, `server_job_output_stream.go`) | the agent's buffer, the events table, subscriptions, cursors | report, append, publish, page, reconnect | viewers see each event once and in order; what is stored is shown; output is kept |
| job logs (`store/sqlite_job_logs.go`, `handlers_logs.go`) | compressed log files and their index | upload, search, page | - |
| artifact uploads (`agent_artifacts.go`) | artifact rows and files | upload, list | - |
| self update (`linuxupdater`, `darwinupdater`, `updatehelper`, `server/update`) | staged manifests, binaries | stage, apply, roll back | a crash leaves a runnable binary |
| requirements (`internal/requirements`) | none | match capabilities, diagnose what waits | the diagnosis agrees with the lease handler |
| job history (`jobhistory`, `handlers_blocked_by.go`) | none | pages, cards, rows, summaries, causes | each latest attempt has one row; a card agrees with its rows |
| progress (`jobprogress`) | a bounded cache of samples | estimates of durations | - |
| configuration (`internal/config`) | none | parse and validate YAML | - |
| views and user interfaces (`presentation`, `adapters/gio`, `giodom`, `webui`) | caches for display | - | - |
| native protocol (`adapters/nativecnp`, `nativequic`, `nativetcp`, `cnptransport`) | connections and subscriptions | - | - |
| projects, vault, mDNS, icons | rows, in-memory caches | CRUD | - |

### How the parts meet

An enqueue resolves a version, a commit and the dependencies' artifacts, and
writes executions, some of them with blockers in their metadata
(`chain_blocked`, `needs_blocked`).  Agents poll `POST /api/v1/agent/lease`;
the handler checks the registry under its mutex, then the store leases the
oldest eligible job.  The agent reports `running`, streams running reports
with output, and ends with one terminal report, which is retried.  A terminal
report runs the dependency runtime, which removes blockers, binds artifacts,
or fails blocked jobs.  A maintenance loop requeues leases whose agent never
reported and fails running jobs that are past their timeout, and then runs the
dependency runtime too.  Heartbeats carry requests to the agent, an update
among them.  All of this shares the database, with one connection, so that
single statements and transactions are atomic and everything larger
interleaves.

A native client submits commands with idempotency keys; the server claims a
receipt for the key, carries the command out, and records the outcome.  The
client journals each mutation before it is sent, and at the start of every
session inspects the journal against the server's receipts before it lets
operations through.  It follows changes by streams, and fetches artifacts in
chunks from sessions that the server may forget.

### What is hard

* list-then-update and read-then-write operations of the store that interleave
  with one another (`UpdateJobExecutionStatus`, `LeaseJobExecution`, the two
  maintenance passes, the flushes);
* checks of the registry that are made before the lease, without the mutex
  held over both; handlers that go on when their client has given up;
* agents that crash, are slow, or whose reports arrive after the job was
  requeued and leased to another agent;
* the dependency runtime, which several callers run and some do not;
* versions, commits and artifacts that are read one after the other while
  branches move and runs end;
* server restarts between a command and the completion of its receipt, and
  with requests that are kept in memory only;
* requests that are late rather than lost, and are sent again;
* a client that is suspended, crashes or loses its connection at any time, in
  the middle of a transfer, with a file the user may edit meanwhile;
* wake-ups between a reading and the wait for the next change.

## The modules

| module | models | checked by |
|---|---|---|
| `JobLifecycle` | abstract: the life of a job as users of the queue see it | `job_store`, `dispatch` |
| `JobStore` | table `job_executions`, statement by statement | `job_store`; proofs in `JobStore_proofs` |
| `JobDispatch` | lease and report handlers, agents, activation and maintenance | `dispatch`, `dispatch_live`; proofs in `JobDispatch_proofs` |
| `AgentUpdate` | heartbeats, the update of an agent and the restarts around it | `agent_update`, `agent_update_live`; proofs in `AgentUpdate_proofs` |
| `DependencyRuntime` | the reconciliation of blocked jobs, its callers and the changes around it | `dep_chain`; proofs in `DependencyRuntime_proofs` |
| `PipelineRuns` | versions, sources, artifacts and bumps of runs and chains | `pipelines`; proofs in `PipelineRuns_proofs` |
| `CommandReceipts` | `executeIdempotentCommand` and the table `command_receipts` | `receipts`; proofs in `NativeRecovery_proofs` |
| `NativeRecovery` | the client's coordinator, journal, session and reconciliation, composed with `CommandReceipts`, which it extends | `recovery`; proofs in `NativeRecovery_proofs` |
| `ArtifactDownloads` | the download manager, its journal and files, the server's sessions | `downloads`; proofs in `ArtifactDownloads_proofs` |
| `JobOutput` | output from the script to the viewers | `output`; proofs in `JobOutput_proofs` |
| `JobHistory` | operators: attempts, cards, pages, sections, rows, summaries | `views` |
| `SchedulingDiagnosis` | operators: matching of requirements, diagnosis | `views` |
| `JobViews` | the table and the registry as they change under the two | `views` |

`MC*` modules hold the small instances.  A definition named `Slip...` is a
plausible mistake; each property is shown to notice one (`PROJECT.json`,
`mutants`).

### JobStore

One action for each SQL statement or transaction of
`sqlite_job_executions_queue.go` and `..._status.go`.  The database has one
connection (`sqlite_core.go:65`), so a statement is atomic; what the Go code
does between two statements is where calls interleave.

* `row` is the table, restricted to the columns that decide anything: status,
  owner, the four times, the error, the two kinds of blockers and the retry
  time.  Job numbers stand for ids in creation order.
* `call` holds the calls in progress and what they read: a lease and its list
  of candidates, a status update and the row it was computed from, a flush and
  its list of ids.  `pass` is the maintenance pass and its list.
* `granted` is history: which agents a job was ever leased to.
* Requests that return an error before their first write change nothing and
  are not actions.  `MayReport` is what an agent does: it reports jobs it was
  given.  The reaper uses the time at which the pass began, so its
  `finished_utc` may precede what the row has; `TimelinePossible` says so.
* A job's retry time is compared when the list is made, as in the code.
* `AppendJobExecutionEvents` after an update, which may fail and end the
  call early, is not modelled here (`JobOutput` has it).

### JobDispatch

Handlers (`call`) and agents (`agent`) are processes; an agent that gives a
request up leaves its handler running.  The rows keep `status` and `holder`.
A maintenance action that comes before its job is really abandoned takes one
from `MaxEvents`, like a lost answer, a restart, an unreachable secret store
and every intervention of a user.

* `raced` is history: jobs whose row was written by an update that had read it
  in another state.  The two safety properties are about the others, and say
  what is left of them without atomicity: `UpdateJobExecutionStatus` reads and
  writes in two statements, and a start whose lease was taken back leaves a
  running row without a holder, which anybody may report about.
* `Slots` bounds how many requests of one agent are at the server at once.
  `crowded` is history: the agents that once had three of them there.  What an
  agent may have running is stated of the others (`OneRunningPerAgent`); of a
  crowded one it may be two rows, see below.  The other safety properties do
  not look at it.
* A deactivation ends by storing the agent's record as it read it, after it has
  cancelled the jobs it had listed: an activation in between is undone.
* The module implements `JobLifecycle`, as `JobStore` does: the same promises
  seen from the tables alone and from the agents.
* A report that fails makes the agent give the job up (`ReportPhase`), without
  a terminal report; such a row keeps the agent busy until its timeout.

### AgentUpdate

One agent and the server.  Times are reduced to what is compared: whether the
retry time has come and whether the grace of 40 s is over.  Heartbeats come
from a ticker's goroutine and from the lease tick; their handlers end in any
order, and the answers wait in a channel of capacity 4 (`MaxQueue`).
`wanted` is the target of all agents, `manual` what a user asked of this one;
`rec` and `disk` are the agent's record in memory and in the database.  A
handler whose client gave up goes on as one of `Late`, to be handled at any
time; none outlives the agent's process.

### DependencyRuntime

A run of a chain: specs (one job of one pipeline), each with the groups of
specs it depends on in the chain (`ChainDeps`) and by `needs`.  Executions are
attempts of specs; reruns add attempts.

* `run` is the reconciliation in progress: `dependencyMu` lets one in at a
  time, `waiting` are those who wait for it.  Its decision is a function of the
  list it read, so the decision is stored and the list is not.  Between the
  list and each write everybody else takes steps.
* `failBlockedJob` writes twice (status, then metadata), and a crash or error
  may come between; `UpdateJobExecutionStatus`, itself two statements, is one
  step here and two in `JobStore`.
* The binding of artifacts may fail or not; whether it does is left open.
* A restart reconciles before anybody is served (`server.go:86-93`).
* `unseen` is history: a change was made after which nobody reconciles - a
  user's cancellation, a permanent secret failure, a deletion, a rerun, or a
  terminal report whose events could not be stored, which the handler answers
  with 500 before it comes to `OnJobUpdated` (the agent repeats it a few times,
  if it lives) - or a reconciliation failed or came to its limit.
  `NothingLeftUndecided` and `DecisionsAreMade` except these.
* `MaxFaults` bounds restarts, reconciliations that fail and reports whose
  events are not stored, together.
* One rerun request is in progress at a time.  Its check of declared
  dependencies takes an execution of this run or of any other run
  (`MetSomewhere`), the latter left open.  That an execution which failed
  without a start may be run again only if a dependency was the reason is left
  out: the module allows some reruns that the code refuses, and the proofs
  cover them.

### PipelineRuns

`project` is the configuration (jobs, chain, kinds of requests), chosen at the
start; `commits` are the versions along each repository's branch; `execs` the
executions with version, source, artifacts, chain and attempt; `requests` the
requests in progress, each with what it has read.  Between the reading of
dependencies, of the version file, of the branch, and the storing of the
executions, everybody else takes steps.  `bumps` is history: what was pushed
on top of what.

* One branch for each repository: `source_ref` overrides are left out, and so
  are failing clones, for which an unreadable version file stands.  Matrices,
  needs within a pipeline and the rendering of templates are left out.
* The environment's pushes never set a version back.
* `waits` is the list of dependencies as it was declared; the decision
  (`Reconcile`) looks at those that are in the chain.
* `own` is history: whether the version was read from the repository for this
  pipeline, rather than inherited.  A run from a cached context of the pipeline
  itself has the `own` of the run that it repeats.
* `SourceIsProven` and `ChainIsOneBuild` except runs without a version of
  their own: see "Disagreements".

### CommandReceipts

Calls go through claim (`INSERT OR IGNORE`), read-back, and either replay or
execution and record; each is a step.  `effects` is history: the calls whose
command took effect.  A restart loses the calls and marks pending receipts
unknown before anything is served.  With `StoreFails`, each store operation of
the protocol may fail.  A payload stands for operation and fingerprint.

### NativeRecovery

Operations are numbered as they are submitted; `mem` is their state in the
coordinator, `journal` their entry on disk, `call` the request sent to the
server, whose steps are those of `CommandReceipts` and go on after the client
has lost interest.  The module extends `CommandReceipts`: `Init`, `Next` and `Spec`
are those of the server with any clients, `RecoveryInit`, `RecoveryNext` and
`RecoverySpec` those of the server with this one, which asks with its
operations as keys and the same payload each time.  `link`, `session`, `alive`,
`broker` are the connection as the controller sees it, the server's end of it,
and whether operations are given it; `recon` is the reconciliation, which reads
the journal, looks the receipts up one by one, and is applied by the
controller.  The controller is one goroutine: `Idling` keeps its other steps
out of the middle of a plan.  `told` is what the user was shown, which is when
the controller handles the coordinator's change and not when the operation
ends; it is "silence" for an operation that was dropped without a word: a
cancelled one, and one that had ended when the app ended.  An entry of the
journal that was not bound to a server is counted as unknown, without asking
for its receipt.

* `CancelActive` and the snapshot of the operations to wait for are two calls
  in the code and one step here: nothing but the end of an operation can come
  between, and that is noticed by the same event.
* Queries, failing writes of the journal, and a second server are left out.
  A command without arguments in the journal is never repeated; it is one of
  the operations outside `Safe`.

### ArtifactDownloads

`rec` is the manager's record of a download and `journal` what is on disk of
it; `stage` and `dest` are the two files, each with its content and how much
of it is synced; `worker` the goroutines; `session` and `source` the server's
side.  A file is a sequence of chunks, and a chunk is the content it is of, so
that a mixture of two contents is visible.  A crash keeps what was synced.
A goroutine that was told to stop and finds its client back calls `Resume` as
its last act, after it has given the mutex up (`ResumeAgain`); the controller
may act in between.  `doubled` is history: a download was resumed while a
goroutine was at work on it, which takes failing writes of the journal (see
*Disagreements and consequences*).  The properties are about behaviours until
then.

### JobOutput

Output is counted in pieces and an event covers a range of them.  The agent
takes what is unsent, reports it with a timestamp, and repeats a report whose
answer was lost; a running report that ends by a deadline or with the run's
context is taken for delivered, and `cut` is the history of what was marked in
this way; `log` is the table, which ignores events it has (same agent,
same time).  `inbox` is the channel of capacity one of each subscription,
`stream` a viewer's position, page and cursor, `last` what the viewer showed.

### JobHistory, SchedulingDiagnosis, JobViews

The views are functions of one reading of the table and the registry, written
as operators; `JobViews` changes the two by whole operations (the interleavings
of their statements are `JobStore`'s and `JobDispatch`'s).  A list of executions
is a sequence of records, the newest first; an execution's metadata is reduced
to what decides about cards and order.  An agent's record has two sets of
capabilities, the registry's and what its requests carry: the lease handler
merges them, the diagnosis knows the registry's only.  Versions of tools are
numbers.  `world` is one of two instances, one with lists and a fleet that does
not change, one with a changing fleet and two executions.

## The runs

| run | instance | shows |
|---|---|---|
| `job_store` | 1 job, 2 agents, 2 calls, time 0..3 | coherent rows, possible timelines, first terminal status wins, deleted stays deleted, blocked is never leased, the store implements `JobLifecycle` |
| `dispatch` | 2 agents, 2 jobs (one with a timeout), 2 handlers each, 2 attempts, 2 events | who executes holds the lease, one running job per agent, dispatch implements `JobLifecycle` |
| `dispatch_live` | the same with 1 event, fair | queued work is taken, what the server ended stops |
| `agent_update` | 2 versions, faults of every kind | no job is admitted to a process that exits |
| `agent_update_live` | the same with fewer events, fair | a wanted version is tried |
| `dep_chain` | 3 specs (a needs-edge and a chain-edge over both), 4 executions, 1 restart or failing write, deletions | release, cancellation, completeness, convergence, decisions are made |
| `pipelines` | 4 projects with a build, a release that bumps and a site in another repository; 2 requests, 3 executions, 1 push, 1 failure | sources, versions, chains, artifacts and bumps fit together |
| `receipts` | 2 keys, 2 commands, 3 calls, failing store, 2 restarts | at most once; true answers; owners of pending receipts; settled is final |
| `recovery` | 2 operations of one scope, 1 worker, 2 sessions, 1 loss, 1 server restart, 1 app restart, 1 end of the connection by the server | nothing forgotten, sent once, success is real, nothing overtakes, recovery ends |
| `downloads` | 1 download of 2 chunks, 2 workers, 2 contents, 3 events; until a download is doubled | durable journal, completed is whole, transfers end |
| `views` | 2 agents; matrix runs, chains and single jobs, 4 executions; or 2 executions with requirements and 2 events of the fleet; pages of 1 and 2 cards | each latest attempt has its one row, cards agree with their rows, nobody is told "ready" for ever |
| `output` | 2 pieces, 2 reports of 2 attempts, pages of 1 event, 1 viewer, 1 fault of nine kinds | views follow the log, reports count once, what is marked as sent is stored, what is stored is shown |

Why these bounds: a race for a row needs two calls and a pass in progress,
each with its own reading, and a third call adds only more of the same
updates; three time steps suffice for a lease, its staleness and a late
report.  Two agents and two jobs give an agent that takes another's job and one
that takes two; two events are a fault and an intervention, or a fault and
what was to repair it.  A dependency is decided per job, so three specs give
both kinds of blocker, a job with both predecessors, and a chain of
consequences; one more execution gives a rerun at every point.  Three
executions are a dependency, its dependent and either the rerun of one, a newer
run or the third of a chain; two requests read and store around each other,
and a second one that starts meanwhile is a single pipeline's run
(`Meanwhile`); jobs that are run alone are those of the first two pipelines
(`Alone`).  Two calls with one key and a third with another command meet in
every stage of the receipt.  Two sessions give one reconciliation with
everything that can precede it.  A download of two chunks stands before,
between and after them, and three events are a break, a change and a crash.
`CONSTRAINT NotDoubled` stops the run at the states in which a download was
resumed while a goroutine was at work on it: every property is true of whatever
follows them, because each one excepts it.
Two pieces and pages of one event put a viewer in the middle of everything.
Proofs lift the bounds of `JobStore`, `DependencyRuntime`, `JobDispatch`,
`AgentUpdate`, `CommandReceipts`, `NativeRecovery`, `ArtifactDownloads`,
`PipelineRuns` and `JobOutput`, for their safety properties (see "The proofs").

`CHECK_DEADLOCK FALSE` is said where the instance runs out of executions,
calls, operations or events and everything has ended.

### Fairness

Fairness is assumed of goroutines, timers and processes, never of users,
crashes or the network; faults are bounded in number.

* `dep_chain`: a goroutine that holds the mutex or waits for it gets on, and a
  starting server starts.
* `dispatch_live`: handlers go on, agents' loops tick, monitors poll, the
  maintenance loop runs (`server_job_execution_maintenance.go`, every 10 s).
  Scripts need not end unless they have a timeout.
* `agent_update_live`: tickers tick; `select` takes each of its ready channels
  in turn (strong fairness, Go chooses at random among the ready ones); a job
  ends in the end; a process that is to exit exits.  Nothing is said of how an
  installation ends.
* `recovery`: an operation's goroutine, the reconciliation and the handling of
  its result go on, and a dead connection is noticed (requests have timeouts).
* `downloads`: workers go on, while the user and the connection owe nothing.
* `output`: handlers and streams go on.
* `views`: the agents' loops of lease requests and heartbeats.

## Disagreements and consequences

What the code does that its documents, or a reader, may not expect.  Some are
stated as definitions at the end of a module; they are not properties of the
code, and giving one to TLC as an `INVARIANT` or a `PROPERTY` of the module's
configuration, with other bounds where said, shows the behaviour.

Dependencies and reruns
* `DependencyRuntime!ChainStaysBlocked` (docs/pipelines.md:76): a rerun of a
  cancelled pipeline of a linear chain runs although the pipeline before it
  failed; `server_job_rerun.go:37` looks at declared dependencies only
  (`Declared` empty).
* `DependencyRuntime!FailureReachesDownstream` (docs/pipelines.md): jobs that
  depend on one that a user cancelled, or whose secret could not be resolved,
  wait until somebody else's job ends.  The same holds after a terminal report
  whose events could not be stored, if the agent does not come to repeat it
  (`handlers_by_id_subresources.go:203-208`), and after a reconciliation that
  failed, also the one at the start of a server, whose error is only logged
  (`server.go:90-92`).
* `PipelineRuns!RerunArtifactsFit` (docs/pipelines.md:48): a rerun binds the
  artifacts its dependencies made last, whatever their version.
* What a chain releases is bound to what the chain made, and to the newest run of
  a dependency outside the chain, whatever the version of either
  (`server_pipeline_chains_runtime.go:235`).  They agree where the chain's first
  pipeline has a version, because all take it over (`ChainIsOneBuild`).  If its
  version file cannot be read when it is resolved and can be when a later
  pipeline is, a third one without a version is released with artifacts of a
  version; `ArtifactsFit` therefore asks for agreement only where the binding is
  made with the check, or within a chain that has a version.
* A rerun copies the blocker `chain_blocked` of its original
  (`server_job_rerun.go:46` removes three other keys), and nobody reconciles
  after it; deleting the history of a failed upstream changes what
  `pipelineChainStatus` reads.

* `JobViews!CauseIsNamed` (docs/api.md:79, `handlers_more_test.go:190`):
  `blocked-by` answers only for executions without a start, and
  `failBlockedJob` sets one, as each terminal report does
  (`sqlite_job_executions_status.go:82`); what the reconciliation cancelled is
  never said to be blocked by anything.  The test's execution is one that the
  store does not produce.
* Deleting a queued rerun, or the history of the agent that ran it, makes the
  attempt before it the latest again, with its row.

Pipeline runs
* The commit that a dependency pinned is replaced by the head of the branch
  when the dependency has no version and the pipeline is versioned, and is
  dropped when the version file cannot be read: a chain whose first pipeline
  has no version may build two commits.
* Dependencies from repositories r1, r2, r1, in this order, give the source of
  the third though the first two disagree (the comment in
  `mergePipelineDependencyContext` says that the source is cleared).
* A pipeline may run at a commit at which a pipeline of its repository that it
  depends on has not succeeded, where `DependenciesPin` (`PipelineRuns_proofs`)
  does not hold: it depends on another repository as well, or is in a chain
  that leaves the dependency out.
* The dependencies of a chain's pipeline that are outside the chain are bound,
  when it is released, to their newest run, whatever its version.
* Dry runs and runs of a single job count as successful runs of a dependency.
* A run from cached contexts ignores a dependency's pinned commit when the
  dependency has no version.

Dispatch and updates
* A lease request that the agent gave up may still lease a job for it
  (`server_agents.go:405-440`; docs/operations.md:63): two leases, one
  running.  Three of its requests at once make two (`Slots = {1, 2, 3}`,
  3 events, `OneRunningPerAgent` without `crowded`): a start is read while
  the first lease holds and written when the agent has been given the same job
  again, and the request that was admitted in between leases and starts another
  job.  A late `running` report about a terminal job is answered with
  success.  A lease that is taken back while the start is on its way leaves a
  running row without a holder, which the sweep of a deactivation misses.
* A running report that fails ends the execution on the agent without a
  terminal report; without a timeout the row keeps the agent busy for good.
* An agent with an update pending gets no job (docs/operations.md:13-14 says
  that it finishes its work first): `agentLeasePendingUpdateReasonLocked`.
* A shell that runs when its job is cancelled is ended by the agent's monitor;
  docs/operations.md:68-69 and docs/native-client.md:208-209 say that it is not.
  `CancelledStops` states what the code does.
* An agent that is activated while its deactivation still cancels its jobs is
  deactivated by the end of it (`server_agent_application.go:157-162`).
* After a restart of the server a manual target is forgotten, and a process
  that is to exit may be given a job.  A failure on record admits jobs even
  then.  A failure whose acknowledgement was lost is reported again and ends
  the next attempt.  A deferred update that outlives the grace is requested
  again, and is then carried out twice.
* One-shot requests (restart, wipe, refresh) are deleted when the answer to a
  heartbeat is composed, and are lost with it.

Native client
* `NativeRecovery!FailureIsNotGuessed` (docs/native-client.md): a repeated
  operation that meets the pending receipt of its own delayed original is
  reported as failed, and may succeed.
* `NativeRecovery!ReachedServerStaysJournaled` (ADR 0003): a restored operation
  that is cancelled in the queue is dropped from the journal though it was sent
  before, and the user is told nothing (`app.go:1115-1118`).
* `NativeRecovery!NeverPaused` (ADR 0003): a press that races the suspension
  leaves the client paused, and each retry meets the same conflict.
* An operation whose request times out in a live session is promised a
  verification that only the next session makes (`operations.go:149`).
* `ArtifactDownloads!LostConnectionsAreNoFailures` (docs/native-client.md:220):
  a broken connection ends a transfer as failed, and only paused ones are
  resumed by the next session (`artifact_download_manager.go:585`).  A client
  that is detached while its user chooses a destination leaves the download
  `preparing`.  The destination is neither synced nor read at completion: it
  is the staged file that is verified.
* One goroutine for a download is not a fact.  A paused goroutine resumes its
  download as its last act, after it gave the mutex up
  (`artifact_download_manager.go:731-733`).  If the user's Cancel finds that the
  journal cannot be written in that moment, it leaves the record and no entry in
  `active`; the user's own Resume begins a second goroutine, and a second such
  Cancel makes room for the first one's.  A completed download whose entry was
  removed by `verify` gives the same room, and so does a Remove.  Two goroutines
  then write one staged file, and a crash may find the journal ahead of it
  (2 failed writes, 18 steps), though docs/native-client.md:217-220 calls the
  staged file durable.  `JournalIsDurable`, `CompletedIsWhole` and
  `AttachedDownloadsEnd` hold until then (`doubled`).

Output
* A job that maintenance, the reconciliation or a deactivation ended publishes
  no change of its output (docs/ui-dsl.md:171; docs/architecture.md:303).
* A stream may say that it is complete before the events of the last report
  are stored: the row is terminal first
  (`handlers_by_id_subresources.go:193-208`); opening the view again shows them.
* A running report that ends by a deadline or with the run's context is marked as
  sent though it may not have arrived.  The deadline may be the HTTP client's own
  (10 minutes, `agent_main.go:18`), so that a run that nobody interrupted may
  lose output (`agent_exec_runner.go:337-341`).  A running report whose answer
  was lost is stored again with the next.  `OutputIsKept` and `EachReportOnce`
  say what does hold.
* A page that cannot be read ends a stream with an error, and its viewer does not
  open it again by itself (`server_job_output_stream.go:49-53`).

## The proofs

TLAPS checks all of this for every value of the constants that satisfies the
named assumptions.

* `JobStore_proofs`.  `IInv` is `TypeOK`, the coherence of rows, the coherence
  of the calls in progress with the rows they were computed from, and the
  coherence of the pass.  The calls are why `RowCoherent` is not inductive as
  it stands: an update writes what it computed from an older row, and what
  makes that safe is how far a row can have moved in the meantime (statuses
  and times only grow between creation and deletion, `RowsProgress`).  From
  `IInv` follow the invariants, `TerminalIsFinal`, and
  `StoreImplementsLifecycle`: each statement is a step of `JobLifecycle` or
  changes nothing there.
* `DependencyRuntime_proofs`.  `IInv` adds to the types: which executions are
  attempts of which spec, that the history is complete, that what was handed
  out carries no blocker, and what the decision in progress may rely on when
  it is carried out although the list is old: a dependency that was fulfilled
  stays fulfilled, and a job with a blocker stays queued.
  That nothing is left undecided when nobody is at work is an argument about
  who saw what: a change either comes before the list of a reconciliation that
  is still to decide, or it is one of those that `unseen` notes (`SeenInv`).
  That the passes end counts: each pass that is followed by another one has set
  a flag (blocked, released, cancelled) of an execution, flags are never taken
  back, and each execution has two.  A rerun that is created while a
  reconciliation is under way brings two more, and the limit of three passes for
  each execution of the first list leaves room for half as many reruns as that
  list had executions (`Budget`).  `Converges` says so: a reconciliation that
  comes to its limit has met more reruns than that, and is one of the exceptions
  of `NothingLeftUndecided`.  Neither theorem assumes anything of the reruns.
* `JobDispatch_proofs`, for any number of agents, overlapping requests and
  faults.  That whoever executes holds the lease: what a handler carries fits
  the table (its job exists, the holder it read is nobody or its sender), what
  an agent waits for fits what it does (a start is only ever accepted for a
  report `running` of its job), and a row that was started never waits again.
  `RowStep` says what any step does to a row, so that everything a step does not
  touch still fits (`Frame`), and each action has only its own call and agent
  left to show.  The refinement needs two facts of the same invariant: a job
  that waits has no holder, and a leased one has.
  `RunsOne` needs an invariant of its own (`Alone`), of the agents that are not
  `crowded`, for any number of slots.  Of the jobs that run in an
  agent's name, or that it holds and may still start - it works on them, is
  about to receive them, or has a handler that outlived its patience - there is
  at most one (`Live`); a request that passed the check for an active job and
  has not leased yet is admitted while there is none, or is not waited for
  (`AdmittedAlone`); and a busy agent has a slot without another job
  (`OneSpoilt`).  That at most two of its requests are at the server
  (`TwoRequests`) is used in one place (`LeaseAlone`): two admitted requests leave
  no third that could still start a job, which is what goes wrong with three.
* `AgentUpdate_proofs`, for any number of versions, events, waiting answers and
  handlers that go on after the agent gave up.  `UpdateKillsNoJob` is about one
  step, the check of the lease handler, and what makes it hold is spread over
  the agent and the server: a request to update is for another version than the
  one that runs, wherever it waits - in a heartbeat, in the ticker's channel, as
  a deferred update, in an installation (`BeatsFit`, `QueueFits`, `Fits`); and
  whoever asks for a job has told the server just before which version runs
  (`RecordFits`).  So the record of an agent that exits for the wanted version
  shows another one, and the handler finds an update pending.  The second part
  breaks if a handler of an earlier process is still to come, which the module
  leaves out.
* `NativeRecovery_proofs` has two halves.  The theorems about `Spec` are
  about the receipts, whoever calls them, with any keys and payloads and with
  or without failures of the table.  `ReceiptsInv` ties each receipt to the one
  call that holds its claim (`HoldersFit`), each settled receipt to the
  execution that settled it, and each answer to a receipt.  At most once follows
  because `INSERT OR IGNORE` gives one claim per key and no receipt ever
  disappears.
  The client's half takes `ReceiptsInv` into its own invariant and is about who
  may be sent.  An operation that was not submitted is nowhere (`Fresh`), so that
  its first request is the first; one that is not safe to repeat is never given
  back by a reconciliation, so that it waits to be sent only before its first
  request (`NotSentYet`); one at work is in the journal, or its outcome is on
  record (`Remembered`); and a plan deletes only what it has seen settled
  (`PlanFits`).  `OpMoves` says what a step may do to one operation, whatever the
  action, and most of the invariant follows from that.  None of it needs the
  server's table to work: the run has `StoreFails = FALSE` for its size, the
  theorems have either.
  `ServerKeepsReceipts` says that the two modules fit together: every behaviour
  of the client and the server is, for the server's variables, one of
  `CommandReceipts` (`RecoverySpec => Spec`).  `ClientIsServed` draws the
  conclusion: the promises of the receipts hold for this client.
* `ArtifactDownloads_proofs`, for any number of downloads and goroutines, any
  number of failures and whatever the controller does before a goroutine's last
  act; the invariant is one of the states in which nothing was `doubled` yet, and
  a doubled download stays so.  The journal is behind the
  record, and the record behind what was synced (`JournalFits`, `RecordFits`):
  so a crash, which keeps what was synced, loses nothing that a record or the
  journal counts on (`RestoredFacts`), and that the journal is durable follows.
  While a goroutine is at work (`WorkerFits`), the staged file has exactly the
  chunks it counts, and a destination that is open has the same ones; so the
  file that is verified is the destination, although the code reads only the
  staged one, and a complete download is whole.  What is hard is that a
  destination is taken over from an earlier goroutine (`SameChunks`) and that
  everybody but the goroutine moves its record meanwhile (`AbsentFits`,
  `SameFits`); `Moves` says what has to be shown of a step that moves one
  download, and every action is an instance of it but for Crash and Again.
* `PipelineRuns_proofs`, for any pipelines and dependencies between them, any
  chain, any number of requests, executions and commits.  A version is read at
  one time, a commit chosen at another, the executions are built and stored at a
  third, and a bump is computed, compared and pushed later still.  The invariant
  therefore relates everything that carries a version and a commit to the
  commits there are: stored executions and those that are built and not stored
  yet (`BuildFits`), the contexts that requests carry (`ContextFits`), and what
  a bump has fetched (`PushFits`).  It is kept by everybody else's steps because
  commits and executions are only added (`Grows`, `GrowthKeeps`), so that each
  action has only its own request or execution left to show.  A context of
  several dependencies is a fold, and a set that merging two contexts does not
  leave is not left by the fold (`MergeAllStays`, by the least index that would).
  What is easily missed: a version can be inherited without a commit, when it
  came from another repository, and then the commit is chosen after it (`AtPin`);
  so a version is of its source where no other repository has a part
  (`OneRepository`) or it was read together with the commit.  What a chain
  builds agrees with its first pipeline (`Agrees`), whose context stands in for
  the dependencies of the others.  That a version is bumped once follows from
  `OnlyRaised`: between two bumps of one version the version file would have to
  go back.
  `SourcesAreProven` states `SourceIsProven` under `DependenciesPin`, a condition
  on the project's configuration; the projects of the run meet it.  It has three
  parts, and TLC refutes `SourceIsProven` without any one of them: a pipeline
  depends on its own repository only or on others only (the merger pins no
  commit for several); what a later pipeline of a chain depends on in its
  repository is in the chain, which starts in that repository; and a pipeline
  without a version file does not depend on a later pipeline of its chain that
  may read its own.  The second invariant (`SourceInv`) is about the whole of a
  run: executions of a run are attempts at one commit (`SameAttempts`), so that a
  run that succeeded proves its commit (`RunProves`); a chain is complete from
  the start, and each execution waits for the chain's pipelines it depends on or
  has proven dependencies (`ChainFits`, `ReleaseFits`); and what a request
  has built so far is that chain's beginning (`PartsFit`, `CopyFits`).  What is
  proven stays proven, because commits and runs are only added and an execution
  succeeds for good (`Advances`, `ProvenStays`).  What is hard is that a version
  may be inherited while the commit is looked up: `LooksUp` says when, and
  `Shares` that then nothing of the chain is at another commit.
  `ArtifactsAreFitting` needs no such condition.  Its invariant (`BoundInv`)
  follows the artifacts from the check of the dependencies to the execution: the
  runs that a request has checked are of the version it checked (`CheckFits`),
  which the first pipeline, and only that one, takes over with them
  (`SourceBuild`, `PieceFits`); and what is left for the chain to release has
  none yet (`BoundFits`).  A release then finds what the chain itself made,
  because every pipeline of a chain has its executions from the start, and an
  execution that has succeeded keeps its version (`Keeps`, `BoundStays`).  A run
  has one version, reruns included (`RunsAndChains`), which is why it does not
  matter which attempt of a run is bound.
* `JobOutput_proofs`.  That views follow the log: the page under way starts at
  the viewer's position and ends at the stream's cursor, whichever reconnection
  happened.  That reports count once and output is kept: there is a function
  from the agent's timestamps to pieces of output, and everything that carries
  a timestamp (the report in hand, the handlers that outlived their clients, the
  rows of the table) carries the pieces that were made at it.  The function
  exists but is no variable of the module, so the invariant states it with an
  existential quantifier, and each step either keeps the witness or extends it
  by the timestamp it makes.
  `TypeCorrect` adds what is only counted (`Bounded`).

Assumptions: the constants' types (`...Assumption` in the modules), that
`NoAgent` and `None` are not agents, calls, operations or pages, that groups of
dependencies are sets of specs, and that a chain names a pipeline once, as the
validation of the configuration has it (`config.go:518`).

Only model-checked: liveness (`DecisionsAreMade`, `RecoveryEnds`,
`QueuedWorkIsTaken`, `CancelledStops`, `UpdateIsTried`, `AttachedDownloadsEnd`,
`StoredIsShown`, `ReadyIsTaken`), which the prover does not do under fairness;
and `EveryAttemptHasItsRow`, which is about what sorting, grouping and paging
make of a whole table: the cards, sections and pages are folds, and what a fold
computes for every table needs an induction over the table, which the prover
cannot do.  The type invariant is proved of every module that has proofs.

## Not modelled

Parsing of configuration, layout and display, framing of the native protocol,
discovery, icons, the project and vault tables: sequential code or I/O, with
table tests.  Artifacts' contents and logs' text, the uploading of artifacts
and of logs.  Estimates of durations are functions of one reading of the table,
with a bounded cache of samples.  The replacement of binaries on disk
(self update) belongs to a separate process, whose outcome `AgentUpdate` takes
as given.  Restart and wipe requests travel with heartbeats as the update
request does, without its retries.  The reasons are in `PROJECT.json`, part by
part.
