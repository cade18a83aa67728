# Formal verification of codevo-runner

codevo-runner accepts coding tasks over HTTP, runs them one turn at a time with
a provider CLI (Claude or Codex) in a Git worktree, and keeps everything a
restart needs in SQLite. It is one Node process: the event loop interleaves its
services between awaits, a worker thread executes storage requests one after
the other, and child processes do the work. What is hard about it is not any
one function but the order in which answers, aborts, timeouts and restarts
reach shared state.

The modules here model that: each action is what the code does between two
awaits, and each storage request is one atomic step (a `BEGIN IMMEDIATE`
transaction on the one connection). `PROJECT.json` maps every definition to the
lines it stands for, and lists the runs, the hazards, the mutants and the
theorems.

## 1. The system

Composition is in `runtime.ts`. Start: expire questions, interrupt the turns
and the clones a previous process left running, start the pumps, listen.
Shutdown: close the maintenance lease and the services, then storage.

| Component (source) | State | Operations | Interacts with | Hard behaviour | Correct when |
|---|---|---|---|---|---|
| Durable store (`infrastructure/sqlite/{database,resume-database,pending-database,steering-database}.ts`) | tasks, conversations with their latest turn and provider session, pending messages, queue flags, steering claims, events | create, queue, claim, finish, cancel, continue, enqueue, remove, resume, promote, claim/release/accept steering, interrupt | every service calls it and awaits its answer | calls in any order from many clients; restart; retries | a conversation is one chain of turns, a message reaches one turn, a stopped queue stays stopped |
| Execution service (`application/execution-service.ts`) | the pump, active runs with their abort controllers and predecessors, closing and failure flags | wake, drain, launch, run, cancel, close, initialize | store, Git leases, workspaces, provider executor, admission fence | claim answered after close, stop of a turn not yet launched, storage failing for the last write | one run per conversation, turns in order and once, bounded pool, no lost wake, a quiet close |
| Maintenance lease (`application/maintenance-{lease,service}.ts`, `transport/maintenance-fence.ts`) | free, probing or held, timer, closed; count of fenced requests | prepare, renew, release, expire, announce, admit | all work sources are probed; all pumps are told of openings | expiry under the probe, the same id reserved again, claims in flight when the fence goes up | a lease only over an idle runner, no gap, and no queued work forgotten |
| Git coordination and operations (`application/git-{coordination,sync-service}.ts`) | FIFO gates per workspace, per project and for the network; retained operations by idempotency key | fetch, update, push, commit, the origin fetch of a turn, cancel, close | runs wait for the workspace lease; turns are looked up in the store | gates that come and go with their users, abort against grant, checks that go stale | exclusive leases, no Git under a running provider, one operation per key, every job ends |
| Approvals (`application/approval-service.ts`, `sqlite/approval-database.ts`) | waiters by approval, durable rows | ask, answer, time out, expire | provider adapters ask, clients answer | timeout against answer, end of turn against creation | the provider is told what the row records |
| Questions (`application/question-service.ts`, `sqlite/question-database.ts`) | durable rows, waiters | ask, answer, expire | provider adapters | end of turn against answer | one open question of a running turn |
| Steering delivery (`application/steering-service.ts`) | one owner per run with the handler of its provider, the delivery under way, retained images | open, register, steer, claim, stage, hand over, accept, release, clean up | store, provider adapters, attachments | handler or turn replaced while staging, a provider that fails while taking a message | a message is delivered at most once, and never on a guess; its images stay while they may be read |
| Provider processes (`infrastructure/execution/*`) | owned processes by number and start time; the streams, result and timers of an invocation; commands, tasks, child turns of a provider's protocol | observe, kill, feed, pause, interrupt, drain, steer | execution service, approvals, questions, steering | numbers handed out again, receivers that never return, frames in any order | only its own processes are stopped, all of them are; an invocation ends with the result decided first; success means that the accepted work is done |
| Clone and registration (`application/project-{clone,registration}-service.ts`, `sqlite/clone-database.ts`, `projects/clone*.ts`) | clone rows, the active clone, folders, reserved names | request, claim, make, publish, roll back, cancel, close, register | store, git child, file system | publish on disk and in the database, lost answers, cancel between claim and look | a registered project has its folder, and a folder of a stranger is never removed |
| MCP management (`application/mcp-server-management-service.ts`, `domain/mcp-server-management-protocol.ts`) | the active login, retained sessions, a conversation with a provider | begin, callback, poll, cancel, close; login, sign-out, add | provider CLIs | a login that replaces a login, answers older than the callback | one login process, and a verdict on its own grounds |
| MCP device sync (`application/mcp-device-sync.ts`, `domain/mcp-device-sync.ts`) | the plan, the ledger of owned entries, runs of the CLI | plan, apply, settle, save | the Claude configuration, which others edit | entries that change between plan and step, timeouts, crashes | it removes and approves only what it owns |
| Subagent lifecycle (`domain/subagent-lifecycle.ts`) | entries with their aliases, exclusions, tombstones | a fold over provider frames | executors, history | names that turn out to be one agent, limits | no alias twice, no failure lost, no shell shown as agent |
| Attachments, instructions (`infrastructure/files/*`) | blobs and rows; journal and manifest of files in a workspace; slots of reads | upload, publish, evict, rescue, read; plan, journal, apply, commit | store, file system, users who edit | two stores without a transaction, crashes at any step | a row has its blob; what the runner wrote is on record, what users wrote stays |
| Artifacts, turn changes (`application/artifact-service.ts`, `projects/turn-changes.ts`) | a slot with its line, blobs and rows; refs and records | capture, expire, put; start, end, clean up | store, Git, execution service | deadlines in the line, a lost answer | slots come back; a record names a commit that is there |
| Terminals, speech, command catalog, port preview (`application/*-service.ts`) | bounded pools, waiting lines, caches | open, join, close; transcribe; probe; scan | shells, providers, `/proc` | abort against grant, a limit while something is opened, a slot that times out | every slot is somebody's, and whoever waits is served |
| Storage calls (`sqlite/index.ts`, `worker.ts`) | calls under way with deadlines, the worker thread | request, reply, time out, announce, close | everything | a worker that dies between commit and answer | a caller is told the truth or that it is unknown |
| Thread metadata, change stream (`sqlite/thread-metadata-database.ts`, `transport/changes.ts`) | rows with revisions; clients and the last count told to each | read, edit, wake, order; connect, announce, cut off | clients, every service that announces | edits on what has changed since; changes beside connections | nothing unseen is overwritten, no change is missed |
| Git commands, workspaces, surfaces, account usage, lookup, search, HTTP routing | little or none | reads, child processes, validation | | mostly I/O | not a matter of state |

`PROJECT.json` lists all of them with their sources and their status, and the
hazards at the lines where they bite.

## 2. Modules

| Module | Models | Uses |
|---|---|---|
| `RunnerStore` | the durable store; each request is one action | |
| `MCRunnerStore` | a run of it, with the history of who resumed a queue | `RunnerStore` |
| `RunnerStoreProofs` | theorems | `RunnerStore` |
| `ExecutionService`, `MCExecutionService` | pump, runs, Stop, shutdown, crash and restart; its bounds | extends `RunnerStore` |
| `TurnOrder` | abstract specification: what a user may rely on for the turns of a conversation | |
| `ExecutionServiceProofs` | theorems, and that the service is a client of the store | `ExecutionService`, lemmas of `RunnerStoreProofs` |
| `MaintenanceLease` | lease, probe, fence, and a worker and requests as the lease sees them | |
| `MaintenanceLeaseProofs` | theorems | `MaintenanceLease` |
| `GitCoordination` | the FIFO gates and their maps | |
| `GitSync`, `MCGitSync` | Git operations and the turns they share workspaces with | extends `GitCoordination` |
| `GitProofs` | theorems | `GitSync` |
| `Interactions`, `MCInteractions` | approvals and questions of a turn: services, rows, adapters, clients, the end of the turn | |
| `InteractionsProofs` | theorems | `Interactions` |
| `SteeringDelivery` | owner, handler and deliveries of the turns of a conversation, with the claims they take | |
| `CodexTurn`, `ClaudeTurn` | what each provider's protocol makes of the frames of a turn | |
| `ProcessTree` | ownership, walk, freeze and kill against an operating system that reuses numbers | |
| `InteractiveProcess`, `CliProcess` | one interactive invocation; one run of a command line with its output | |
| `ProviderProofs` | theorems | `SteeringDelivery`, `CodexTurn`, `ClaudeTurn`, `InteractiveProcess`, `ProcessTree`, `CliProcess`, `McpLogins`, `McpLoginProtocol` |
| `SubagentLifecycle` | the fold over the frames of a turn | |
| `ProjectClone` | clone worker, folders, rows and registration | |
| `McpLogins`, `McpLoginProtocol` | logins that replace each other; the conversation of one | |
| `McpDeviceSync`, `InstructionFiles` | what the runner writes into files of others | |
| `FileProofs` | theorems | `InstructionFiles`, `McpDeviceSync`, `ProjectClone`, `AttachmentStore`, `TurnCheckpoints`, `ArtifactCapture`, `ReadSlots` |
| `AttachmentStore`, `ReadSlots` | uploads in two stores; the slots of reads and downloads | |
| `ArtifactCapture`, `TurnCheckpoints` | snapshots of files; start and end commits of turns | |
| `Terminals`, `SpeechSlot`, `CommandCatalog`, `PortScans` | the pools and caches | |
| `StorageCalls` | the thread of the database and its callers | |
| `ChangeStream`, `ThreadMetadata` | what clients are told and what they edit | |
| `MCComponents` | one run of all from `SteeringDelivery` on | |
| `ComponentProofs` | theorems on the components not named above, and what holds of all of them in that run | `MCComponents`, `FileProofs`, `ProviderProofs` |

### RunnerStore

A task is a number of `Tasks`, its AUTOINCREMENT sequence. `status` is the
status of the payload, `root` the first task of its conversation, `latest` the
`latest_id` of the conversations row, `session` the conversations with a
provider session; `paused` and `resumed` are the columns `paused` and
`allow_terminal` of `pending_queues`, `message` and `claim` the rows of
`pending_messages` and `steering_messages`. A request that is refused, or that
replays an idempotency key, writes nothing and is a stuttering step.

`PromotePending` is the loop of `promotePending` in one step: which candidate
queues are visited is decided by the order of their head messages, a queue that
may not go on is paused on the way, an admission that is refused (quota, missing
attachment) is rolled back to its savepoint and pauses that queue, and the first
that is admitted ends the walk. `Refusals` chooses the refused ones; when no
sequence is left every admission is refused, which bounds the model.

`FinishTask` writes over a cancelled turn only for `process_cleanup_failed` of a
turn that ran; `CancelTask` pauses the queue even of a turn that has ended.

### ExecutionService

`pump` is the await point of `drain()`: `promoting` and `claiming` are requests
sent, `promoted` and `answered` are answers not yet looked at. The store may
change between the transaction and the handling of its answer, and so may the
flags (`closing`, the failure, the fence) that the code reads again.
`wakeRequested` is the field of that name; `wakeOwed` stands for a call of
`wake()` that is certain to come, from the continuation of a client's request or
from the `onOpen` announcement. `phase` is the await point of a run, with
`predecessors` the completions `launch` collected; `setup` stands for the Git
lease, the workspace, the instructions, the attachments and the start snapshot,
each of which may fail and after each of which the signal is read. `reaping` is
the snapshot of runs `close()` awaits. `ProcessEnds` is the end of the process
wherever it is, so that every crash point between two awaits is covered;
`Initialize` is the restart. With `StoreMayFail` a request of the pump or the last
write of a run fails, refused or done without being heard (a claimed row then has
no run), and a run may fail on any of its reads. The answer to a Stop is always
heard here; `Interactions` has the case where it is not.

A crash takes the provider's children with it in the model. In the code this is
the business of process ownership and of the service manager; it is listed under
provider processes.

### MaintenanceLease

`kind`, `holder`, `reservation`, `atStart` are the fields of the lease state;
`reservation` is the call whose reservation object the state is, since the code
compares objects. `due` is the clock having passed `expiresAt`, `timer` the
scheduled timer, `announcing` the queued microtask. Every question to the lease
opens an expired one first (`current()`): those steps wait for `LazilyExpires`,
which is the same as doing both at once, since nothing else reads the state in
between. The fenced side is one worker of the shape of the execution pump and
requests that count as in flight until their handler settles, may leave
background work behind, and may queue a row.

### GitCoordination and GitSync

A gate is an object with its own count and line; the map from lease key to gate is
separate (`gate`), because the code drops a gate from its map when nobody uses it and
a later user of the same key makes a new one. The line of a gate is a set, `waiters`,
with `ahead`, for each actor in it those before it: the next to be served is the one
with nobody ahead, and one that gives up leaves from the middle. `owned` is the object
an actor refers to, at each level, from before it waits until it has left. The await
points of a job and of a turn are in `at`; `workspace`, `project` and `network` are at
once the wait for a lease and the work inside it, told apart by `has`. Git commands
and their deadlines are steps that end either way. `fetched` are the projects fetched
within the coalescing time, which passes by `FetchAges`. When the map of operations is
full any completed operation may go, where the code drops the oldest: what is checked
does not depend on which. A Git job may overlap a cancelled turn that is still on its
way out: the code looks at the row, which is cancelled by then, and the model does the
same.

### Interactions

One turn and the requests its provider makes. `row` is the status column of a
request in its table, `gone` once `evictSettled` has dropped it; a decision
stands for `approved` or `denied` with its scope, or for the answers of a
question. `ask` is the await point of `ask()`: `creating` and `settling` are
requests sent, `created` and `refused` answers not yet looked at, `waiting` the
await of the waiter's promise, whose first settlement is `outcome`. `waiting` is
the map of waiters, `timer` the timer and the await points of `timeOut()`, `call`
an answer call of a client between its list request, its look at the waiters, its
answer request and the resolving of the waiter. `withdrawn` are the requests whose
adapter entry is settled or disposed, so that a reply is no longer written; for an
approval it is its abort signal too. `told` is what was written to the provider.
`stage` is `run()` from the provider on, with the expiry of questions and of
approvals in its `finally` as two requests.

The storage worker serves requests in order, and a request is one step. With
`StorageFails` a request may be refused without effect, and `StorageDies` is
`fail()` of the storage client: what the worker has done stays done, and every
caller that has no answer yet sees a failure (`lost` remembers whose). `Retained`
is 32 in the code; with 0 a settled row goes as soon as the next approval is
stored, so that every late step meets a row that is already gone. The 32
questions of a turn and the byte quotas appear as refused requests. A second open
question, and a question taken back, end the provider (`ProviderEnds`). The rows
of a turn that ended are settled by `questions.expire()` and
`interruptRunningTasks()` of the next process, in one step because nothing runs
between the two.

### The twenty-three components of MCComponents

They share no variable with each other or with the modules above: what they have
to do with the rest is a step of their environment (a store that fails or loses
an answer, a turn that ends, a user who edits). `MCComponents` therefore checks
them in one run in which `part` says which one takes all the steps of a
behaviour while the others keep their initial state; every behaviour of each
component is a behaviour of the run, and a component may be read, and proved
about, alone. Where one of several invariants of a conjunction such as
`SlotsAccountedFor` belongs to a component, its mutants are of that component.

Steering and provider. `SteeringDelivery`: `delivery` is the await point of
`steer()` with its message, `handler` numbers the handlers a provider registers,
so that one that was replaced while images were staged is another; `held` counts
the providers that have taken a message and is history. A provider that throws
may have taken it or not, and the claim stays. `ClaudeTurn` and `CodexTurn` take
each frame as one step in any order; `seen` and `steerReply` are history.
`InteractiveProcess` splits the await of each receiver of output, and `stuck` is
one that never returns.

`ProcessTree` is the one module whose environment is the operating system. Each
action of the walk is one system call: the look at `/proc/<pid>/stat`, the
signal that follows it, the list of the children, the look at a child, and so on
(`step` says which comes next). Between any two of them processes fork, end and
are reparented and numbers are used again; any of them may fail. A `SIGSTOP` is
first on its way (`stop`) and takes effect later, so that a process forks also after
its children were listed. What `signal()` cannot exclude is therefore in the
model: the process that gets the number between the look (line 37) and the signal
(line 38) is stopped or killed. Three history flags of a process say which of these
gaps it is in: `raced`, its number was handed out in that window; `lost`, no walk could
find it; `ours`, it descends from the provider. `StopsOnlyItsOwn` and `KillIsComplete`
hold up to these, that is, they say that the gaps are exactly those the comment at
lines 42-43 leaves to cgroups ("to narrow concurrent-fork races") and one more:
`visited` (line 54) is a set of numbers, so that an identity whose number was visited
under another one in the same walk is killed without its children being listed.

`CliProcess`: `offspring` are the processes a command has started, of its group, of
its tree, or out of reach of both ("lost", as in `ProcessTree`); a kill that does not
fail leaves the last kind, and a result without an error promises no more.

Files. `AttachmentStore`, `ArtifactCapture` and `ProjectClone` each have a file
system and a database that fail separately, with the answer of a commit lost;
a crash may come between any two steps and the restart does what the code does
then. `InstructionFiles` and `McpDeviceSync` share their files with editors, who
write at any step; texts are numbers, and a user's is not one the runner writes,
as the code compares by hash. `TurnCheckpoints` orders ref and record.

The author of an instruction file is history. A file that the runner found with the
text it is asked to write stays the user's in a shared checkout
(`instruction-workspace.ts:223` borrows it: "must never become ours to remove or
overwrite"). In a worktree the code records it in the manifest, so that a later call
replaces or removes it, as the tests want ("adopts matching files"); such a file has the
author "adopted" from then on, and `UserFilesKept` names it as an exception, of
worktrees alone, instead of counting it as the runner's. A file as Git has it is not a
user's in the first place.

`McpLogins` keeps the sessions as a set: logins are numbered as they begin, so the
order of the map in the code, which decides which one is forgotten, is that of the
numbers.

Pools and caches. A slot, a line and the callers' await points, so that an abort,
a deadline, a failure and a close meet each other and the grant. In `Terminals` the
`close()` of a shell may fail, which the code swallows (`terminal-service.ts:110`):
the shell then runs on without a terminal, and `unclosed` is the history of these.
`PortScans` gives back the slot of a scan that takes too long although it still
collects, as the code does.

`SubagentLifecycle` is a fold: each event of a frame is one step over the list
of entries, with the limits at 1 or 2 so that every list is full at once.
`NestedRoot`, which follows a nested agent to its root, is a recursive function.

## 3. Runs

| Run | Instance | Checks |
|---|---|---|
| `store` | 3 tasks, 2 messages, at most two conversations (`TwoConversations`), a session is reported while its turn is running (`RunningTurnsReport`); 0.76 million states | `Chain`: no two turns to run and no branch, whatever the order of continue, promote, queue and retry. `ClaimedNeverPromoted`, `FifoPromotion`: a message reaches one turn and in order. `StopHolds`: a queue goes on after a failed, stopped or interrupted turn only if it was resumed after that turn |
| `turns` | 3 turns of one conversation (`OneConversation`), no messages, 2 slots, 2 process starts, storage may fail; 1.5 million states | `OneRunPerConversation`, `RunningIsOwned`, `PoolHolds` (`BoundedPool`, `ClosedIsQuiet`), `StoppedNeverStarts`, and `TurnsInOrder`: the service implements `TurnOrder` |
| `service_live` | 2 turns of one conversation, 1 message, 2 slots, 1 start, storage does not fail, maintenance fence (with no message waiting while it is up: `LeaseBeforeMessages`), under `FairSpec`; 0.47 million states | `NoLostWakeup`, `StopReaps`, `CloseEnds` |
| `maintenance` | 2 ids, 3 prepare calls, 1 request, under `FairSpec`; 1.05 million states | `FenceHolds` (`GrantedWhileIdle`, `NoLostOpening`), `GrantsUnbroken`, `QueuedWorkRuns` |
| `git_leases` | 2 jobs, 1 turn, 3 workspaces (two in place) of one project, 7 gate objects; 1.7 million states | `LeasesSound` (`TypeOK`, `SlotsOwned`, `LeasesExclusive`), `TurnsAndGitApart` |
| `git_operations` | 3 jobs, 2 projects, 3 keys, room for 2 operations, shutdown, 7 gate objects; 1.2 million states | `OperationsKept` (`OneOperationPerKey`, `RetainsRunning`) |
| `git_live` | 2 jobs, 1 turn, 1 conversation, 7 gate objects, under `FairSpec`; 0.42 million states | `JobsEnd` |
| `interactions` | 2 approvals with room for one pending and none retained, 2 answer calls, 2 decisions; 1.55 million states | `PromptsSound`: a prompt does not outlive its turn (`PendingWhileRunning`) nor the `ask()` behind it (`PendingIsOwned`), and whichever of timer, answers, cancel, Stop, end and crash comes first, the provider is told what the row says (`ToldAsRecorded`) |
| `interactions_live` | 1 approval, 1 question, 1 answer call, storage may fail and die, under `FairSpec`; 0.39 million states | `AnswersReach`, `RequestsEnd` |
| `components` | the twenty-three modules above at the values of `MCComponents.cfg`; 1.1 million states | of steering `DeliveredOnce`, `FilesOutliveDelivery`; of the processes `StopsOnlyItsOwn`, `KillIsComplete`, `InvocationSound`; of the protocols `EndsWithWorkDone`, `CodexFrames`; `SubagentRecords`, `Tombstones`; `ClonedFolders`; `LoginsSound`; `SyncSound`, `RemovesOnlyItsOwn`; `FilesAccountedFor`, `UserFilesKept`; `SlotsAccountedFor`; `AnswersTrue`; and `ComponentsTypeOK`, one type invariant for all |
| `artifacts_lost` | `ArtifactCapture` alone | a finding: `SnapshotsAvailable` is violated, see below |
| `queue_held` | `ExecutionService`, 3 tasks, 2 messages, 1 slot, 1 start, two conversations (`TwoQueues`) | a finding: `QueuesMoveOn` is violated, see below |

The types of the store, the service, the lease and the interactions are proved
(section 4), and the runs spend no property on them.

The findings. `ArtifactService` removes a blob when `putArtifact` throws. It also
throws when the storage worker died, or was terminated by its deadline, after it
committed and before it answered. The row is there after the restart, is listed,
and cannot be read, while `docs/api.md:487` says that snapshots "remain available
after restart or worktree deletion". `FileAttachmentStore` looks its row up first
for that very reason. What holds instead, that the slot, the line and the blobs
that do have rows are accounted for, is checked in `components`.

`promotePending` promotes the head of one queue. When that turn is stopped before
`claimNextTask` reaches it, `drain()` claims nothing and returns
(`execution-service.ts:260`), and `cancel()`, which finds no run to abort, calls no
`wake()`. A message of another conversation, whose last turn succeeded, then stays
queued in an idle runner until some other request wakes the pump, while
`docs/api.md:469` says that such a message is promoted. `NoLostWakeup` is stated with
that one exception (`Overtaken`), and proved so.

Why the bounds are enough. The rules of the store compare a turn with its predecessor,
with the latest turn and with another conversation: three tasks give a chain of three
or a chain of two beside another conversation, two messages give an order and a
message claimed beside one waiting. The runs of the service interact through
predecessors, so three turns of one conversation with two slots have one reaped, one
waiting and one behind both, and two starts have a crash at every point and what
follows it (`turns`). What `service_live` asks, that what has begun ends and what
waits is seen, concerns one turn with one that waits behind it, a message and a fence.
The lease needs two ids to be confused and three calls to have one reserved, opened
and reserved again under a slow probe. The gates need a holder, a waiter and one that
comes after the gate is dropped. A request is raced by its timer, by an answer and its
repetition or contradiction, and by the end of its turn: two calls and two decisions
give these, a second approval gives the limit and the eviction. The theorems of
section 4 hold for all values of these bounds.

In `components` a pool has one or two slots, a line of one or two and one caller
more than both hold, so that a slot is granted, somebody waits and somebody is
refused. Every cache, map and list has its limit within reach (`AttachmentLimit`,
`ChildLimit`, `ExcludedLimit`, `CachedScopes`, ...), and each restart counter
allows one crash and what follows it (`CloneRestarts`, `UploadRestarts`, ...).
Three numbers and four jiffies (`JiffyLimit`: each process that starts and each call
of the walk that fails takes one, the root the first) have a number used again while
it is owned, while it is looked at, and between that look and the signal, or a fork
past a listing and a failing signal; `OwnedLimit` = 3 is reached by the root and two
numbers of which one is used again. Two edits of users (`EditLimit`) have a file
adopted and edited, or edited twice. Two messages steered directly and one
queued, with two handlers in each of two turns, have a delivery outlive its handler
and its turn.
`Statuses` bounds what task frames tell: a stopped task is left out of the run,
the state it leads to is reached by the activity of threads.
The bounds that are not limits of the code are `MaxTurns`, `MaxHandlers`,
`JiffyLimit`, `MaxResults`, `MaxPolls`, `MaxSubmissions`, `MaxSyncs`, `Chunks`,
`PiecesWritten`, `EditLimit`, `CatalogTicks`, `ScanTicks`, `LastRevision`,
`Epochs`, `FinalRevision` and `Times`: each stops a counter or the environment.

Fairness. `ExecutionService`: the event loop delivers what is owed and the
storage worker answers (`PumpAdvances`, `DeliverWake`); the steps of a run go on,
because setup has deadlines; a provider ends only when aborted, since its process
tree is then killed. No client has to call, no provider has to end by itself and
nobody has to restart the process. `MaintenanceLease`: the clock and timers, the
microtask queue and the worker go on; nobody has to renew, release or ask.
`GitSync`: Git commands have deadlines and provider turns end; a wait is never
assumed to time out, so `JobsEnd` shows that the order of the leases alone is
free of deadlock. `Interactions`: timers fire, storage answers (if only with a
failure) and the event loop goes on; clients need not answer and providers need
not end. `RequestsEnd` has one exception, found by TLC: storage that dies after it
stored a Stop or an answer and before it said so. The row is no longer pending,
so that the timer leaves it alone, and nobody aborts the run or resolves the
waiter; the approval then lasts until the execution timeout of the provider
(`interactive-process.ts`). `InvocationFairness`: a killed child exits, what is in
the pipe is read, it closes, the deadline of the invocation comes (`Interrupted`)
and the promise resolves; neither the child nor a receiver of output has to end by
itself. Liveness runs use no symmetry.

Every property of a run has a mutant: a definition next to the one it changes,
commented `Mutant:`, that the property catches under the same configuration.
They say what the property is worth: `ConfirmsById` compares lease ids where the
code compares reservation objects, `LeaveForgets` drops a gate while others hold
it, `CloseSnapshotsAtOnce` does not wait for the pump, `ChecksThreadEarly` trusts
the check made before the lease, `TimeoutRowOrGiveUp` takes a failed timeout
request for no transition. `IsChildByNumber` compares process numbers without
start times, `HandlerEndsRetried` releases a message whose delivery failed,
`RunStepUnguarded` follows a plan without a second look, `ReadThrowsAlone` forgets
the slot of a read that fails, `ConnectsUntold` sends a new client nothing.

## 4. Theorems

Proved by TLAPS for all values of the constants. Every safety invariant and every
action property that a passing run checks is proved; 60 results are listed in
`PROJECT.json`, and the lemmas under them are in the same eight modules. A proof that
a step keeps an invariant has one lemma or step per operation.

The assumptions are those named next to the constants they are about, in each module,
and TLC evaluates them in the runs. Most say that a limit is a number
and that identifiers are numbers or are not one of the strings that stand for
"none". The ones that say more, and what in the code they stand for:

* `ConcurrencyAssumption`, `NetworkAssumption`, `OperationsAssumption`,
  `LoginAssumption`, `CatalogAssumption`, `PortAssumption`: limits the code gives as
  positive numbers, among them the lifetimes of what is cached, are positive.
* `GatesAssumption`: finitely many actors, and more gate objects than they can refer
  to, since the code can always allocate one.
* `KeysAssumption`: the lease key of a workspace is not that of a project.
* `WatchersAssumption` and `MetadataAssumption`: clients and conversations are
  finitely many; what is counted is those connected and those reordered.
* `InstructionAssumption` and `AttachmentAssumption`: a user's text is not one the
  runner writes, and contents are not the marks of a row that is gone.
* `LifecycleAssumption`: an agent's task is not a shell, and no name is the mark of
  an absent one.

### The store (`RunnerStoreProofs`)

`Chain` is the conjunction of four invariants. Alone, `OneLiveTurn` is not inductive:
`QueueTask` makes a draft live, so a draft must be the latest of a conversation of its
own (`UnstartedAlone`), and a continuation takes an unused number, which must be
larger than every number in use to keep `LatestIsNewest` (`SequencesInOrder`).

`ClaimedNeverPromoted` needs `MessageInv`: a message that was not dispatched has no
turn, a claim names a turn that exists, and a queue belongs to a conversation that is
there, so that the turn a promotion makes is a new one that no claim can name.
`FifoPromotion` follows from types and from `Head` being a least element.

`StopHolds` is about the past: a history variable of `MCRunnerStore` says for which
turn a queue was resumed. `GrantInv` says that a resumed queue was resumed for its
latest turn or that this turn is going or went well (`ResumesKept` is what a step may do
to that). It is proved of `GrantSpec`, the store under any client, without the
restriction of the run on when sessions are reported.

### The service (`ExecutionServiceProofs`)

* `UsesStore`: every step of the service is a step of the store or leaves it
  unchanged, so that the store's theorems hold of it.
* `OneRunAtATime` from `RunInv`: of two active runs of a conversation one waits behind
  the other, a run that works has none ahead, a turn is launched at most once and
  only after it was claimed, and a result is known when it is recorded.
* `PoolNeverOverrun` from `PumpInPool` (the pump works only while a slot is free and
  holds at most one claimed turn, between claim and launch) and `ClosesInOrder`
  (what `close()` waits for is all there is).
* `RunningOwned`: what is running is claimed or has a run that will record an end,
  step by step of a run.
* `StopsHold` from `StopsReachSetup`: a run being set up has the signal, or a row that
  is still running, or a Stop that has not been answered.
* `ImplementsTurnOrder`: the service implements `TurnOrder`. From `RanOnce` and
  `InOrder`: what was claimed is never claimed again, and what is claimed or has not
  begun is newer than all that has begun in its conversation. Every step maps to a
  step of `TurnOrder` or a stutter.
* `WakeupsHeard`: `NoLostWakeup` says nothing of what the pump knows on its way to
  rest. `LookedAt` does: after the answer to `promotePending` no message is left that
  could be promoted, except behind the promoted turn; after an empty claim no queued
  turn either; and whatever changes this in between owes a wake.

### The maintenance lease (`MaintenanceLeaseProofs`)

`LeaseFenceHolds` and `LeaseGrantsUnbroken` from `LeaseInv`: while a reservation stands
unbroken, what its probe has seen so far is true and stays true, because the fence is
up (`ProbeSeesTruth`, `ReservationUnbroken`), and a reservation object belongs to one
call (`ReservedOnce`).

### Git (`GitProofs`)

`LeasesStaySound` from `LeaseInv` and `ActorInv`. The slots of a gate are counted by
those who hold it and nobody waits beside room (`SlotsCounted`); a line is a linear
order of those who wait (`Lines`, `Ordered`); an object belongs to one level, and in
the map to one key (`LevelsApart`); the map has the gate of everybody who uses one
(`Mapped`), which is why two holders of a key hold the same object, and why a gate
may be dropped only by the last. `ActorInv` says what an actor has at each await
point. `GitStaysApart` adds `ClearedAlone`: a job that has found no live turn keeps
every later one out of its workspace from the moment it looked.
`OperationsStayKept` is from `OperationsInv`.

### Approvals and questions (`InteractionsProofs`)

`InteractionsSound` from `StoredInv`. What was told is right because what settles a
waiter was stored before (`OutcomeStored`), which in turn needs the calls and timers
that are about to settle it to hold a stored decision or timeout (`AnswerStored`,
`TimeoutStored`), and the rows that are settled never to change except by eviction.
`Begins` and `Withdrawn` say that a request that has not begun has no row and that an
ended provider hears of nothing.

### Steering and providers (`ProviderProofs`)

* `DeliveredOnceHolds`, `FilesOutliveDeliveryHolds` from `DeliveryInv`: the claim of
  the message under way stands until its outcome is known (`ClaimStands`), and no
  provider has it before the handler is called; without this a second delivery of the
  same message could not be excluded.
* `CodexFramesHold`: a turn of a child that ended stays known, since the turns that
  ended are among those seen, and that is what refuses to start it again.
* `EndsWithWorkDoneHolds` from `ClaudeInv`: what the record of a command says, the CLI
  has said (`WorkKnown`), so that a command that was acknowledged leaves the map only
  when it is done with (`WorkDone`).
* `StopsOnlyItsOwnHolds` from `TreeInv`: start times are handed out in order
  (`Clocked`, `NumbersGrow`), so that an identity that is current names one process;
  what is owned descends from the provider (`OwnedAreOurs`), because a child that is
  looked at while its parent is still the same process is a child (`Lineage`,
  `CandidateIsOurs`); what a signal under way reaches is that process or a late comer
  (`SendReaches`); what is frozen is owned (`FrozenKnown`) and will be signalled
  (`SignalsAll`).
* `KillIsCompleteHolds` from `KillInv`: while a walk to kill has not failed, each
  owned process is still before it, or the walk is at it, or it was sent a `SIGSTOP`
  and its children are owned, in hand or lost, or another process of its number was
  visited (`Covered`, `Handled`, `ChildrenOwned`); a living descendant without a
  parent is known or lost (`OrphansKnown`).
* `FirstResultStandsHolds`, the safety half of `InvocationSound`.
* `ResultTellsAllHolds` from `CliInv`: until something fails, every piece taken from
  the pipe of a child is stored, in order, or is the one held back of its channel; of
  the processes a resolved run started only those no kill could find are left.
* `VerdictIsOwnHolds` from `ConversationInv`: of the polls that are read after the
  callback was accepted only the last one asked may be older than it (`PollsFresh`).
  `OneLoginProcessHolds` from `LoginsInv`: sessions begin in the order of their
  numbers, and one attempts only when all before it have settled
  (`OneAfterAnother`).

### Files (`FileProofs`)

The lemmas on lines come first: `LineUp` says that a line names each waiter once,
which appending a newcomer, taking the head and removing from the middle keep.

* `UserFilesKeptHolds` from `FilesInv`: the text of a user's file is on no record
  (`Unrecorded`), between its look and its journal a call knows only of files
  that are not a user's or are as asked (`Observed`, `Journaled`), and only in a
  worktree is one adopted (`AdoptedInWorktree`).
* `RemovesOnlyItsOwnHolds`, `SyncSoundHolds` from `SyncInv`: a plan owns and removes
  only what was asked for or owned before (`PlanSound`), and a run under way is that
  of the slot (`RunsSound`), so that nothing of a request that timed out is left
  beside the next.
* `ClonedFoldersHold` from `CloneInv`: the worker has one call in the channel, the one
  it awaits (`ChannelSound`); from the copy on the folder of its job is its own
  (`WorkerSound`); a registration has looked at a folder that is not the worker's
  (`RegistrationSound`); and when the worker knows of a project in its folder it
  knows whose it is (`ProjectsSound`), also when the answer of the commit was lost.
* `InstructionRecordsHold` from `RecordsInv`: a file that is the runner's, or that
  nobody else edited, is as the call in hand has seen it (`CallSound`).
* `RowsHaveBlobsHolds` from `AttachInv`: one publication at a time, and only blobs of
  rows that are gone are being discarded (`DiscardsGone`).
* `CheckpointsKeptHolds` from `CheckpointInv`: apart from the call in hand no ref is
  without its record (`RecordsNameRefs`, `StepSound`).
* `CaptureSlotOwnedHolds`, `ReadSlotsOwnedHolds`: slots are held by those under way and
  by nobody twice, and a slot is free only when nobody waits. `BytesInv`: the account
  is never below the blobs that have a row or are on their way to one.

### Pools, clients, subagents, and all together (`ComponentProofs`)

* `ShellsOwnedHolds`, `SpeechSlotOwnedHolds`, `CatalogsServedHolds`, `ScansSharedHolds`:
  as for the slots of files, and nobody is given a catalog or a list of ports that is
  too old. A shell without a terminal is one whose own `close()` failed.
* `CallersToldTheTruthHolds` from `CallsInv`: a change that is being answered as done
  is stored (`MadeBefore`), `close` comes last on both ways (`CloseLast`), and a request
  that waits has been posted or answered as long as the worker lives (`WaitingKnown`).
* `EditsOnWhatWasSeenHolds`: every change of a row raises its revision (`Dated`).
  `ChangesReachWatchersHold`: who is connected has been told of, or is being sent, the
  last change.
* `SubagentRecordsHold` and `TombstonesHold` from `LifecycleInv`: no two entries share
  an alias (`Apart`) or an identifier, which merging, evicting and setting an alias
  keep; a failed entry is carried over by each of these (`CarriesOver`,
  `FailureKept`).

The invariants of `MCComponents` are conjunctions over components. `ComponentSteps`
shows that a step of the run is one of the component that runs and a stutter of all
others, so that a behaviour of the run is one of each component, and the theorems
above give `SlotsAccountedForHolds`, `AnswersTrueHolds`, `FilesAccountedForHolds`,
`LoginsSoundHolds` and, with the type invariant of each of the twenty-three,
`ComponentsTypeOKHolds`. Several types are not inductive by themselves: that a number
of attempts, a rank or a list stays within its bound needs the invariant of the
component (`ProtocolBounded`, `PlacedKeepsLength`, `UploadsBounded`, ...).

### Only model-checked

The liveness properties `StopReaps`, `CloseEnds`, `QueuedWorkRuns`, `AnswersReach`,
`RequestsEnd`, `JobsEnd`, and `InvocationEnds`, the other half of `InvocationSound`:
fairness and ENABLED are out of the prover's reach. So is what a recursive definition
computes for every input: the theorems use of `NestedRoot` only that it is a value.
Where a definition was opaque to the prover the model says the same in another form:
a waiter is taken from a line with `RemoveAt` or `RemoveFirst` instead of
`SelectSeq`, and the lines of the Git gates and the sessions of logins are sets with
an order.

## 5. Not modelled

Projects, output and event rows, quotas (they appear as refusals), steering keys
of messages sent directly to a turn, the recovery of sessions of an older
schema, and replays of idempotency keys (they write nothing). Of the provider
side: the parsing and the contents of frames, how a program is found and pinned,
the process group signalled besides the tree. Of the files: formats, chunks and
temporary files. The listing of MCP servers and the usage of accounts are caches
of the kind of `CommandCatalog`. Git commands, workspaces, surfaces, lookup and
search are child processes and reads without state of their own: other modules
see them as steps that may fail. `PROJECT.json` gives the reason for each.

Met while modelling, and left as they are: no document of the repository says
otherwise, and the models do what the code does.

* `interactive-process.ts:132`: when killing the process tree failed and a child
  keeps the pipes open, the drain that is to end an invocation in spite of a stuck
  receiver does not begin, since it waits for `close`. `InvocationEnds` assumes a
  killed child.
* `project-clone-service.ts:65`: when the look at the row fails, `active` stays set
  until the next clone has run; until then the runner counts as working, so that
  no maintenance lease is granted, and the destination as reserved.
* `application/mcp-device-sync.ts`: a crash after a step and before the ledger is
  saved leaves an entry that is nobody's; the next synchronization of the same
  launch adopts it, any other leaves it alone.
* `port-preview-service.ts`: collections that have timed out may outnumber the
  slots; the bound is one of scans that are waited for.
* `linux-process-tree.ts:57`: `visited` is keyed by the number alone. When a number is
  visited, its process ends and another descendant gets it and is adopted in the same
  walk, that one is neither stopped nor are its children listed; it is killed, and
  children it has then outlive the kill.
* `subagent-lifecycle.ts`: an alias that a full entry cannot keep is overwritten
  by the next of its kind.

## 6. Plan

Done: the store, the execution service over it and its abstract specification,
the maintenance lease, Git coordination and operations, approvals and questions,
the twenty-three components, and the theorems above. What would add most next:

1. Composition: `SteeringDelivery` over `RunnerStore`, whose claims it now has as
   rows of its own; `InteractiveProcess` over `ProcessTree`; `ArtifactCapture` and
   `AttachmentStore` over `StorageCalls`.
2. Proofs across components: that these compositions refine their parts, as
   `ExecutionService` refines `TurnOrder` and uses the store. Within a component
   every safety property that a run checks is proved.
3. The formats of frames where their limits matter: uploads in chunks, output
   that is cut, spawn batches of subagents.
4. What is least covered: the listing and probing of MCP servers, the approvals
   of the Codex protocol, the Git commands of a synchronization.
