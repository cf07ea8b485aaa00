# CoDuels backend: a verification project

TLA+ models of the CoDuels backend, TLC configurations that check them on small
instances, and TLAPS proofs of what they promise for every instance. All paths
below are relative to the repository's root (`src/...`).

1. [The system](#the-system) - inventory of components
2. [The modules](#the-modules) - what models what
3. [The runs](#the-runs) - what TLC checks, on which instances, and why they suffice
4. [The proofs](#the-proofs) - what TLAPS proves, and along which argument
5. [Where the code does not do what it says](#where-the-code-does-not-do-what-it-says)
6. [What is not modelled](#what-is-not-modelled)
7. [The plan](#the-plan)

## The system

Three services. **Duely** (C#) makes duels and takes submissions from users,
**Taski** (Go) knows the tasks and turns a submission into a list of steps, and
**Exesh** (Go) executes lists of steps: a coordinator schedules them, workers
run them.

    user -> Duely --POST /test--> Taski --POST /execute--> Exesh coordinator
                                                              | jobs
                                                              v
            Duely <----- status messages (no consumer yet) -- workers

| component | state | operations | interacts with | what is hard | what makes it correct |
|---|---|---|---|---|---|
| Exesh execute API, codec (`internal/api/execute`, `usecase/execute`, `domain/execution/steps`, `sources`) | - | decode, refuse duplicate names, insert an execution | inserts rows the scheduler reads | codec and `getDependencies` must agree on the Go types | what is accepted can be worked off; every step whose output is read is a dependency |
| Exesh graph (`domain/execution/graph.go`) | order, `lastPickedStep`, `doneSteps` | `newGraph`, `pickSteps`, `doneStep`, `isDone` | shared by all callbacks of an execution, under a mutex | a prefix of an order is handed out, so the order must be topological | order, no step is skipped, everything is worked off |
| Exesh execution scheduler (`scheduler/execution_scheduler.go`, `context.go`, `storage/postgres`) | `nowExecutions`, the maps of `execution.Context`, the table `Executions` | the loop and its transaction, `scheduleGraph`, `scheduleStep`, callbacks, `doneStep` | graph, job factory, job scheduler, messages, PostgreSQL, other coordinators | callbacks race each other and the loop; failures on every path; commit after side effects; restarts; retries | a job only after its dependencies, each step handed out once, none forgotten, the limit kept, no double start, finish means finished |
| Exesh job factory (`factory/job_factory.go`) | files written for inline sources | `Create`, `createInput`, `calculateID` | jobs map, artifact registry, input provider | looks up jobs another goroutine records; ids are hashes of contents without the step's type; calls share a bucket | a job is made unless something failed; inputs of a job are available |
| Exesh providers (`provider/`) | locks and reservations in the file storage | `Create`, `Locate`, `Read`, `Reserve` | file storage (external library) | every path must unlock | no lock outlives its use |
| Exesh executors (`executor/executors`) | - | run one job: locate inputs, create output, run a command, commit | providers | failure between create and commit; the compiler's output committed before it is written; two jobs with one id | inputs stay while a command runs; success means a whole artifact |
| Exesh job scheduler, message factory and sender, artifact registry | - | stubs | scheduler | - | their contract (below) |
| Taski testing (`usecase/testing`, `api/testing`, `storage/postgres`) | table of solutions | `Test`: build steps, call Exesh, insert | Duely, Exesh | a remote call inside a transaction | one execution per solution, and it is recorded |
| Taski tasks (`storage/filestorage`, `usecase/task`, `api/task`) | locks on task buckets | `Get`, `GetFile` | file storage | unlock on every path | no lock outlives its request |
| Duely submissions (`UseCases/Submissions`, `Gateway.Tasks`) | table of submissions | send, update status | Taski, messages | save, then call; messages lost, repeated, reordered, with different verdicts; two handlers on one row | a verdict is lost by no message; in order, a submission goes on to done with the verdict reported |
| Duely duel making (`Domain.Services`, `BackgroundJobs`) | the waiting pool | join, pair, create a duel | requests and a background job share a queue | no lock | nobody waits twice, is paired with himself or lost |
| configuration, entry points, wiring, migrations | - | start and stop | - | - | - |

The repository has no tests and no documents: the reference is the code, its
log lines, error texts, constants, names and SQL.

## The modules

| module | models |
|---|---|
| `ExecutionScheduler` | the coordinator: loop, transaction, callbacks, table, crash and restart |
| `StepDispatch` | what an attempt at an execution promises, abstractly |
| `SchedulerRefinement` | the refinement mapping from the first to the second |
| `MCExecutionScheduler` | instances for TLC |
| `ExecutionSchedulerProofs`, `SchedulerRefinementProofs`, `RestartProofs` | proofs about the scheduler |
| `Steps` | the codec of steps and sources, `getDependencies`, what the API accepts |
| `TopSort` | what `newGraph` computes, as a recursive function |
| `GraphSearch` | `newGraph` as it runs: the loops of `topSort` and `dfs`, call by call |
| `ExecutionGraph`, `MCExecutionGraph`, `ExecutionGraphProofs` | the graph of one execution, its instances, and proofs |
| `Workers`, `MCWorkers`, `WorkersProofs` | executors, providers and the file storage of each worker, an instance, and proofs |
| `JobFactory`, `MCJobFactory`, `JobFactoryProofs` | the coordinator makes jobs of steps over its own file storage, an instance, and proofs |
| `TestingSteps` | Taski's `CreateTestingSteps`: the list of steps for a task and a language |
| `Taski` | Taski's requests: test, get a task, get a file; the solutions table |
| `Duely` | Duely's submissions: send, update by messages; the submissions table |
| `SubmissionLife` | what Duely promises of a submission, abstractly |
| `DuelMaking`, `DuelMakingProofs` | Duely's waiting pool and the job that pairs users, and proofs |
| `Platform`, `MCPlatform`, `PlatformProofs` | Duely and Taski composed, an instance, and proofs |

### ExecutionScheduler

An iteration of the loop that gets as far as sending the start message makes an
*attempt*: one `execution.Context` with its graph, its maps and its callbacks.
An execution that is retried, or scheduled again after a failed commit or a
restart, has several. The threads of an attempt are the loop's goroutine while
it is in `scheduleGraph` (thread `Root`) and, for every step, the callback of
the step's job.

| state | code |
|---|---|
| `status`, `stale` | columns `status` and `scheduled_at < now - ExecutionRetryAfter` of `Executions` |
| `loop[c]`, `txExec[c]`, `txAttempt[c]` | where `runExecutionScheduler` is, the row its transaction holds, the attempt it schedules |
| `nowExecutions[c]` | the field |
| `picked[a]`, `done[a]` | `lastPickedStep + 1` and `doneSteps` of the graph |
| `jobs[a]` | the keys of `jobByStepName` |
| `pc[a][t]`, `next[a][t]`, `last[a][t]` | where goroutine t is, and its position in the slice that `PickSteps` gave it |
| `finishes[a]` | finish messages sent |

| action | code (`scheduler/execution_scheduler.go` if no file is named) |
|---|---|
| `Execute` | `UseCase.Execute`: insert a new row |
| `Tick` | lines 91-108: the ticker, and the test whether a slot is free |
| `BeginTx`, `BeginTxFails` | lines 110-111: `UnitOfWork.Do` begins a transaction, `changeNowExecutions(+1)`; or it cannot begin one |
| `SelectNone`, `Select` | `GetForSchedule`, `FOR UPDATE` |
| `AbortScheduling` | lines 126-139: the error paths before the start message is out |
| `StartExecution` | `SetScheduled`, `Update`, `BuildContext`, start message |
| `PickSteps` | `graph.pickSteps`, one critical section |
| `CreateJob`, `DropStep` | `scheduleStep` up to `Schedule`: the job is handed over, or the error is logged |
| `RecordJob` | `ScheduledStep`, after `Schedule`, without a lock |
| `ReportResult`, `LoseResult` | the callback up to `doneStep`: the message is sent, or it returns early (or never runs) |
| `DoneStep`, `CheckDone`, `SendFinish`, `LoseFinish` | `doneStep`, one action per critical section or message |
| `Commit`, `CommitFails` | the end of `UnitOfWork.Do`; a failed commit leaves either value in the row |
| `CrashRestart` | the process ends and starts again; everything in memory is gone |
| `RetryAfterElapses` | the clock |

Steps are numbered by their position in `topSortOrder`. `Deps` is what
`GetDependencies()` returns and `Inputs` the steps whose output a step reads.
In the code as it is the first is **always empty** for a decoded step (see
`DependenciesSeen` below), so its instances are those with `Deps = {}`:
execution 2 of `SchedulerFaults` is one, and so are those of `FinishMeansDone` and
`FullMeansBusy`. The other instances give `Deps` what the request declares, which is
what the scheduler is written for; `Deps` is a parameter and the proofs hold for both.
The races of callbacks that pick steps (`SchedulerRace`) are those of the scheduler with
dependencies: as decoded, `scheduleGraph` picks every step itself. `MCExecutionScheduler` computes the
graphs with `Steps` and `TopSort` and compares (`GraphsAreBuilt`).

The job scheduler, the message factory and sender, and the artifact registry
are stubs in the source (an empty body, or "not implemented"). They are taken by the
contract their interfaces and their callers imply: `Schedule` takes the
callback and runs it at most once, at any later time, even before it returns;
a message is sent or an error returned; an artifact can be found once its job
has answered.

A step is not split further than the code's critical sections and calls: the
two error returns before and after a failing call that leave the same state are
one action. A write to the unlocked maps while another thread writes them may
be lost (`RecordJob`); the other outcome of that race, the runtime's fatal
error, is `CrashRestart`.

The statement `SELECT ... LIMIT 1 FOR UPDATE` waits for the one row it chose and
looks again when it has the lock; if the row is due no longer it returns none.
`SelectNone` allows that outcome as soon as the row is seen locked.

### Steps, TopSort, GraphSearch, ExecutionGraph

`Steps` keeps of a Go value what the code's type assertions see: the `form` of a
source is a pointer or a value. `TopSort` is what `newGraph` computes, the loops of `topSort`
and `dfs` as one recursive function over searches (what is used, the order so far, the steps the loop has
still to look at, which it takes last to first), then the reversal; the
scheduler's instances compute their graphs with it. `GraphSearch` is the same code as a walk: `calls` is the stack of
`dfs`, `remaining[i]` how far the loop of step i (or of `topSort`, `Root`) has come, `Visit` the next step of
the innermost loop, which is passed over or entered, `Return` the append at the end of a call. Steps
are their positions in the list, since names are unique. That the two agree is
`OrderAsComputed`, compared by TLC and proved for all lists.
`ExecutionGraph` has the walk, its reversal (`NewGraph`) and then `pickSteps` and `doneStep`, and
states what the order is good for by definitions that do not walk a
graph (a set of steps each waiting for another one in the set is a cycle).

### Workers

A *call* is one call of `JobExecutor.Execute`; its job and its worker are
constants. Its `pc` names the provider call it makes next; Locate and Read of an input are two
steps (download, then lock), since the bucket may expire in between.

| state | code |
|---|---|
| `file[w][<<b, n>>]` | file n of bucket b in w's storage: absent, reserved by `Create`, visible but unfinished, or whole |
| `locks` | the unlock functions nobody has called yet, by call and input (0 for the output) |
| `deferred[c]` | those whose call is deferred until `Execute` returns |
| `result[c]` | the status or error it has returned |

The file storage is a library outside the repository, taken as the providers use
it: a bucket that exists cannot be created, nor a file in it that exists or is being created; a
bucket with a file that can be seen takes another one (`Create` makes the file when it cannot make the bucket);
what is created is invisible until commit and gone after abort; a download brings what can be seen of a bucket at its
source, does nothing if the bucket is there, and fails if it is not visible at its source;
`GetFile` locks the bucket until unlock is called; a bucket expires at its trash time
unless a file of it is locked or being created. What is downloaded from `Endpoint` (the storage of the tasks' files) is whole.

Two jobs have the same id if their contents and attributes, one after the other, agree: the hash leaves out
the step's type. One text run as Python and as Go is one id, and two calls make one file. A compilation and a
check hash the same attributes (none), so they may share an id too: then one bucket holds a `bin` and a `verdict`.
Ids are therefore parameters, and nothing is assumed about who shares them. That
`artifactRegistry.GetWorker` (a stub) finds a worker only when a job of that id has answered there is its contract (`Begin`).

The three run executors differ in the command only and share `Run`; a check
differs in what becomes of a failed command (`FailedOutput`) and in reading the verdict back.
`g++` needs a path, so the compiler's output is committed *before* it is
written (`CommitEmpty`); the model keeps that as the state "unfinished".

### JobFactory

A *call* is one call of `JobFactory.Create` for a step; its sources and the failures
it may meet are constants. It first makes an input of each source, then reads all
of them for the hash. What they hold, and the hash, are left out: what it means that jobs share an
id is in `Workers`.

| state | code |
|---|---|
| `bucket[b]`, `files[b]` | bucket b in the coordinator's storage: absent, in creation, or there with its visible files |
| `reserved[c]` | what call c has created and not committed: a bucket, or a file in one |
| `locks` | the unlock functions nobody has called yet |
| `pc[c]`, `input[c]` | the call it makes next, and for which source |
| `copy[w]`, `held[w]`, `missed` | what worker w has downloaded, and the inputs it could not find |

| action | code |
|---|---|
| `Begin` | `JobFactory.Create` is called |
| `OtherStep`, `BucketSource`, `LocateFile`, `Unlock` | `createInput` of an output of another step; of a file of a task, `Locate` and unlock |
| `Create`, `Write`, `Commit` | `createInput` of an inline source, with its three error paths |
| `Read`, `Open`, `ReadAll` | `calculateID`, per input |
| `Expire` | the trash time of a bucket nobody uses |
| `Fetch`, `ExpireCopy` | a worker locates an input of a job it was given, and its copy expires |

All inline sources of an execution share the bucket of the execution: the first one
creates it and the others create files in it, so what an abort takes back depends on
which of the two it was.

### Taski, TestingSteps

| state | code |
|---|---|
| `at[r]` | where the handler of request r is |
| `taskLocks` | requests whose `unlock` of the task's bucket was not called |
| `solutions` | rows of `Solutions`; the id is the primary key |
| `executions` | requests whose steps Exesh has accepted |

`BeginTest` to `Commit` are `UseCase.Test` within `UnitOfWork.Do`, one action per call;
`ReadTask` and `AnswerReader` the two readers. An insert of an id that another
open transaction has inserted waits (`KeyHeld`, PostgreSQL's unique index).
Exesh's answer is taken from `Steps`: `Executable` are the requests whose list of
steps the execute API accepts. `TestingSteps` builds these lists: the compile, run and check steps that a task and
a language get, with the source that is null when nothing was run, and the wrong type of `NewRunPyStep`.

### Duely, SubmissionLife

| state | code |
|---|---|
| `row[s]` | columns `Status` and `Verdict` of `Submissions` |
| `send[s]` | where `SendSubmissionHandler` is |
| `handler[h]` | the message one `UpdateSubmissionStatusHandler` is at, with its outcome (a verdict, an error or none), and the row as it read it |
| `seen`, `reported`, `disordered` | history: the last message handled, what the last finish reports, and who got a message late |

Each handler has a `Context` of its own; `SaveChangesAsync` writes the columns
that differ from what it read (`Updated`), which is Entity Framework's change tracking and
decides what two handlers on one row do to each other. No service sends these
messages yet, so they come in any order, any number of times, or never, and each finish with a verdict of its
own: a retried execution may report another one, which replaces the one that is saved (`Set`).

### DuelMaking

`DuelManager` is a singleton with a `Queue<string>` and no lock. .NET promises
nothing for concurrent calls, so the queue is modelled down to the accesses
its methods make (slot, tail, size; slot, head, size), and an increment that another one
interrupts may be lost. `overlapped` remembers that two calls met.

### Platform

Composes the three over one state: `TaskiClient` posts a submission
(`TaskiClientSends`), Taski serves it as one of its requests, and its answer is Duely's
(`TaskiClientReturns`). As Duely names two fields of the request differently, its submissions
arrive with an empty id and no language; the instance gives Taski
other clients, which name them as its API does, so that both are seen.

## The runs

All runs set `CHECK_DEADLOCK FALSE`: the number of attempts is bounded and
finished work stops.

| run | instance | question |
|---|---|---|
| `SchedulerFaults` | 1 coordinator, 2 slots, executions Fork (compile, two runs) and Chain as decoded, 2 attempts, all faults | the safety invariants and the refinement, whatever fails |
| `SchedulerRace` | 1 attempt at two compilations and a run of each, job failures, fairness | no interleaving of callbacks handles a step twice, forgets it or leaves it to nobody; the attempt finishes |
| `SchedulerPair` | 2 coordinators, 2 executions, 2 attempts, database errors and crashes | no double start |
| `SchedulerLive` | 2 coordinators with one slot each, 2 executions, job and commit failures, fairness | locks are released |
| `SchedulerSlots` | 2 coordinators with two slots each, 2 executions of one step, 4 attempts, failed commits, fairness | no more attempts than slots; a new execution is started while a slot is without an attempt |
| `Graph` | all graphs over 3 steps with self-dependencies and an unknown name, all over 4 steps, all pairs of steps of a few types, Taski's lists for C++ and Python with the dependencies they declare | order, acceptance, working off |
| `Workers` | 2 workers, 6 calls: compile, run on the other worker, two runs with one id, check of their outputs, a compilation with the id of the check; storage errors, files that cannot be opened, expiry | what the executors use stays, what they take is given back, OK means whole |
| `JobFactory` | 3 calls for steps of one execution (Python run, C++ run, check), 3 buckets, 1 worker; look-up and storage errors, files that cannot be opened, expiry | what a call reserves and locks it gives back; a call without a failure of its own makes its job; workers find the inputs |
| `Platform` | 2 submissions, 4 tests by other clients (two with the same id), 3 readers, 2 handlers, 4 joins of 3 users, 2 verdicts; all faults, fairness | recorded and accepted mean what they say; a verdict is the one reported; everybody is answered and paired |
| `FinishMeansDone`, `FullMeansBusy`, `DependenciesSeen` | small instances | expected violations, see below |

What the properties say:

* `TypeOK` (every module): types; in the graph, also that no step is at work twice in `dfs`.
* `DependenciesFirst`: a job exists only for a step whose dependencies have all answered, had
  their message sent and been marked done, in the same attempt.
* `HandledOnce`, `NothingForgotten`: between `PickSteps` and `Schedule` a picked step is in the hands of exactly
  one thread; after that it has a job or was dropped with an error.
* `StandstillMeansFinished`: an attempt in which no thread is at work and no job may still answer has had a
  step dropped or lost, or has all its steps done and its finish sent (where sending fails, tried). So no callback misses what
  another one made ready between its own `DoneStep`, `IsDone` and `PickSteps`. It is about graphs in which
  each step stands after its dependencies, which `OrderIsTopological` says `newGraph` delivers.
* `FinishCoversDependencies`: a finish message means nothing is left to pick and every step another
  one waits for is done; and there are never more finish messages than steps done, so none for an execution
  without steps.
* `SlotsCountAttempts`: `nowExecutions` is exactly the number of attempts the
  process has started, plus the one it may be starting. `AttemptsWithinLimit`: a process never has more
  attempts than `MaxConcurrency`. The limit is tested with `==` and six paths give a slot back: one give-back
  too many, and the counter would fall behind the attempts and let the next one in.
* `RestartOnlyWhenStale`: an execution is started again only after
  `ExecutionRetryAfter`, or when no process works on it.
* `ImplementsDispatch`: `StepDispatch`, per attempt.
* `RowsReleased`, `AttemptsFinish`: liveness of locks and attempts.
* `NewAreStarted`: a new execution is started, whatever is locked, retried or failing beside it, unless every slot of
  every coordinator went to an attempt, which retries of older executions may bring about. An iteration
  that takes a slot and gives it back is no excuse: the exception counts attempts, not `nowExecutions`, so a
  slot that leaks on an error path (as `EndTxKeepsSlot` has it) is found.
* `OrderIsTopological`, `OrderIsStable`: the order; `OrderAsComputed`: the walk finds what the
  recursive function computes, on graphs with cycles too; `OnlyAcyclicWorkedOff`,
  `WorkedOff`: exactly the graphs without cycles and unknown names are worked off.
* `InputsStay`: while a command runs every file it was given is there and whole, unless
  a compiler made it: a compilation that failed leaves its empty output visible, the
  coordinator schedules the run all the same (`scheduleStep`'s callback does not look at the
  result's error), and the run downloads it. The property says that this is the only way to get half a file.
* `OnlyReadsLeaveLocks`: a call that has answered holds no lock, with the two
  exceptions the code makes: the output it has read back, whose `unlock` is
  never called, and an input it locked but could not open.
* `ReservationsEnd`: what is reserved is committed or aborted, except by a check whose command failed.
* `CreationsEnd`, `OnlyUnopenedStayLocked`: a bucket in creation has exactly one creator at
  work (else no inline source of the execution could be made any more); a call that has ended holds
  no lock but on the input it locked and could not open.
* `WrittenStay`: a failed creation takes back what it made and nothing beside it; files go only
  with a bucket that has expired and that nobody uses.
* `FailsForAReason`: a call that meets no failure of its own fails only over a bucket that another call is
  creating, one whose trash time has come, or a file that does not exist. So between the creation of an input and
  its being read nothing that other calls do, their failures included, takes it away. That two steps of
  one execution stop each other by creating its bucket at the same moment is the first of the three reasons.
* `MissedForAReason`: a worker misses an input only with a copy of the bucket older than
  the input (a bucket is not downloaded again), or after expiry.
* `TaskLocksReturned`: the bucket of a task is locked while a handler works with it and not after, except
  if its file could not be read: then the storage returns the error with an `unlock` that nobody calls.
* `OkMeansRecorded`: ok means the row is there, and every row has its execution; the reverse is not so
  (Exesh is asked inside the transaction, so an error may leave an execution without a row).
* `TestsChecked`: what Exesh accepted compares both programs' outputs on every test, if the checker is in C++.
* `AcceptedMeansRecorded`: the same across both services, for the user of Duely.
* `VerdictAsReported`: in any order of messages and with two handlers on a row, a verdict is lost by none of them,
  and changes only to what a finish message reports, when that message is saved. It is not final: another finish with
  another verdict replaces it. (And the status is not kept: a late message sets it back to Running.)
* `LivesInOrder`: as long as messages come one after the other and in order, with no finish after one that
  was saved, the row lives the life of `SubmissionLife`, and is done with the verdict the finish reports.
* `SendsAnswered`: requests waiting for one another's keys do not wait in a circle.
* `SerialJoinsPairUp`, `WaitersPaired`: as long as no two calls to the queue meet, everybody waits
  once, is paired once, with somebody else, and is not left waiting with another one. Once two calls have
  met nothing is promised: a user may be lost or paired with nobody, and an
  empty queue's exception ends the job.
* `OkMeansWhole`: success is reported only with the artifact there, even if another call for the id runs.

**Bounds.** `MaxAttempts` bounds the attempts in one behaviour (guard of
`Select` and `StartExecution`); two let a retry meet the first attempt, and an attempt of another
coordinator. In `SchedulerSlots` it is the number of all slots, so that the bound never stops what the property
waits for. `MaxSteps` is the longest execution. Four steps in two independent
chains are the smallest instance where two callbacks pick at once while the
first slice is still being scheduled; two slots let one attempt hold its slot
while another is started. Three steps are enough for a cycle longer than two, and
four for two branches that meet. In `Workers` each worker has
one artifact made elsewhere, two calls compete for one file and two for one bucket; every executor is called.
In `JobFactory` two calls create in one bucket, one of them without failures of its own, while a third reads.
In `Platform` a behaviour has one of the sets of `Parties` as its participants, each chosen for parts that
meet: two clients with one id, a submission and two handlers, four joins; parts that share
nothing are not interleaved. `MaxDeliveries` is 3, so that a message comes while another is handled
and again after finish; two verdicts are enough for one to replace the other. `Capacity` is the queue's array; nobody joins when it may be full, so it never
grows (.NET copies it then, one more thing that is not atomic); three slots make the indices wrap.

**Fairness.** Weak fairness of each coordinator's loop (the ticker fires for
ever, the database answers), of each goroutine that schedules steps and of
each callback (the runtime runs what can run, and a job that was taken answers
or is lost). No fairness for `Execute`, `RetryAfterElapses` and `CrashRestart`:
clients, time and failures owe nothing. The liveness runs have no
crashes and no message failures; `AttemptsFinish` exempts attempts one of whose
steps was dropped or lost, since only the retry helps them, and executions without steps, which
never get a finish message. In `Platform` it is weakly fair that some request of Taski goes on, that
some answer arrives at Duely and that the pairing job runs: each has a goroutine or task, and file storage,
Exesh and the database answer, if only with an error. Submissions, joins, messages, timeouts and
stops owe nothing.

Every property of a passing run has a mutant, a definition named `...Never`,
`...Always`, `...AsIs` and so on beside the one it replaces, marked "Variant".

## The proofs

`ExecutionScheduler` declares its assumptions: executions are numbers (ordered
by `created_at`), graphs have at most `MaxSteps` steps, bounds are naturals.
Nothing is assumed about dependencies (cycles, unknown steps are allowed), about the number of
coordinators or about the failures.

* `TypeInv` = `TypeOK` and: an attempt in memory and an open transaction are
  about an execution (`Targets`); a thread that schedules is within its slice and
  the slice within what was picked (`Slices`); an attempt that is not in memory
  has left nothing there (`Blank`). `TypeOK` alone is not inductive:
  `next + 1` stays in range only because of `Slices`, and a fresh attempt starts from nothing because of `Blank`.
* `GraphInv` adds what the threads hold: slices are disjoint, their steps have
  no thread yet, every picked step is somewhere, and the dependencies of a picked step
  are done. `HandledOnce`, `NothingForgotten` and
  `DependenciesFirst` follow. The step that matters is `PickSteps`, whose new
  slice begins after everything picked before, and the hand-over from a slice to
  a callback (`HandOn`), shared by `CreateJob` and `DropStep`.
* `SlotsAlways`: `SlotsCountAttempts` needs the finiteness of the attempts of a
  coordinator and one cardinality step for `StartExecution`. `AttemptsWithinLimitAlways` needs what happens between
  the test and the increment as well (`SlotsKept`): a loop that saw a free slot is the only one in its
  process to take slots, so that the slot is still free when the transaction has begun.
* `FinishAlways`: once `IsDone` was seen, `picked` has reached the end and
  never falls; with the dependencies of everything picked done, the first part follows (`FinishInv`). How many
  finish messages there are is `CountInv`: each was the last move of another callback, and what a callback has
  ended it has marked done (`ReportedDone`).
* `StandstillAlways`: `StillInv` says who is still to act. If the next step in the order is ready, some
  thread stands before its `IsDone` or `PickSteps` (`Woken`): the one that marked the last dependency done, or
  `scheduleGraph`. What a callback is past, it has marked done (`ReportedDone`). And once everything is picked, the callback of the
  last step cannot pick any more, so it ends with the finish (`LastFinishes`). At a standstill every
  picked step is past its callback, so done; then the next step would be ready, and there is nobody before `PickSteps`:
  everything was picked. This is the safety part of `AttemptsFinish`.
* `AttemptsRunOut`: and every attempt comes to a standstill. A thread has as many moves left as its place says
  (`MovesLeft`), and each step of an attempt lowers their sum, the cardinality of `Ahead`. Only
  handing a step on gives a thread a move, that of recording the job; but then the step, which was in nobody's
  hands but the thread's (`HandingMoves`), comes two moves nearer to its end. What is left to fairness is that
  whoever can move does.
* `Implementation`: every step of the scheduler is a step of `StepDispatch` or a stutter under the mapping.
* `NoDoubleStart`: without commit failures, `RowInv` holds: a row is held by one
  transaction (`OneHolder`), a held row is still due (`Due`), and an attempt in
  memory whose transaction is over has a scheduled row (`Settled`). So a row that is
  selected and not stale is new and has no attempt in memory.
* `RowsHeld`: with commit failures as well a row is locked by one transaction, and one that schedules has its own
  attempt in memory with `scheduleGraph` at work or returned. With `AttemptsRunOut` that is the safety
  part of `RowsReleased`.

`Workers` assumes nothing about ids: any two jobs may share one. All five of its properties are proved.

* `CallInv` is about one call at a time: it has the locks of the inputs it is past
  (`Holding`), and every lock is deferred or one of the two kinds that are never given back
  (`Accounted`). `LocksReturned` follows. Each action is a return (`ReturnStep`), a
  step that takes a lock (`GoesOnStep`) or one that takes none (`MoveStep`).
* `FileInv` is about the files: what is locked is visible, so expiry and aborts
  cannot take it away (`LockedAreSeen`); a reservation has at most one owner (`OneOwner`), which is
  why nobody's commit or abort hits another call's file, whatever else the bucket holds; `ReservedBySome` and
  `OnlyCompilersUnfinished`. `FileEffect` says what one call may do to the files, is
  proved per action, and keeps `FileInv`. `OneOwner` needs
  `LockedAreSeen`: g++ writes to an output that nobody can have reserved anew, because its call holds the lock.

`JobFactory` assumes that a step has as many sources as its type wants, that a new
file name is not one of a task's, and that an execution's bucket is filled by `createInput` only (its name is a hash
of the execution's id). All six of its properties are proved.

* `StorageInv` = `TypeOK`, what a call has reserved and whether it is at `write` or `commit` (`Reserves`), that
  a bucket in creation has an owner (`Owned`), and that it has one (`OneOwner`). The
  actions are of two kinds: those that reserve nothing before and after (`QuietStep`) and the
  steps of a creation (`CreatorStep`), whose lemma says when it is safe to change the bucket: if
  nobody else has reserved something of it, which `OneOwner` and `Reserves` of the others give.
* `CallInv` adds that a lock is on the input its call is at (`Accounted`); `LocksReturned` follows.
* `FilesStep`: a file goes only with `Expire`. With it `MadeInv` carries what a call has made or located
  (`Passed`) up to the worker that looks for it: `MissedAlways`. `UndisturbedInv` does the same for what a call has
  brought together and not read yet; each way in which a call fails is then one of the three reasons: `FailsAlways`.

`Platform` assumes that submissions are requests to test (`SubmissionsAreTests`), that `MaxDeliveries` is
a natural and that the queue has a slot. Its proofs are over any number of users, submissions, handlers
and requests, with all failures.

* `DuelyInv`: rows are there before messages about them (`RowInv`); about a submission whose messages came in order,
  `InOrder` adds that one message at most is at work, that it is the last one, that it was read as the row is
  now, and that a finish at work or saved is the one that was reported last; hence `LivesAlways`. `SaveEffect` says
  what a save makes of a row: the verdict changes only if the handler set another one than it had read, and
  that is what its finish reports (`VerdictAlways`); an old row that it read does no harm, since only what was set is written.
  `OtherSubmission` and `RowsStay` say that the rest stays. It assumes that no verdict is one of the
  words the model uses for none (`VerdictsAssumption`).
* `TaskiInv`: handlers between `GetTestTask` and `unlock` hold a lock, and a transaction
  that has inserted conflicts with no row and with no other open one: that is what
  waiting for a key is for. Without it a commit could not be shown to record the row (`RecordedAlways`).
* `RequestsRunOutAlways`: each step of Taski, a stop included, brings a request nearer to its answer.
  `WaitsForOneAlways`: a handler that waits for a key waits for exactly one transaction, which has only its return
  and its commit before it, because no two open ones have inserted one id (`TaskiInv`). So nobody waits in a circle: the
  safety part of `SendsAnswered`.
* `AcceptedAlways`: what Duely tells its user is what Taski answered, and Taski's answer ok is never
  taken back, a stop included.
* `TypeCorrect` needs that a request at `tail` remembers an index of the array.
* `TestsCheckedAlways` follows one test through `CreateTestingSteps`. `StepsOf` says which run and check steps the
  list has for it; a check takes the outputs of both runs (`CheckFacts`), and where a run was not made its source is
  null, which `Steps` does not decode; so a list that Exesh accepts has both runs (`AcceptedChecks`). It assumes
  that a task's tests are a list of numbers (`TestsAssumption`).
* `SerialAlways` is about the queue while no two calls have met. `SerialInv` follows the three accesses of
  an `Enqueue` or `Dequeue`: `Count` is the number of users in the array once a call in the middle is counted in,
  `tail` is that many slots after `head`, round the array, and these slots hold users without doubles
  (`QueueInv`); what the job holds is not in the queue, and it has looked at a size that is still there
  (`JobInv`, so the second `Dequeue` never throws); a join at work is the only call (`JoinInv`); and whoever joined is
  in the queue, in the job's hands or in a pair (`Kept`). That nobody is left with another one waiting
  takes a count: `size` is the cardinality of the users in the queue (`WaitingCounted`). It assumes that a user's
  id is not null (`UsersAssumption`).

`ExecutionGraphProofs` is over all lists of steps that were decoded and have no name twice (`StepListsAssumption`);
dependencies may be cyclic, unknown or repeated.

* `SearchInv` is about the walk. The entered steps are those at work and those found, and no step is both
  (`Marks`); each call was made by the one below it, for a step that waits for it (`Chain`); what
  a loop has gone past is entered (`VisitedUsed`). Then, without cycles, a step is found after all
  that wait for it (`FollowersFirst`). The step that matters is `Return`: whoever waits for the step that returns is
  entered, as its loop is over, so found or still at work; and one at work is below it on the stack, which
  makes the calls between them a set of steps each waiting for another one in it (`NoneWaitsBelow`).
* When the walk is over everything was entered, so `found` is a permutation of the steps (`AllFound`, by
  counting), and `NewGraph` reverses it: `TopologicalAlways`. `FoundBackwards` is the walk over steps
  that do not wait for each other: no call is nested and the steps are found last to first; hence `StableAlways`.
* `PickedInv`: what a picked step waits for is done and stands before it; so the first step, in the
  order, of any set waits for no other of the set, and a graph that was worked off has no cycle (`OnlyAcyclicAlways`).
  Conversely `NextCanBePicked`: in the order of a built graph the next step is ready as soon as all picked ones are done,
  so a counter over an order is as good as a set of ready steps.

* `RestMeansWorkedOff` draws that conclusion for the graph: when newGraph has returned, what was picked is done and
  nothing can be picked, all steps are done, if there are no cycles and unknown names. `GraphRunsOutAlways`: a
  loop's iterations, the calls that have not returned, what is unpicked and what is not done never grow, and
  each step takes from one of them; so `newGraph` returns, for cycles too. Together the safety part of `WorkedOff`.
* `ComputedAlways` is about `TopSort`'s recursive function, which TLA+ does not promise to exist. Each round makes
  `Size` smaller: the unused steps, times the number of steps and one, plus what the loop has left (`LoopExists`,
  `LoopIsRecursive`). The library's induction theorems take an operator, so the proof takes the least size for
  which the claim fails instead. Then `ComputedInv` says of every open call what
  its loop will have made of the search, by the function, and that it is what `topSort` makes of it in the end.

Only model-checked: liveness (`RowsReleased`, `NewAreStarted`, `AttemptsFinish`,
`WorkedOff`, `SendsAnswered`, `WaitersPaired`), since fairness and ENABLED are beyond the prover; what of
it is safety is proved as said above: that nobody is left waiting for nothing, and that work runs out. Every
invariant and action property of the passing runs is a theorem.

## Where the code does not do what it says

The first three are runs that TLC must find violated.

* `FinishMeansDone` (`graph.go:82`): `isDone` is true when the last step was
  *picked*; finish is sent while steps run, once for each that ends afterwards.
* `FullMeansBusy` (`execution_scheduler.go:103`): slots are never given back when an execution ends, so
  "max concurrency reached" is logged for ever with nothing running.
* `DependenciesSeen` (`steps/steps.go:63`): `getDependencies` asserts a value
  where the codec makes a pointer, so no dependency is ever seen. It masks another one, which is therefore
  not among the runs: a job's callback can overtake `ScheduledStep` (`execution_scheduler.go:193`), and a step it
  picks that reads the output is dropped with "failed to get job id for step"; as decoded, callbacks pick nothing.

Three more are seen in the text and need no run; the models have them as they are:

* Duely names the fields of a request `submission_id` and `language`, Taski decodes `solution_id` and
  `lang` (`SendSubmissionRequest.cs:9`). In `Platform`, therefore, a submission to a task with a C++ checker fails
  (Exesh refuses check steps with a null source); with a checker in another language nothing is checked,
  the first submission is recorded with an empty id, and every later one violates the key.
* `NewRunPyStep` makes a step of type `run_go` (`run_py_step.go:17`), so `RunType["Python"]` is `run_go`.
* `get.UseCase` asserts a predict-output task to be a fix-code task and panics
  (`get/usecase.go:88`), so `AnswersFor` leaves it out.

The exceptions in `TaskLocksReturned`, `InputsStay`, `OnlyReadsLeaveLocks` and `ReservationsEnd` (an
unfinished artifact can be downloaded, locks on what is read back stay, the verdict of
a failed check stays reserved) are stated there and not as findings: no text in the repository promises otherwise.

## What is not modelled

Listed per component in `PROJECT.json`. Generated migrations, entity mappings,
configuration loading and wiring have no behaviour to check; rendering of JSON
and log lines is left out. What the file storage, PostgreSQL, Entity Framework and .NET's `Queue` do is external and modelled
from how the code uses it. `CreateDuelHandler` does nothing in the source, and nothing carries
Exesh's messages to Duely. Of the
executors, what a command computes is left out, and so are the limits of a job, which the
executors never apply (`RunStatusTL` and `RunStatusML` are never returned).

## The plan

Done: scheduler, graph, codec, workers, job factory, Taski, Duely, their runs, and the proofs named
above. Left:

* When they are written: the job scheduler, the message sender and the artifact registry,
  which are stubs, and whatever will carry the messages to Duely.
