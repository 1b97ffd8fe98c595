# Formal models of the ring3 process kernel

ring3 runs 32-bit Windows programs in a browser.  A Rust engine, compiled to
WebAssembly, executes the guest's x86 code and implements the Windows API; a
JavaScript host (`sdk`) calls the engine in a loop, answers the calls that need
the outside world, and schedules.  This directory models the part of the engine
where concurrency lives: the dispatcher objects on which guest threads wait and
the critical sections built on them, the scheduler that decides which thread
runs, the protocol in which the host answers blocked calls, the loader that runs
guest code while it changes the set of loaded modules, and the messages that
threads send to each other's windows.

Guest threads are threads for the guest only.  The engine is single-threaded:
a Windows call is prepared, then committed as a whole or refused with nothing
changed.  The hard part is therefore not data races but **order**: any thread may
call anything between two calls of another one, a blocked call is a record that
other calls decide, callbacks run inside blocked calls, a scheduling pass moves
contexts between the engine and thread records, and what was planned before a
callback is committed after it.

## 1. The system and its parts

| Component | State it keeps | Operations | Talks to | What makes it correct |
|---|---|---|---|---|
| Dispatcher (`engine/src/windows/synchronization`) | objects, signal bits, handles, wait table, list of threads with APCs, clock | create, open, duplicate, close, signal, wait, timer set and cancel, thread exit | called by every synchronization call and by the clock | no lost wakeup, FIFO, one signal one waiter, handle counts |
| Synchronization calls (`engine/src/process/windows/synchronization`) | the call each thread is blocked in (`Reply32`) | complete, resume, cancel a call; observe the clock | dispatcher, thread runtime, pending call | a blocked call ends once and for the reason it reports |
| APCs (`process/windows/threads/invocation.rs`, `timers.rs`) | queue of invocations, stack of running ones per thread | queue, deliver, return, cancel | dispatcher's APC list, contexts | list and queue agree; the result tells the truth |
| Thread scheduler (`process/windows/threads/scheduling.rs`, `saved.rs`) | thread records, current thread, `schedule_required` | schedule, switch, yield, suspend, resume, priority | loader lock, pending calls, host loop | one context per thread, suspension is kept, nobody runnable is forgotten |
| Thread lifetime and loader lock (`creation.rs`, `initialization.rs`, `lifetime.rs`, `loading/modules/thread.rs`) | life cycle phase per thread, `loader_owner`, `loader_depth` | create, attach, detach, exit, terminate, load | scheduler, modules, dispatcher | lock counts what is open, is handed on at exit |
| Host loop (`sdk/runtime/session.js`) | last schedule, blocked calls | run, schedule, answer | engine | schedules at least every 8 ms |
| Critical sections (`critical.rs`) | section table, copy of the state in guest memory | enter, leave, delete | dispatcher mutexes | copy and mutex agree |
| Pending calls (`process/calls`) | call, token, generation, callbacks | begin, complete, cancel | host | a late or double answer is refused |
| Module loading (`process/loading`) | loaded modules, operation stack, references | load, unload, rollback | loader lock, callbacks | reference counts, rollback restores |
| user32 (`windows/user32`, `process/windows/user32`) | windows, queues, continuations of calls, sent messages | post, send, get, dispatch | dispatcher, scheduler | every sent message is answered once, before posted ones are taken |
| Files, pipes, completion ports | handle tables, tree, packets | open, read, bind, post | event bindings of the dispatcher | a completion signals once |
| Guest memory, CPU, translator, execution cache | pages, versions, blocks | map, execute, invalidate | everything | sequential |
| Graphics, audio, input, COM, registry, shell, observability | per library | many | calls | sequential |

All rows are listed in `PROJECT.json` with their state; the first ten are
modelled, wholly or in part, and section 5 says what is left out.

### Behaviours that are hard

* a signal decides several waits in one pass, each on what the others left;
* a handle is closed, an owner terminated or a timer cancelled while a wait that
  depends on it is pending;
* callbacks (APCs) run inside blocked calls, nest, and may be cancelled after the
  call has been told of them;
* deadlines, signals and callbacks race for one wait;
* a thread is suspended, woken, switched to and terminated in any order, by
  itself or by others, at any point of its start or its exit;
* the loader lock is held across callbacks and context switches;
* the host answers a call late, twice, or while it is suspended under a callback;
* an initializer loads and references modules while the operation that called it
  has already decided which modules it adds or takes away;
* threads send messages to each other while they answer one, and the sender or the
  receiver ends in between;
* a critical section's state is in guest memory and in the dispatcher at once.

`PROJECT.json` lists the hazards line by line with the property for each.

## 2. Modules

| Module | Models | Uses |
|---|---|---|
| `SignalPlan` | the pure half of the dispatcher: `PreparedSignals32`, readiness, consumption, `resolve_waiters`, thread exit, timer expiry | |
| `Dispatcher` | the dispatcher, the APC queue, running callbacks, blocked calls, the clock | extends `SignalPlan` |
| `CriticalSections` | critical sections: private mutexes and their copies in guest memory, composed with the calls on mutexes | extends `Dispatcher` |
| `SectionLock` | abstract: a recursive lock per address, handed on in the order of arrival | implemented by `CriticalSections` |
| `ThreadScheduler` | threads, contexts, scheduling passes, life cycle phases, the loader lock | |
| `PendingCalls` | tokens, owners, answers, callbacks, provider replies, code generations | |
| `CallStack` | abstract: tokens open and close like a stack and are never given twice | implemented by `PendingCalls` |
| `ModuleLoading` | the module set, operations with their initializers, references, rollback, thread notifications, the loader lock | |
| `SentMessages` | messages sent between threads, their answers, GetMessage and message waits, and the scheduler as far as it enters and resumes threads for them | |
| `DispatcherProofs` | types, mutexes, handles, callbacks, what exits leave behind; lost wakeups, results, and whom a signal serves | extends `Dispatcher` |
| `ThreadSchedulerProofs` | types, suspension, contexts | extends `ThreadScheduler` |
| `LoaderLockProofs` | loader lock, where guest code runs, what a schedule reports | extends `ThreadSchedulerProofs` |
| `PendingCallsProofs` | types, tokens, the refinement of `CallStack` | extends `PendingCalls` |
| `ResumedCallsProofs` | resumed calls can be answered, providers find their calls | extends `PendingCallsProofs` |
| `ModuleLoadingProofs` | types, loader lock, dependencies, initializers, the order of detaches, references | extends `ModuleLoading` |
| `SentMessagesProofs` | types, queue status, one answerer for each send, why circles of sends stand still, sends before posted messages | extends `SentMessages` |
| `CriticalSectionsProofs` | copies, entered sections, the refinement of `SectionLock`, the dispatcher's properties under sections | extends `CriticalSections`, `DispatcherProofs` |
| `MC...` | small instances and sets of calls for the runs | extend the module they are named for |

A definition commented *Mutant* is a plausible slip in the code next to it.  It is
used by no specification; `PROJECT.json` names the property that it breaks.

### SignalPlan and Dispatcher

A *plan* is the record `[objects, signaled, waits]`.  The code projects a change
on a `PreparedSignals32` and publishes it with `commit_signals`; the operators of
`SignalPlan` map plans to plans in the order of the code, and an action of
`Dispatcher` ends with `Commit`.  The code's maps of projected values
(`prepared.objects`, `prepared.completed`) are the plan's fields.

* A slot of `objects` is `Free` or one of five kinds.  `refs` is `Object32::handles`.
  Handle values are never reused (`next_handle` only grows); slots are.
* A wait record stays from the wait call until its call takes the result.
  The result of a wait is the number Windows returns, `Pending` for `None`,
  `WaitFailed` for a closed handle.
* `reply[t]` is the blocked call of `t`.  A call answered at once while an APC of the
  thread is queued stays blocked with its answer in `reply.result` until the
  callback has run (`finish_synchronization_reply`).  `active[t]` is the stack of
  calls under running callbacks.  `delivered` is a history variable: it records
  that a callback ran in the call; no guard reads it.
* `Tick(t)` is one clock observation.  The code observes the clock at the start of
  every synchronization call and in the host loop; the model lets it happen at
  any moment, and every other action is at the time last observed.
* Which thread may call is left open: any live thread that is not blocked.  This
  is more than `ThreadScheduler` allows, so what holds here holds there.

### ThreadScheduler

* `current` owns the engine; `parked` says that a record's `saved` is `Some`.
  `context` is what `take_windows_thread_context` moves, reduced to the pending call
  and the number of module loads it has open; `frames` are the contexts under
  running notification callbacks.
* One pass of the loop in `schedule_windows_thread` is the action `Pass`: resume the
  current thread's call, wake parked threads whose call is ready, select, switch,
  resume again, advance the life cycle phase, run or go round.  `passes` counts
  the passes of the call in progress.  `host` is what the session loop does next.
* `Answer` stands for everything that can answer a blocked call (a signal, a
  provider, a message).
* `LoadLibrary` takes the lock and `FinishLoad` releases it
  (`complete_module_operation`); in between the entry point of the module runs.

### CriticalSections

* `sections` is the engine's list of sections (address to private handle), `copy` the
  words `LockCount`, `RecursionCount` and `OwningThread` in guest memory, `stale` the
  sections whose pages are no longer the mapping they were initialized in, and
  `entering[t]` is `Reply32::critical` of a blocked call.
* `Enter`, `EnterContended`, `Leave`, `DeleteCriticalSection` are the calls;
  `FinishEnter` is the resumption of a blocked enter, which publishes the words once
  more.  `Leave` computes the words before the release is committed, as the code does.
* Everything else that moves the same mutexes is in: termination, withdrawn calls,
  and the guest's calls on its other handles (`OtherCall`).
* `disturbed` is history: sections whose mutex changed hands without a call on the
  section.  For those the copy in guest memory is out of date in the code too, and
  `CopiesAreExact` says nothing of them until the next call writes it.

### PendingCalls

* `ctx[t]` is what `threads/saved.rs` saves and restores: the pending call, the stack of
  suspended callbacks, the provider replies, the execution parked under a module load,
  the code generation, and the arena reduced to where the guest is stopped.  `callToken`
  and `issuer` are shared by all threads.
* `Capture` is a guest stop that becomes a call; `CompleteCall`, `WindowsCall`,
  `AbandonCall`, `FinishCallback`, `AbortCallback`, `FinishWindowsCallback`, `Authorize` and
  `SelectUnit` are what the host may say of *any* token at any time, under `Answer`; the
  guards are the engine's checks.
* Callbacks have the three forms of code (core, replacement, resident), each with its
  owner.  A reply goes through the stages of `WindowsReply32`.
* `Host` says which liberties the host takes in a thread.  The runs leave out three
  that the engine does not refuse and the host code never takes: finishing or aborting
  a callback of a provider that the core runs (`"finish_core"`:
  `windows_provider_owns_callback_token` does not look at callbacks run by the core),
  giving such a callback new code (`"migrate"`), and aborting a callback while a provider
  serves a call in it (`"abort_served"`).  With them a reply may wait for a callback
  that is gone, so `ProvidersKeepTheirCalls` is a promise of engine and host together.
  The theorems hold for every `Host`, these liberties included.

### ModuleLoading

* `modules` is `ModuleProcess32`; `operations[t]` the stack of `ModuleOperation`, moved with
  the thread; `source` a load that waits for bytes; `waiting` a request parked on the
  lock; `notice` the attach or detach notifications of a thread; `owner` and `depth` the
  lock.  `late` is history: modules referenced after their unload was planned.
* An operation is a list of steps with one active initializer.  `Advance` runs it up to
  the next call into guest code, or completes it; `FinishInitializer` returns from that
  call with success or failure, `AbortOperation` is the host giving the load up.
* While an initializer runs the guest may make every request again; it nests on the
  stack.
* `InitializationOrders` are the orders that respect the imports, import cycles apart; that
  the depth-first order of the code is always one of them is the assumption
  `DepthFirstIsAnOrder` of `MCModuleLoading`, which TLC evaluates for all import lists and
  all additions of three modules.
* `ThreadScheduler` sees a load only as a level of the lock (`LoadLibrary`, `FinishLoad`) and
  schedules around it; `ModuleLoading` lets any thread that the lock allows run at any
  moment, which is more than the scheduler does.  Both prove the lock exact, each in
  its own terms.

### SentMessages

* `stack[t]` is everything thread `t` is in the middle of, innermost last: user32's
  continuations (`pending`), the replies that wait, message waits, and the procedures
  it runs for others (`active_invocations`, each with the context it interrupted).
  `Kept` are the continuations of the innermost context, the list that
  `take_thread_reply` moves when a procedure is entered or a thread switched.
* A send is named by its sender and its place in the sender's stack, which stands for
  the continuation token.  `invocations` is the queue of the thread runtime reduced to
  sends (APCs share it in the code and are in `Dispatcher`) and split by target: the
  code keeps one list, but looks for the first invocation of one target each time, so
  its order between targets is never read.  Its limit counts all of them (`HasRoom`).
* `sent` is user32's count with its "not seen yet" bit, `row` the copy that the
  dispatcher compares message waits with; `user` is the thread that called user32 last
  (`runtime_input.thread_id`), which termination looks at.
* `dispatch` is `message_dispatch`.  `muted` is history: threads whose flag was cleared by
  a failing call inside a procedure under an outer wait.
* One round of `schedule_windows_thread` is three actions: `BeginPass` (resume the current
  thread, wake parked ones), `Select`, and `EnterProc`, `EntryFails` or `EnterThread`.  The
  guest cannot act between them, but it may after each round, which is more than the
  code allows.  `schedule_required` is taken as: the current thread may keep its turn.
  `RetryWait` is the session loop, which retries a user32 wait in every iteration.
* Every thread owns a window; a message wait is for sent messages alone (the mask
  QS_SENDMESSAGE); suspension, priorities and APCs are left out.

## 3. Runs

All with TLC, breadth first, complete state spaces.

| Run | Distinct states | What it shows |
|---|---|---|
| `signals` | 73,000 | no lost wakeup, FIFO, no signal used twice, waits fail with their handle |
| `mutexes` | 183,000 | critical sections and mutexes together: ownership, abandonment, handle counts, copies, terminated and withdrawn waiters; `CriticalSections` implements `SectionLock` |
| `timers` | 177,000 | APC list and queue agree, callbacks coalesce, results are final but for a cancelled timer |
| `timeouts` | 60,000 | every wait with a timeout ends (liveness); results of alertable calls are the truth |
| `scheduler` | 216,000 | suspension, contexts, loader lock, no false Waiting |
| `turns` | 39,000 | turns among equals of two priorities (liveness) |
| `calls` | 203,000 | unique tokens, providers keep their calls, resumed calls are answerable; `PendingCalls` implements `CallStack` |
| `modules` | 366,000 | loader lock, dependency edges, initializers in loaded modules, detach order, references keep modules |
| `sends` | 1,540,000 | one answerer for each send, queue status, why circles of sends stand still, sends before posted messages |

The calls of a run are the set `Calls`; each run takes the calls of one concern,
because the product of all calls is too large and the concerns meet in few
places.  Those meeting points are in: closing a handle is in `signals`, `mutexes` and
`timeouts`, termination in `mutexes`, `timeouts`, `scheduler` and `sends`.

**Refinements.**  `SectionsAreLocks` and `CallsAreAStack` are the specifications of
`SectionLock` and `CallStack` under `INSTANCE ... WITH`.  The first forgets handles, wait
records, copies and results: holder and depth are those of the private mutex, the
queue is the undecided waits on it in the order of arrival.  The second forgets
everything but the set of tokens open in a thread.  Steps of the detailed modules
that change none of this are stutters.

**Bounds.**  *Dispatcher:* two or three threads: a signaller, a winner and a loser; or a
target, a canceller and a bystander (thread symmetry is used where no liveness is
checked).  Two objects and two handles: enough for wait all, for two handles of
one object and for reuse of a slot after close.  Three waits in a table of three:
the table fills.  Mutex recursion and semaphore maximum 2, so that 0, 1 and more
differ.  In `timers` two queued APCs, nesting of 2 and three invocations: one callback
runs while another is queued; in `timeouts` one APC, nesting of 3.  A timer is set anew once (`MaxGeneration` 2) in `timers`.
The clock has instants 0, 1 and 2, with period 0 or 1, timeouts 0, 1 and INFINITE.
`MaxWait`, `MaxHandle` and `MaxInvocation` bound how many ids are ever issued and so the
length of the history.

*Critical sections:* two addresses and two sections at a time, three threads (one
inside, two waiting), two handles ever issued besides depth 2: one section contended
and deleted, or a section and a mutex, or two sections.

*Scheduler:* three threads, suspend counts to 2 where the code has 127, one
notification callback per phase, one module load per context.  At a bound the action
is disabled as the code refuses the call.

*Calls:* two threads, one of which does everything and the other executes guest code in
the core, so that tokens of the two interleave; two units, so that a callback leaves
and re-enters its unit; four tokens: a call, its callback, a call in it, and one of the
other thread or a second callback; callback depth 2, three replies, where the code
has 32 and 33; one parked execution.  The counter's end is reached: `MaxToken` is where
`checked_add` fails.

*Modules:* an executable importing `base`, and `plug`, which imports `base` and is the target
of a forwarder of `base` (so that resolving it makes the import graph cyclic); one
module with an entry point only, one with a TLS callback also, one with neither.  Two
threads, two references of a module, two nested operations.

*Sent messages:* three threads with a role each (`ThreeRoles`): one that only sends, one
that waits, retrieves and sends back, one that posts, sends and ends threads; with
three, two sends can be queued for one thread, circles have length two and three, and a
third thread can end a sender or a receiver in the middle.  One continuation per
context, one active procedure per thread, two queued sends, one posted message: each
limit is reached.  With two threads that make every call, two continuations and two
nested procedures (312,000 states) the same properties hold.

`CHECK_DEADLOCK FALSE` everywhere but in `sends`, whose passes go on for ever: ids and tokens run out (a bound), a guest may block
all its threads for good, and a process exits.

**Fairness.**  `Dispatcher!FairSpec`: weak fairness of `FinishReply` and `DeliverApc`
for each thread, and of the clock.  The session loop observes the clock in every
iteration and schedules at least every 8 ms (`performance.now() - this.lastSchedule >= 8`),
and a schedule resumes a thread whose call is ready.  That a ready thread gets its
turn among equals is `EqualsTakeTurns`; with priorities it may starve, as on
Windows, so `TimedWaitsReturn` assumes threads of one priority.  A callback is never
assumed to return.  In run `timeouts` the guest uses no timer callbacks: with a full APC
queue the code refuses every clock observation (see below).
`ThreadScheduler!FairSpec`: weak fairness of `Pass`, for the same loop.

### Disagreements between the code and its tests

Three runs have `expect: violation`; each shows a path in which the code does not do
what a test of the repository says of it.

* `closed_handle_rearmed`: an alertable wait holds 0xc0 for a queued timer callback;
  its handle is closed, which fails only undecided waits; the timer is cancelled,
  and the wait is undecided again, on a handle that is closed.
* `detach_blocked`: a thread of higher priority blocks in a detach callback.  It
  stays eligible while it is blocked, wins every pass, and the schedule reports
  Waiting although another thread could run.
* `nested_reference`: a load fails in its initializer; the modules that go are decided;
  the detach callback of the failed module loads it once more and gets a handle with a
  reference; the rollback then removes the module with the reference.

Five more were met and have no run of their own:

* Two APCs are queued; the first runs and returns; before the call returns another
  thread cancels the timer behind the second.  The call's WAIT_IO_COMPLETION is taken
  back and it waits again, although a callback ran in it.
* A call made while a timer callback is queued is answered 0xc0 at once and held; the
  timer is cancelled; the call returns 0xc0 and no callback ever ran.
* In both cases setting the timer anew has the same effect as cancelling it.
* `commit_thread_termination` (`process/windows/user32/threads/termination.rs:85`) clears the
  continuations of the thread that *runs* when the thread that ends called user32 last.
  If thread A is inside a window procedure, B calls user32, and A then terminates B, the
  procedure of A returns to a continuation that is gone (`complete_step` answers
  `InvalidToken`).  A test says that the end of a thread takes only what it owns
  (`thread_retirement_removes_only_owner_windows_and_queue_without_guest_callbacks`).
  In `SentMessages` the frame is then not `held`; TLC finds the case with two threads.
* A send whose sender was terminated stays in the receiver's queue, and
  `prepare_invocation_entry` refuses a sender that is gone, so that every schedule that
  tries to enter it fails (`EntryFails`); the end of a message call, by contrast,
  tolerates a dead sender.
* A message call that fails inside a procedure clears the thread's `message_dispatch`;
  if the procedure runs under a `SendMessage` that waits, sends back to the thread are
  not entered meanwhile (`muted`), and a circle of sends then deadlocks.
* A thread that already runs 32 procedures (`DepthLimit`) is refused the entry of another
  one (`Capacity`), so that a circle of threads that all are at the limit stands still as well.

The last three are the reasons that `CirclesStopForAReason` names: if all live threads wait
for answers, a send of a live thread is queued for one of them, and the head of every queue
can be entered (`CanEnter`: the pass chooses the thread and `Refused` does not hold) unless the
wait is muted, the head's sender is dead, or the thread is at the limit.  TLC violates the property
when any one of its four alternatives is taken out, so that run `sends` reaches circles
that move and circles that stand still for each reason alone.

So `timeouts` has no callbacks of timers (`AlertableCallsEndTruthfully` is a promise for
user APCs), and a call that blocks in a detach callback
(`BlockInDetach`) is in no passing run.  `ReferencesKeepModules` sets `late`
references apart.

## 4. Proofs

Forty-seven theorems, in eight modules, for every value of the constants.

| Theorem | States | Assumes |
|---|---|---|
| `DispatcherProofs!TypeCorrect`, `DispatcherSound` | `[]TypeOK`, `[]IInv` | `BoundsAssumption`, `NoThreadAssumption`, `MaxObjectsAssumption` |
| `MutexesAreCoherent` | `[]MutexCoherent` | |
| `HandlesAreExact` | `[]HandlesExact` | |
| `ExitsLeaveNothing` | `[]ExitsAreClean` | |
| `CallbacksStayExact` | `[]CallbacksAreExact` | |
| `DecidedWaitsAreFinal` | the action property `DecidedWaitsKeepTheirResult` | |
| `WaitersAreServedInOrder` | the action property `FirstComeFirstServed` | |
| `SignalsServeOnce` | the action property `SignalsAreNotShared` | |
| `SemaphoresStayBounded` | `[]CountsInv`: no semaphore over its maximum | |
| `AbandonmentIsTold` | the action property `AbandonmentIsReported` | |
| `WaitsStaySettled` | `[]NInv`: every undecided wait is settled and its handles open | `NoRetime \/ NoClose` |
| `WakeupsAreNotLost` | `[]NoLostWakeup` | `NoRetime \/ NoClose` |
| `UndecidedWaitsKeepHandles` | `[]UndecidedWaitsHoldHandles` | `NoRetime \/ NoClose` |
| `CallsStayTruthful` | `[]TruthInv`: what a call says of callbacks | `NoRetime` |
| `AlertableCallsAreTruthful` | `[]AlertableCallsEndTruthfully` | `NoRetime` |
| `ThreadSchedulerProofs!TypeCorrect`, `Inductive` | `[]TypeOK`, `[]IInv` | `SchedulerAssumption` |
| `SuspensionHolds` | `[]SuspendCoherent` | |
| `ContextsAreExact` | `[]ContextsExact` | |
| `LoaderLockProofs!LockInductive` | `[]LockInv` | `SchedulerAssumption` |
| `LoaderIsExact` | `[]LoaderExact` | |
| `GuestRunsWhereItMay` | `[]GuestMayRun` | |
| `ExitsHandOn` | the action property `ExitsReleaseTheLoader` | |
| `WaitingIsTruthful` | the action property `WaitingMeansNobodyCanRun` | `QuickDetach` |
| `PendingCallsProofs!TypeCorrect` | `[]TypeOK` | `LimitsAssumption`, `ThreadsAssumption` |
| `TokensStayUnique` | `[]TokensAreUnique` | |
| `CallsAreStacked` | the refinement `CallsAreAStack` | |
| `ResumedCallsProofs!ResumedCallsFit` | `[]ResumedCallsAreAnswerable` | |
| `ProvidersFindTheirCalls` | `[]ProvidersKeepTheirCalls` | `LeavesProviders` |
| `ModuleLoadingProofs!LoaderLockHolds` | `[]LoaderLockExact` | `ModulesAssumption`, `CallsAssumption` |
| `DependenciesStayLoaded` | `[]DependenciesAreLoaded` | |
| `ModulesTyped` | `[]TypeOK` | |
| `InitializersStayLoaded` | `[]InitializersAreLoaded` | |
| `DetachesGoBackwards` | `[]DetachesInReverse` | |
| `ReferencesAreKept` | the action property `ReferencesKeepModules` | |
| `SentMessagesProofs!SendsAreTyped` | `[]TypeOK` | `ConstantsAssumption` |
| `SendsAreOwedOneAnswer` | `[]SendsHaveOneAnswerer` | |
| `StatusIsExact` | `[]QueueStatusExact` | |
| `CirclesStandForAReason` | `[]CirclesStopForAReason` | |
| `SendsComeFirst` | the action property `SentBeforePosted` | |
| `CriticalSectionsProofs!SectionsSound` | `[](IInv /\ SecInv)` under `SpecSections` | those of `DispatcherProofs`, `AddressesAssumption` |
| `SectionsExactHold` | `[]SectionsAreExact` | |
| `SectionsImplementLocks` | the refinement `SectionsAreLocks` | |
| `SectionsKeepDispatcher` | `MutexCoherent`, `HandlesExact`, `ExitsAreClean` under `SpecSections` | |
| `SectionsLoseNoWakeups` | `[]NoLostWakeup` under `SpecSections` | `NoRetime` |
| `SectionsTellAbandonment` | `AbandonmentIsReported` under `SpecSections` | |

The assumptions on constants say that bounds are naturals and that sets and functions
of the constants have the types their comments give; of `ModuleLoading` also that the
catalog is finite and that a thread may have at least one operation open.  Five theorems and the two that
some of them rest on are besides about a class of programs: `NoRetime` says that the program
never calls `SetWaitableTimer` or `CancelWaitableTimer`, `NoClose` that it never closes a handle,
`QuickDetach` that no thread blocks or exits once more in its detach callbacks.
The hypotheses are not for convenience: in run `closed_handle_rearmed` a program that
does both ends with an undecided wait on a closed handle (section 3), and if a new,
signaled object then gets the slot of the old one, its wakeup is lost as well; and a
cancelled timer takes the answer of an interrupted call back.  In run `detach_blocked` a thread
blocks in its detach callback and takes every pass of a schedule.  (In `SectionsLoseNoWakeups`
it excludes nothing: `SpecSections` has no call on timers, and `NoRetime` keeps their names out
of `Calls`.)  Runs check the same properties where timers are set
and handles are closed, each in the instances listed in section 3.

**Dispatcher.**  `IInv == ObjectInv /\ WaitInv /\ QueueInv`, inductive in this form only:

* `ObjectInv` counts the handles of each slot and bounds the ids of timers by the handles
  issued.  Distinct ids (`TimersDiffer`) are what makes a callback belong to one timer.
* `WaitInv` ties each wait to the frame that takes it.  `MutexCoherent` needs it: a pass
  gives mutexes to the threads of undecided waits, so these must be alive, hence the waits
  of an exiting thread must all be found and dropped.  It also says that interrupted calls
  are decided and that an undecided alertable wait has no callback queued (`Unalerted`),
  which is why a delivered callback always finds its call answered.
* `QueueInv` says of each timer that it has exactly the callback its `queued` flag claims;
  pushed callbacks get distinct ids because they are numbered by the rank of their slot.

A call computes a plan and commits it, so most of the argument is about plans: `SoundPlan`
says that a plan may be committed, one lemma per operator of `SignalPlan` keeps it, and
`CommitKeepsObjects` carries it over to the state.  The recursion of `ResolveWaiters` is
reasoned about by its least counterexample (`LeastNumber`, from the well-foundedness of the
naturals): `ResolveInduction` turns what one wait keeps into what the pass keeps, given
as a set of plans for each wait id, since a property cannot be passed as an operator.
One lemma per action then shows that it keeps `IInv`.

The same lemma per action shows that the step is `Steady`, which says what any step may do
to the waits:

* a result only goes from pending to an answer (`MayBecome`), but for a cancelled timer
  that takes `WAIT_IO_COMPLETION` back; `DecidedWaitsAreFinal` is this;
* a wait that was settled (unsatisfied and not due) stays so or is decided.  A
  pass settles every wait it looks at and unsettles none that it has passed, since what
  it does to objects is to take units and clear signals (`ResolveOneSettles`); a step
  without a pass only makes objects harder to satisfy.  `NInv` adds that the handles of
  undecided waits are open.  Setting a timer anew makes a decided wait undecided again
  and passes over all waits, which settles it; but its handle may have been closed, and
  no close would fail it.  Hence `NoRetime \/ NoClose`.

`TruthInv` says of each call, blocked or interrupted, that it has its result if a
callback ran in it, and that one that is to report a callback ran it or has it queued.
`CallMoves` lists what a step can do to the calls of a thread.

Whom a pass serves is a relation between the plan before and after it, renewed by each
wait that the pass decides (`Served`): a `Ledger` per object says who took it (of a
mutex, an auto-reset event or timer nobody or one wait; of a semaphore as many waits as
it lost units; of an abandoned mutex one that reports it), and `InOrder` says that no
older rival of a wait that was granted is left pending: when it was looked at, it
was settled, and what its rival could take it could have taken.  `Serves` is what follows
for a step, given what its plan did before the pass (`Prepared`: objects signaled, given up,
marked as abandoned or filled up, waits alerted) and after it (`Published`: the caller may take more, and
objects without handles go).  One lemma per action shows `Serves`.  `SignalsServeOnce` needs
`CountsInv`, inductive by the same count of units.

`AbandonmentIsReported` says of every step, not of the exit alone, that a blocked wait is granted
`WAIT_ABANDONED` if and only if it takes a mutex that was `LeftBehind`: its owner exited in this
step, or long before and nobody has taken it since.  For the second case the mark on the
mutex must last, so the property also says that after any step it is there exactly if the
mutex was left behind and is still free.  The proof follows the marks through the plan:
an exit sets them before its pass and on the mutexes of the exiting thread only; the pass
removes one exactly by a grant, and the wait that it grants is told (`GrantTakes`: `GrantResult`
is at least `WAIT_ABANDONED` if and only if the wait takes a marked mutex, in any plan and
for both modes); what the caller then publishes marks nothing (`MarkExact`).  Since owners live
(`IInv`), no other step leaves a mutex without its owner (`ServedReports`).  Two
answers are not in the state and so not in the property: a wait that is answered at once
returns the same `GrantResult` without a record in the table, and `EnterCriticalSection` takes
its mutex and returns nothing.

**ThreadScheduler: `IInv`.**  `IInv == TypeOK /\ SoundPlan(Plan) /\ GuestRuns /\ IssuedIds`.
`SuspendCoherent` and `ContextsExact` are not inductive:

* a thread that obtains the loader lock is set running without a look at its suspend
  count.  This is right only because a thread that has been suspended while it was
  current is in no call (`SoundRecord`, last conjunct): a suspended thread is never
  selected, and the current one is suspended only by its own call, which completes;
* `Block`, `ReturnCallback` and `ExitThread` write the call and the state of the current
  thread; this is right only because guest code runs in a thread that is running and
  in no call (`GuestRuns`), hence one whose suspend count is zero;
* `CreateThread` overwrites a record; no context is lost because ids above `lastId`
  are unused (`IssuedIds`).

Handlers compute a plan and publish it, so soundness is a property of plans: one
lemma per operator says that it maps sound plans to sound plans and creates no thread
(`SoundStep`), then one lemma per action, then `NextSound` by the disjuncts of `Next`.
`PassSound` composes the operators of a pass in the order of the code and shows that
`passes` stays within the number of threads.

**ThreadScheduler: `LockInv`.**  `LockInv == IInv /\ LockPlan(Plan) /\ GuestReady /\ HoldersIssued`.
That the lock's depth is what its owner has open (`Held = Share`) needs to know *when*
something can be open: loads only in a thread that has started and is not leaving, or
in its phase's callback, never in a context under a callback (`Orderly`); the current
thread is such a thread whenever guest code runs (`GuestReady`); an exit is the only
thing that interrupts an attach phase, and then the phase's share of the lock passes
to the detach phase instead of being taken twice.  `HoldersIssued` is there for
`CreateThread`: a new thread must not have the id of the lock's owner.  `ExitsHandOn`
follows with one lemma per action that can end a thread.

**ThreadScheduler: `WaitInv`.**  `WaitingMeansNobodyCanRun` speaks of a whole schedule: when its
loop ends, a thread that it has not come to might still be able to run.  It has not, because every
pass that runs nobody *spends* a thread for good.  `Spent` are the threads that are gone and
those that wait for the loader lock after a pass that ran them in vain, or find it open.
`WaitInv == LockInv /\ CallPlan(Plan) /\ Between /\ passes <= Cardinality(Spent(Plan)) /\
(host = "waiting" => NobodyRuns)`.  `CallPlan` says what a thread can be in (`Fitting`): a thread
that may run without further notice is in no call, has its answer or was woken for the
lock, and a thread with a phase to go on with is in none.  So a selected thread runs, ends the
process, ends, or finds the lock for which it was woken taken by another (`SelectedOutcome`); in
the last two cases it was not spent before, and none is unspent: the lock changes hands only to
be left open (`SpentGrows`).  `Between` says in which state a pass leaves the current thread, so
that the next one finds nothing to resume.  A loop that ends after `threads.len()` passes and
one more would have spent more threads than there are; one that selects nobody leaves nobody
eligible (`NobodySelected`, with a maximum over the order of `next_windows_thread`).
TLC checks `WaitingMeansNobodyCanRun` in the scheduler run, under the hypothesis as well.

**PendingCalls.**  Every action is one of three effects on an execution: it opens the
token just issued, closes a token with everything above it, or leaves the open tokens
alone.  `TokensStayUnique` shows by effect that executions stay nested and bounded by
`callToken`, with parked executions below the running one; since only the current
context changes and new tokens are above all issued ones, threads stay disjoint.
`CallsAreStacked` maps the three effects to `Begin`, `End` and a stutter.
`ResumedCallsFit` strengthens its property to parked executions (`AllFit`): nothing
between capture and answer moves the arena of the call's execution, and what runs in
between saves and restores it.

`ProvidersFindTheirCalls` needs `LinkInv`, which says of each thread, whether current or
parked, and of each part that an open callback has set aside: the replies of its providers
wait for callbacks on its own stack, each for a younger one than the reply before
(`Ranked`); only the last may wait for none, and that one then owns the pending call.
A parked part has all its replies waiting (`BackedBelow`), since nothing runs in it.
Tokens are ages, and `TokensAreUnique` makes the youngest open callback the innermost frame, so
that the reply it resumes is the last one.  The hypothesis `LeavesProviders` says
that the host does not migrate, abort or replace the core of a thread under the callback
of a provider, as `calls` has its host: these operations of the code do
take the execution from under a reply, and a host that used them there
would violate the property (section 2).

**ModuleLoading.**  `LoaderLockHolds` needs only the lengths of the stacks, one wait for
bytes and one notification per thread: `AdvanceMoves` says how `Advance` changes them.
`DependenciesStayLoaded` adds that open operations are well formed (`DepInv`) and, for a
load that waits for bytes, that the module whose export it resolves stays loaded: the
load holds the lock, and only the holder of the lock removes modules (`OthersIdle`).
Unloads rest on `CanComplete` at commit; a rollback takes back the edges of its load.

The other four theorems rest on `ListInv`, over the two invariants above.  Of the module
set it says that the order of attachment has no repetitions and only loaded modules
(`Listed`).  Of each operation (`Fits`): its steps and its active initializer are calls
of its own modules, which are loaded; no module is marked attached twice; its detach calls
go backwards through the order of attachment as it is now (`Backwards`); and what it is
to unload has no reference but the one it releases, late ones apart (`Counted`).  Of two
operations of one thread (`Nests`): only loads and rollbacks are begun in an initializer
of another operation, and they share no module with it.
None of the properties is inductive without the rest:

* *Initializers* and *detach order*: an operation that completes removes modules, and the
  lists of those below it survive only because the operations are disjoint.  The
  lock leaves the other threads no operation (`OthersIdle`).
* *Detach order* while modules attach: new ones go to the end, and none is a module that
  some operation detaches (`NewlyListed`).  A removal leaves the order of the others.
* *References*: a free is decided when it is requested and carried out when its callbacks
  have run; what is referenced in between is in `late`, everything else still is as
  `Counted` says.

`Among`, the filter that keeps some members of a list, is a recursive function; what it
keeps (`AmongPicks`, `AmongKeeps`) is proved by least counterexample, with the
picked positions as witness (`Picks`).  That it is the library's `SelectSeq` is the assumption
`AmongIsSelectSeq` of `MCModuleLoading`, which TLC evaluates.

**SentMessages.**  The inductive invariant is `SendsInv`: types; `Answering`, the relation
between the sends and those who answer them; the queue status; and three facts about
single threads.  None of the checked properties is inductive without the others:

* *One answerer* fails alone because an invocation is removed from a queue, entered,
  returned from and dropped with its thread by different actions.  `Answering` says
  whom every queued or active invocation answers (a send that waits at that place of
  another thread, if its sender lives), that no two answer the same send, and that every
  send that waits has one.  That a frame stays at its place is why `Tops`, a step that
  changes only the top of one stack, is the shape to which nearly every action is
  reduced; a termination empties one stack and answers its senders (`Answered`).
* *Queue status* needs that a message wait is only ever the innermost frame
  (`MessageWaitsOnTop`) and that a chosen thread lives (`ChosenLives`).
* *Why circles stand still* is proved with ages: frames can be numbered so that numbers grow along
  each stack and from a send to the procedure that answers it (`Aged`, an existential
  that every step renews: a new frame is younger than all others).  If all live threads
  waited for answers and no send were queued for one of them, each of their innermost
  sends would be answered by a procedure with a send above it, younger than itself;
  among finitely many the youngest has none (`LeastNumber`).  So a send of a live thread is
  queued.  Whoever has sends queued has a user32 wait, which is open if no failing
  call closed it (`WaitsAreOpen`), and then only what `Refused` says keeps the head out.

`SendsComeFirst` needs only that the counts of posted messages are
naturals (`PostedCounts`).  Messages are taken in `Retrieved` alone, which is reached from
the call, from the resumption by the scheduler (for the current thread and for the one
it chose) and from the retry of the host; one lemma for each path shows the guard on
queued sends that it rests on.

**CriticalSections.**  `SecInv` stands beside the dispatcher's `IInv`.  `SectionsAreExact` alone
is not inductive:

* the copy of a section is written by its own calls, while its mutex is changed by every call
  of the dispatcher; the two agree only because nothing else names the mutex.  `Private` says that
  the section's handle is the only handle of its slot, and that whoever waits for the slot enters
  the section: no guest closes, releases or waits for it;
* a pass wakes the oldest wait that it can satisfy.  It hands a section to the head of
  *its* queue because the waits of a section ask for nothing else, for ever, not alertably,
  one for each thread and none of the owner (`Inside`, from which `Alone`): then a pass
  over any plan leaves this mutex and its waits alone or hands it to the oldest
  (`Passed`, `Handed`), whatever waits of other objects it decides in between;
* `Leave` writes the copy from the release it has prepared and the waiters before it, so that what
  it wrote is what the pass then does must be shown; a waiter that was granted the mutex is inside
  before it resumes, and `Inside` covers the steps in between;
* `Calm` (no callbacks, hence no wait that reports one) and `PendingHeld` (undecided waits keep
  their handles) are what the lemmas about single calls of the dispatcher need.

The queue of the abstract lock is the `Line` of the waits in the order of their ids.
One lemma per action shows `SectionStep`: both invariants, and a step of `SectionLock` or a
stutter.  Entering appends to a line, leaving takes its head and gives it the lock, a withdrawn
wait leaves its place; a termination does the last two to all sections at once
(`Gone`), since a thread may be inside several and wait for another.  `Others`, the queue without
the thread that ended, is written by positions and not with the library's recursive
`SelectSeq`; that it is the same is the assumption `OthersAreTheRest` of
`MCCriticalSections`, which TLC evaluates.

The properties of the dispatcher that run `mutexes` checks are proved for `SpecSections` too.
Three follow from `IInv`; for the others the lemmas of `DispatcherProofs` about single
operations apply to what a call on sections does to the dispatcher (`Regular`).

**Only model-checked.**  Liveness (`TimedWaitsReturn`, `EqualsTakeTurns`) and what needs
ENABLED are out of the prover's reach.  Every other property that a passing run checks is stated by
a theorem, some of them for the programs of its hypothesis only.

## 5. What is not modelled, and why

* Names, access rights, inheritance and pseudo handles: lookups before the modelled
  code, without influence on signals and waits.
* Event bindings of files and pipes, completion ports, process exit in the dispatcher;
  message waits are in `SentMessages`, apart from the other waits.
* user32: windows and what they own, dialogs, menus, controls, hooks, painting, timers and
  input; of the queue status everything but sent messages; SendMessageTimeout and its
  kin; the windows and queues that a thread takes with it when it ends, but for its
  posted and sent messages.
* TLS and FLS slots, guest memory, files and registry: sequential within one call.
* `ExitThread` inside a module load in `ThreadScheduler` (`loads > 0`): there the loader's
  operation stack is only a count; the guard of `ExitThread` says so.
* `ExitThread` inside a detach callback: the phase stays active and the callback
  never returns.  The action has the case (`ExitInDetach`), no run enables it.
* FLS callbacks run in the detach phase before the module callbacks; they count among
  `Callbacks`.  In the code they run before the loader lock is taken, the model takes it
  first; no property distinguishes the two.
* Failures inside a call (allocation, guest memory): a call is prepared completely
  before it is committed, and a refused call changes nothing, so it is a stutter.
  The exception, a notification callback that cannot be entered, is a hazard without
  property.
* The APC queue limit blocks the clock: `Tick` is disabled as the code returns
  `Capacity`.  With callbacks and a guest that never waits alertably again, timeouts
  then never fire; no property claims otherwise.
* In `ModuleLoading`: PE parsing, relocation and the binding of import addresses, static
  TLS, file errors, search paths; an image load has no dependencies.
* In `PendingCalls`: what a service computes, the stack and registers of a callback, and
  cancellation of the whole process.
* In `CriticalSections`: the debug record on the guest heap, spin counts, and a guest that
  uses the private handle it can read from `LockSemaphore`.
* The instruction set, translator, execution cache, graphics, audio and the
  sequential Windows libraries make up most of the repository by size.  They are
  decoders, encoders and computations on data, one call at a time, with no state
  that two actors share; see the notes in `PROJECT.json`.

## 6. Plan

Done: the dispatcher with its APCs and timers, critical sections over it with their
refinement, the scheduler, pending calls with their refinement, module loading, sent
messages, and the theorems above.  Left, in order:

1. **Event bindings, pipes and completion ports**: readiness versus signal bits.
2. **Thread notifications with real module lists**: `ThreadScheduler` composed with
   `ModuleLoading` in place of its count of loads, for `ExitThread` inside a load.
3. **Message waits in the dispatcher**: `SentMessages` composed with `Dispatcher`, for waits on
   objects and messages at once.
