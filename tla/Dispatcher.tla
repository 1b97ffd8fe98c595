----------------------------- MODULE Dispatcher -----------------------------
(***************************************************************************)
(* The dispatcher of the Windows process: waitable objects, handles and    *)
(* waits (SynchronizationContext32, engine/src/windows/synchronization),   *)
(* and around it the part of the process that calls it: the queue of       *)
(* asynchronous procedure calls, the callbacks that are running and the    *)
(* call every thread is blocked in (engine/src/process/windows).           *)
(*                                                                         *)
(* A guest call is one action: the code prepares a plan, then commits it   *)
(* or returns an error and changes nothing.  Which thread runs is left to  *)
(* ThreadScheduler; here any live thread that is not blocked may call.     *)
(***************************************************************************)
EXTENDS SignalPlan

CONSTANTS
    Calls,            \* the calls the guest program makes
    HandleLimit,      \* limits.handles
    MaxHandle,        \* bound: handle values issued (0x8000_0000 in the code)
    MaxWaits,         \* limits.waits
    MaxWait,          \* bound: wait ids issued (u64 in the code)
    MaxDepth,         \* bound: mutex recursion (u32 in the code)
    MaxCount,         \* bound: semaphore maximum a guest asks for
    MaxApcs,          \* limits.apcs
    MaxInvocation,    \* bound: invocation ids issued (u64 in the code)
    MaxNesting,       \* 32 in prepare_invocation_entry
    MaxGeneration,    \* bound: timer generations (u64 in the code)
    Timeouts,         \* timeouts a guest asks for, Never for INFINITE
    Delays,           \* due times a guest asks for, relative to the clock
    Horizon           \* bound: the last instant of the clock

ASSUME BoundsAssumption ==
    /\ {HandleLimit, MaxHandle, MaxWaits, MaxWait, MaxDepth, MaxCount, MaxApcs,
        MaxInvocation, MaxNesting, MaxGeneration, Horizon} \subseteq Nat
    /\ Timeouts \subseteq Nat \cup {Never}
    /\ Delays \subseteq Nat

VARIABLES
    objects,          \* slot -> content, Free where the slot is None
    signaled,         \* slots whose bit is set
    refs,             \* slot -> Object32::handles
    handles,          \* open handle value -> slot
    nextHandle,       \* last handle value issued
    waits,            \* wait id -> Wait32, from the wait call to take_wait
    nextWait,         \* last wait id issued
    apcs,             \* the threads the context believes have an APC queued
    now,              \* the clock of the context
    invocations,      \* invocation id -> queued APC, in id order
    nextInvocation,   \* last invocation id issued
    active,           \* thread -> the calls its running callbacks interrupted
    reply,            \* thread -> the call it is blocked in, or NoReply
    live              \* threads that have not terminated

context == <<objects, signaled, refs, handles, nextHandle, waits, nextWait>>
queue   == <<invocations, nextInvocation, active>>
vars    == <<context, apcs, now, queue, reply, live>>

Invocation == [target : Threads, timer : Nat, generation : Nat]

(* Reply32.  `wait` is 0 when the call never entered the wait table.       *)
(* `delivered` is history: a callback ran while the call was blocked.      *)
Reply   == [wait : Nat, alertable : BOOLEAN, result : Results,
            delivered : BOOLEAN]
NoReply == [wait |-> 0, alertable |-> FALSE, result |-> Pending,
            delivered |-> FALSE]

Init ==
    /\ objects = [s \in Slots |-> Free]
    /\ signaled = {}
    /\ refs = [s \in Slots |-> 0]
    /\ handles = [h \in {} |-> 1]
    /\ nextHandle = 0
    /\ waits = [w \in {} |-> 1]
    /\ nextWait = 0
    /\ apcs = {}
    /\ now = 0
    /\ invocations = [i \in {} |-> 1]
    /\ nextInvocation = 0
    /\ active = [t \in Threads |-> <<>>]
    /\ reply = [t \in Threads |-> NoReply]
    /\ live = Threads

-----------------------------------------------------------------------------
(* Helpers of the actions. *)

Plan == [objects |-> objects, signaled |-> signaled, waits |-> waits]

Running(t)    == t \in live /\ reply[t] = NoReply
Call(t, name) == name \in Calls /\ Running(t)

Undecided == {w \in DOMAIN waits : waits[w].result = Pending}

Queued(t) == {i \in DOMAIN invocations : invocations[i].target = t}

(* An object without handles goes away, unless it is an owned mutex or the *)
(* object of a thread that still runs.                                     *)
Reclaimable(o, count) ==
    /\ count = 0
    /\ o.type # "free"
    /\ ~(o.type = "mutex" /\ o.owner # NoThread)
    /\ ~(o.type = "thread" /\ ~o.terminated)

(* Mutant: a commit that never reclaims. *)
CommitKeeps(p) ==
    /\ objects' = p.objects
    /\ signaled' = p.signaled
    /\ waits' = p.waits

(* commit_signals: publishes a plan; it reclaims typed objects, never events. *)
Commit(p) ==
    LET gone == {s \in Slots : /\ p.objects[s].type # "event"
                               /\ Reclaimable(p.objects[s], refs[s])}
    IN  /\ objects' = [s \in Slots |-> IF s \in gone THEN Free ELSE p.objects[s]]
        /\ signaled' = p.signaled \ gone
        /\ waits' = p.waits

HandleRoom ==
    /\ Cardinality(DOMAIN handles) < HandleLimit
    /\ nextHandle < MaxHandle

FirstFree(s) ==
    /\ objects[s].type = "free"
    /\ \A r \in 1 .. (s - 1) : objects[r].type # "free"

OpenHandle(s) ==
    /\ HandleRoom
    /\ nextHandle' = nextHandle + 1
    /\ handles' = [h \in DOMAIN handles \cup {nextHandle'} |->
                     IF h = nextHandle' THEN s ELSE handles[h]]
    /\ refs' = [refs EXCEPT ![s] = @ + 1]

(* create_event and commit_object_handle of a new object. *)
Create(o, signal) ==
    \E s \in Slots :
        /\ FirstFree(s)
        /\ OpenHandle(s)
        /\ objects' = [objects EXCEPT ![s] = o]
        /\ signaled' = IF signal THEN signaled \cup {s} ELSE signaled \ {s}
        /\ UNCHANGED <<waits, nextWait, apcs, now, queue, reply, live>>

(* Mutant: only the first handle of a wait is looked at. *)
FailFirst(h) ==
    [w \in DOMAIN waits |->
        IF waits[w].result = Pending /\ waits[w].handles # <<>>
             /\ waits[w].handles[1] = h
        THEN [waits[w] EXCEPT !.result = WaitFailed]
        ELSE waits[w]]

(* close_validated: undecided waits that name the handle value fail. *)
FailWaits(h) ==
    [w \in DOMAIN waits |->
        IF waits[w].result = Pending /\ \E i \in DOMAIN waits[w].handles :
                                            waits[w].handles[i] = h
        THEN [waits[w] EXCEPT !.result = WaitFailed]
        ELSE waits[w]]

-----------------------------------------------------------------------------
(* Objects and handles. *)

CreateEvent(t) ==
    /\ Call(t, "CreateEvent")
    /\ \E manual, initial \in BOOLEAN :
         Create([type |-> "event", manual |-> manual], initial)

CreateMutex(t) ==
    /\ Call(t, "CreateMutex")
    /\ \E initial \in BOOLEAN :
         Create([type |-> "mutex", owner |-> IF initial THEN t ELSE NoThread,
                 depth |-> IF initial THEN 1 ELSE 0, abandoned |-> FALSE],
                ~initial)

CreateSemaphore(t) ==
    /\ Call(t, "CreateSemaphore")
    /\ \E maximum \in 1 .. MaxCount : \E initial \in 0 .. maximum :
         Create([type |-> "semaphore", count |-> initial, maximum |-> maximum],
                initial # 0)

CreateWaitableTimer(t) ==
    /\ Call(t, "CreateWaitableTimer")
    /\ \E manual \in BOOLEAN :
         Create([type |-> "timer", manual |-> manual, id |-> nextHandle + 1,
                 due |-> Never, period |-> 0, thread |-> NoThread,
                 callback |-> FALSE, generation |-> 0, queued |-> FALSE],
                FALSE)

(* OpenThread: another handle of the thread's object, or its first object. *)
OpenThread(t, target) ==
    /\ Call(t, "OpenThread")
    /\ LET object == {s \in Slots : /\ objects[s].type = "thread"
                                    /\ objects[s].thread = target}
       IN  \/ \E s \in object :
                /\ OpenHandle(s)
                /\ UNCHANGED <<objects, signaled, waits, nextWait, apcs, now,
                               queue, reply, live>>
           \/ /\ object = {}
              /\ Create([type |-> "thread", thread |-> target,
                         terminated |-> target \notin live],
                        target \notin live)

(* DuplicateHandle, with or without DUPLICATE_CLOSE_SOURCE. *)
DuplicateHandle(t, h) ==
    /\ Call(t, "DuplicateHandle")
    /\ \/ /\ OpenHandle(handles[h])
          /\ UNCHANGED waits
       \/ /\ HandleRoom
          /\ nextHandle' = nextHandle + 1
          /\ handles' = [k \in (DOMAIN handles \ {h}) \cup {nextHandle'} |->
                           IF k = nextHandle' THEN handles[h] ELSE handles[k]]
          /\ waits' = FailWaits(h)
          /\ UNCHANGED refs
    /\ UNCHANGED <<objects, signaled, nextWait, apcs, now, queue, reply, live>>

(* close_validated *)
Close(h) ==
    /\ LET s    == handles[h]
           gone == Reclaimable(objects[s], refs[s] - 1)
       IN  /\ refs' = [refs EXCEPT ![s] = @ - 1]
           /\ objects' = IF gone THEN [objects EXCEPT ![s] = Free] ELSE objects
           /\ signaled' = IF gone THEN signaled \ {s} ELSE signaled
    /\ handles' = [k \in DOMAIN handles \ {h} |-> handles[k]]
    /\ waits' = FailWaits(h)
    /\ UNCHANGED <<nextHandle, nextWait, apcs, now, queue, reply, live>>

CloseHandle(t, h) == Call(t, "CloseHandle") /\ Close(h)

-----------------------------------------------------------------------------
(* Signals. *)

Signal(p) ==
    /\ Commit(p)
    /\ UNCHANGED <<refs, handles, nextHandle, nextWait, apcs, now, queue,
                   reply, live>>

SetEvent(t, h) ==
    LET s == handles[h] IN
    /\ Call(t, "SetEvent")
    /\ objects[s].type = "event"
    /\ Signal(ResolveWaiters(SetSignal(Plan, s), nextWait, now))

ResetEvent(t, h) ==
    LET s == handles[h] IN
    /\ Call(t, "ResetEvent")
    /\ objects[s].type = "event"
    /\ signaled' = signaled \ {s}
    /\ UNCHANGED <<objects, refs, handles, nextHandle, waits, nextWait, apcs,
                   now, queue, reply, live>>

PulseEvent(t, h) ==
    LET s == handles[h] IN
    /\ Call(t, "PulseEvent")
    /\ objects[s].type = "event"
    /\ Signal(ClearSignal(ResolveWaiters(SetSignal(Plan, s), nextWait, now), s))

ReleaseSemaphore(t, h, count) ==
    LET s == handles[h]
        o == objects[s]
    IN  /\ Call(t, "ReleaseSemaphore")
        /\ o.type = "semaphore"
        /\ o.count + count <= o.maximum
        /\ LET posted == PutObject(Plan, s, [o EXCEPT !.count = @ + count])
           IN  Signal(ResolveWaiters(SetSignal(posted, s), nextWait, now))

(* Mutant: waits on several objects are overlooked. *)
SingleWaiters(s) == {w \in Undecided : waits[w].slots = <<s>>}

(* object_waiters *)
Waiters(s) == {w \in Undecided : \E i \in DOMAIN waits[w].slots : waits[w].slots[i] = s}

(* prepare_release_mutex: waiters are resolved only when the mutex becomes *)
(* free and some undecided wait names it (object_waiters); otherwise the   *)
(* mutex alone is written.                                                 *)
Release(t, h) ==
    LET s == handles[h]
        o == objects[s]
        released == [o EXCEPT !.owner = IF o.depth = 1 THEN NoThread ELSE @,
                              !.depth = @ - 1]
    IN  /\ o.type = "mutex"
        /\ o.owner = t
        /\ \/ /\ o.depth = 1 /\ Waiters(s) # {}
              /\ Signal(ResolveWaiters(SetSignal(PutObject(Plan, s, released), s),
                                       nextWait, now))
           \/ /\ ~(o.depth = 1 /\ Waiters(s) # {})
              /\ objects' = [objects EXCEPT ![s] = released]
              /\ signaled' = IF o.depth = 1 THEN signaled \cup {s}
                                            ELSE signaled \ {s}
              /\ UNCHANGED <<refs, handles, nextHandle, waits, nextWait, apcs,
                             now, queue, reply, live>>

ReleaseMutex(t, h) == Call(t, "ReleaseMutex") /\ Release(t, h)

(* try_acquire_mutex: for critical sections only. *)
TryAcquireMutex(t, h) ==
    LET s == handles[h]
        o == objects[s]
    IN  /\ o.type = "mutex"
        /\ o.owner \in {NoThread, t}
        /\ o.depth < MaxDepth
        /\ objects' = [objects EXCEPT ![s] = Consume(o, t)]
        /\ signaled' = signaled \ {s}
        /\ UNCHANGED <<refs, handles, nextHandle, waits, nextWait, apcs, now,
                       queue, reply, live>>

-----------------------------------------------------------------------------
(* Waits. *)

(* The call is answered at once: it returns, unless it is alertable and an *)
(* APC is queued, when the answer is kept until the APC has run.           *)
Answer(t, result, alertable) ==
    reply' = IF alertable /\ Queued(t) # {}
             THEN [reply EXCEPT ![t] = [wait |-> 0, alertable |-> TRUE,
                                        result |-> result, delivered |-> FALSE]]
             ELSE reply

NewWait(t, hs, mode, timeout, alertable) ==
    [thread |-> t, handles |-> hs, slots |-> [i \in DOMAIN hs |-> handles[hs[i]]],
     mode |-> mode,
     deadline |-> IF timeout = Never THEN Never ELSE now + timeout,
     alertable |-> alertable, result |-> Pending]

(* validated_wait: no handle twice, no object twice when all are awaited;  *)
(* a deadline beyond the last instant is DeadlineOverflow.                 *)
ValidWait(w) ==
    /\ \A i, j \in DOMAIN w.handles : i # j =>
         /\ w.handles[i] # w.handles[j]
         /\ w.mode = "all" => w.slots[i] # w.slots[j]
    /\ w.deadline <= Horizon

(* The recursion count of a mutex the wait takes must not overflow. *)
DepthRoom(p, w) ==
    \A s \in Taken(p, w) : p.objects[s].type = "mutex" => p.objects[s].depth < MaxDepth

(* wait_projected and the tail of signal_and_wait, on the plan `p` that    *)
(* the call has prepared: answered by a queued APC, by the objects, by a   *)
(* zero timeout, or entered into the wait table.                           *)
WaitOn(p, w, timeout) ==
    LET t == w.thread IN
    /\ \/ /\ w.alertable /\ t \in apcs
          /\ Commit(p)
          /\ Answer(t, IoCompletion, TRUE)
          /\ UNCHANGED nextWait
       \/ /\ ~(w.alertable /\ t \in apcs)
          /\ Satisfied(p, w) /\ DepthRoom(p, w)
          /\ Commit(TakeObjects(p, w))
          /\ Answer(t, GrantResult(p, w), w.alertable)
          /\ UNCHANGED nextWait
       \/ /\ ~(w.alertable /\ t \in apcs)
          /\ ~Satisfied(p, w) /\ timeout = 0
          /\ Commit(p)
          /\ Answer(t, ExpiryResult(w.mode), w.alertable)
          /\ UNCHANGED nextWait
       \/ /\ ~(w.alertable /\ t \in apcs)
          /\ ~Satisfied(p, w) /\ timeout # 0
          /\ Cardinality(DOMAIN waits) < MaxWaits
          /\ nextWait < MaxWait
          /\ nextWait' = nextWait + 1
          /\ Commit([p EXCEPT !.waits =
                       [k \in DOMAIN @ \cup {nextWait'} |->
                          IF k = nextWait' THEN w ELSE @[k]]])
          /\ reply' = [reply EXCEPT ![t] =
                         [wait |-> nextWait', alertable |-> w.alertable,
                          result |-> Pending, delivered |-> FALSE]]
    /\ UNCHANGED <<refs, handles, nextHandle, apcs, now, queue, live>>

Alertable == IF "Alertable" \in Calls THEN BOOLEAN ELSE {FALSE}

(* WaitForSingleObject[Ex] and WaitForMultipleObjects[Ex]. *)
WaitForObjects(t, usable) ==
    \E mode \in {"any", "all"}, timeout \in Timeouts, alertable \in Alertable :
        /\ Call(t, IF mode = "any" THEN "WaitAny" ELSE "WaitAll")
        /\ \E n \in 1 .. 2 : \E hs \in [1 .. n -> usable] :
             LET w == NewWait(t, hs, mode, timeout, alertable) IN
             /\ n = 1 => mode = "any"
             /\ ValidWait(w)
             /\ WaitOn(Plan, w, timeout)

(* Sleep and SleepEx. *)
Sleep(t) ==
    \E timeout \in Timeouts, alertable \in Alertable :
        LET w == NewWait(t, <<>>, "sleep", timeout, alertable) IN
        /\ Call(t, "Sleep")
        /\ ValidWait(w)
        /\ WaitOn(Plan, w, timeout)

(* SignalObjectAndWait: the call accepts only an event to signal           *)
(* (prepare_signal_handles).  Waiters see the signal before the caller.    *)
SignalObjectAndWait(t, h, awaited) ==
    \E timeout \in Timeouts, alertable \in Alertable :
        LET w == NewWait(t, <<awaited>>, "any", timeout, alertable) IN
        /\ Call(t, "SignalObjectAndWait")
        /\ objects[handles[h]].type = "event"
        /\ ValidWait(w)
        /\ WaitOn(ResolveWaiters(SetSignal(Plan, handles[h]), nextWait, now),
                  w, timeout)

(* advance_synchronization_reply: the blocked call returns once it has a   *)
(* result, but an alertable one only when no APC of the thread is queued.  *)
Answered(t) == /\ reply[t] # NoReply
               /\ reply[t].wait # 0 => waits[reply[t].wait].result # Pending

Forget(id) == [k \in DOMAIN waits \ {id} |-> waits[k]]

FinishReply(t) ==
    /\ t \in live
    /\ Answered(t)
    /\ ~(reply[t].alertable /\ Queued(t) # {})
    /\ waits' = Forget(reply[t].wait)
    /\ reply' = [reply EXCEPT ![t] = NoReply]
    /\ UNCHANGED <<objects, signaled, refs, handles, nextHandle, nextWait, apcs,
                   now, queue, live>>

(* cancel_windows_wait: the host withdraws the call, decided or not. *)
CancelWait(t) ==
    /\ "CancelWait" \in Calls
    /\ t \in live
    /\ reply[t].wait # 0
    /\ waits' = Forget(reply[t].wait)
    /\ reply' = [reply EXCEPT ![t] = NoReply]
    /\ UNCHANGED <<objects, signaled, refs, handles, nextHandle, nextWait, apcs,
                   now, queue, live>>

-----------------------------------------------------------------------------
(* Asynchronous procedure calls. *)

(* QueueUserAPC. *)
QueueUserAPC(t, target) ==
    /\ Call(t, "QueueUserAPC")
    /\ target \in live
    /\ Cardinality(DOMAIN invocations) < MaxApcs
    /\ nextInvocation < MaxInvocation
    /\ nextInvocation' = nextInvocation + 1
    /\ invocations' = [i \in DOMAIN invocations \cup {nextInvocation'} |->
                         IF i = nextInvocation'
                         THEN [target |-> target, timer |-> 0, generation |-> 0]
                         ELSE invocations[i]]
    /\ apcs' = apcs \cup {target}
    /\ waits' = AlertThreads(Plan, {target}).waits
    /\ UNCHANGED <<objects, signaled, refs, handles, nextHandle, nextWait, now,
                   active, reply, live>>

(* prepare_timer_apc_delivery: the timer may push its callback again, if   *)
(* it still exists and was not set anew.                                   *)
Dequeued(p, apc) ==
    [p EXCEPT !.objects = [s \in Slots |->
        IF /\ @[s].type = "timer"
           /\ @[s].id = apc.timer
           /\ @[s].generation = apc.generation
        THEN [@[s] EXCEPT !.queued = FALSE]
        ELSE @[s]]]

(* Mutant: the list never forgets a thread. *)
KeepApcs(t, remaining) == apcs' = IF remaining THEN apcs \cup {t} ELSE apcs

(* project_pending_apcs: the context's list follows the queue of thread t. *)
MarkApcs(t, remaining) == apcs' = IF remaining THEN apcs \cup {t} ELSE apcs \ {t}

(* begin_pending_thread_invocation: the oldest APC of a thread blocked in  *)
(* an alertable call starts to run.                                        *)
DeliverApc(t) ==
    \E i \in Queued(t) :
        /\ t \in live
        /\ reply[t].alertable
        /\ \A j \in Queued(t) : i <= j
        /\ Len(active[t]) < MaxNesting
        /\ LET remaining == Queued(t) # {i}
               p == IF invocations[i].timer # 0 THEN Dequeued(Plan, invocations[i])
                                                ELSE Plan
           IN  /\ Commit(IF remaining THEN AlertThreads(p, {t}) ELSE p)
               /\ MarkApcs(t, remaining)
        /\ invocations' = [j \in DOMAIN invocations \ {i} |-> invocations[j]]
        /\ active' = [active EXCEPT
                        ![t] = Append(@, [reply[t] EXCEPT !.delivered = TRUE])]
        /\ reply' = [reply EXCEPT ![t] = NoReply]
        /\ UNCHANGED <<refs, handles, nextHandle, nextWait, now, nextInvocation,
                       live>>

(* finish_thread_invocation: the callback returns into the call it         *)
(* interrupted.                                                            *)
ReturnApc(t) ==
    /\ Running(t)
    /\ active[t] # <<>>
    /\ reply' = [reply EXCEPT ![t] = active[t][Len(active[t])]]
    /\ active' = [active EXCEPT ![t] = SubSeq(@, 1, Len(@) - 1)]
    /\ UNCHANGED <<context, apcs, now, invocations, nextInvocation, live>>

-----------------------------------------------------------------------------
(* Waitable timers. *)

(* SetWaitableTimer and CancelWaitableTimer on the timer in slot s, once   *)
(* the plan holds its new state: queued callbacks of the timer go away and *)
(* the thread that had set it is told whether it still has an APC.  If it  *)
(* has none and runs none, its waits that reported WAIT_IO_COMPLETION are  *)
(* undecided again.                                                        *)
Retime(p, s) ==
    LET owner == objects[s].thread
        stale == {i \in DOMAIN invocations : invocations[i].timer = objects[s].id}
    IN  /\ \/ /\ owner = NoThread
              /\ Commit(p)
              /\ UNCHANGED apcs
           \/ /\ owner # NoThread /\ Queued(owner) \ stale # {}
              /\ Commit(AlertThreads(p, {owner}))
              /\ MarkApcs(owner, TRUE)
           \/ /\ owner # NoThread /\ Queued(owner) \ stale = {}
              /\ active[owner] # <<>>
              /\ Commit(p)
              /\ MarkApcs(owner, FALSE)
           \/ /\ owner # NoThread /\ Queued(owner) \ stale = {}
              /\ active[owner] = <<>>
              /\ Commit(ResolveWaiters(RearmThread(p, owner), nextWait, now))
              /\ MarkApcs(owner, FALSE)
        /\ invocations' = [i \in DOMAIN invocations \ stale |-> invocations[i]]
        /\ UNCHANGED <<refs, handles, nextHandle, nextWait, now, nextInvocation,
                       active, reply, live>>

SetWaitableTimer(t, h, delay, period, callback) ==
    LET s == handles[h]
        o == objects[s]
    IN  /\ Call(t, "SetWaitableTimer")
        /\ callback => "TimerCallback" \in Calls
        /\ o.type = "timer"
        /\ o.generation < MaxGeneration
        /\ now + delay <= Horizon
        /\ Retime(ClearSignal(
                    PutObject(Plan, s,
                       [o EXCEPT !.due = now + delay, !.period = period,
                                 !.thread = t, !.callback = callback,
                                 !.generation = @ + 1, !.queued = FALSE]), s), s)

CancelWaitableTimer(t, h) ==
    LET s == handles[h]
        o == objects[s]
    IN  /\ Call(t, "CancelWaitableTimer")
        /\ o.type = "timer"
        /\ o.generation < MaxGeneration
        /\ Retime(PutObject(Plan, s, [o EXCEPT !.due = Never, !.queued = FALSE,
                                               !.generation = @ + 1]), s)

(* prepare_synchronization_clock: the clock is observed at t.  Timers that *)
(* are due fire and push their callbacks, the threads of the callbacks are *)
(* alerted, then the undecided waits are resolved or expire.  With no room *)
(* for every callback the whole observation is refused.                    *)
Rank(p, s, t) == nextInvocation + Cardinality({r \in Firing(p, t) : r <= s})

Tick(t) ==
    LET firing == Firing(Plan, t)
        pushed == {Rank(Plan, s, t) : s \in firing}
        Slot(i) == CHOOSE s \in firing : Rank(Plan, s, t) = i
        alerted == {objects[s].thread : s \in firing}
    IN  /\ t > now \/ \E s \in Slots : TimerExpired(objects[s], t)
        /\ Cardinality(DOMAIN invocations) + Cardinality(firing) <= MaxApcs
        /\ nextInvocation + Cardinality(firing) <= MaxInvocation
        /\ alerted \subseteq live
        /\ Commit(ResolveWaiters(AlertThreads(ExpireTimers(Plan, t), alerted),
                                 nextWait, t))
        /\ apcs' = apcs \cup alerted
        /\ invocations' = [i \in DOMAIN invocations \cup pushed |->
                             IF i \in DOMAIN invocations THEN invocations[i]
                             ELSE [target |-> objects[Slot(i)].thread,
                                   timer |-> objects[Slot(i)].id,
                                   generation |-> objects[Slot(i)].generation]]
        /\ nextInvocation' = nextInvocation + Cardinality(firing)
        /\ now' = t
        /\ UNCHANGED <<refs, handles, nextHandle, nextWait, active, reply, live>>

-----------------------------------------------------------------------------
(* terminate_windows_thread, by the thread itself or by another one.  The  *)
(* exit of the last live thread is the exit of the process, not modelled.  *)
TerminateThread(t, target) ==
    /\ Call(t, "TerminateThread")
    /\ target \in live
    /\ live # {target}
    /\ Commit(ResolveWaiters(ExitThreadObjects(DropThread(Plan, target), target),
                             nextWait, now))
    /\ apcs' = apcs \ {target}
    /\ invocations' = [i \in DOMAIN invocations \ Queued(target) |-> invocations[i]]
    /\ active' = [active EXCEPT ![target] = <<>>]
    /\ reply' = [reply EXCEPT ![target] = NoReply]
    /\ live' = live \ {target}
    /\ UNCHANGED <<refs, handles, nextHandle, nextWait, now, nextInvocation>>

-----------------------------------------------------------------------------
(* What the guest program calls in thread t, on the handles it uses. *)
Guest(t, usable) ==
    \/ CreateEvent(t) \/ CreateMutex(t) \/ CreateSemaphore(t)
    \/ CreateWaitableTimer(t)
    \/ \E target \in Threads : \/ OpenThread(t, target)
                              \/ QueueUserAPC(t, target)
                              \/ TerminateThread(t, target)
    \/ \E h \in usable :
         \/ DuplicateHandle(t, h) \/ CloseHandle(t, h)
         \/ SetEvent(t, h) \/ ResetEvent(t, h) \/ PulseEvent(t, h)
         \/ \E count \in 1 .. MaxCount : ReleaseSemaphore(t, h, count)
         \/ ReleaseMutex(t, h)
         \/ \E awaited \in usable : SignalObjectAndWait(t, h, awaited)
         \/ \E delay \in Delays, period \in {0, 1}, callback \in BOOLEAN :
              SetWaitableTimer(t, h, delay, period, callback)
         \/ CancelWaitableTimer(t, h)
    \/ WaitForObjects(t, usable) \/ Sleep(t)

Next ==
    \/ \E t \in Threads : \/ Guest(t, DOMAIN handles)
                          \/ FinishReply(t) \/ CancelWait(t)
                          \/ DeliverApc(t) \/ ReturnApc(t)
    \/ \E t \in now .. Horizon : Tick(t)

Spec == Init /\ [][Next]_vars

(* The host lets time pass, and lets a blocked thread go on when its call   *)
(* is answered or a callback can run in it: the scheduler resumes it        *)
(* (ThreadScheduler!EqualsTakeTurns, for threads of one priority).  Nothing *)
(* is assumed of the guest program, nor that a callback ever returns.       *)
Fairness ==
    /\ \A t \in Threads : WF_vars(FinishReply(t)) /\ WF_vars(DeliverApc(t))
    /\ WF_vars(\E t \in now .. Horizon : Tick(t))

FairSpec == Spec /\ Fairness

-----------------------------------------------------------------------------
(* Invariants. *)

TypeOK ==
    /\ objects \in [Slots -> ObjectKind]
    /\ signaled \subseteq Slots
    /\ refs \in [Slots -> Nat]
    /\ nextHandle \in Nat
    /\ DOMAIN handles \subseteq 1 .. nextHandle
    /\ handles \in [DOMAIN handles -> Slots]
    /\ nextWait \in Nat
    /\ DOMAIN waits \subseteq 1 .. nextWait
    /\ waits \in [DOMAIN waits -> WaitRecord]
    /\ apcs \subseteq Threads
    /\ now \in Nat
    /\ nextInvocation \in Nat
    /\ DOMAIN invocations \subseteq 1 .. nextInvocation
    /\ invocations \in [DOMAIN invocations -> Invocation]
    /\ active \in [Threads -> Seq(Reply)]
    /\ reply \in [Threads -> Reply]
    /\ live \subseteq Threads

(* No wakeup is lost: after every call and every tick, a wait that is still *)
(* undecided cannot be satisfied by the objects, has not expired, and is    *)
(* not an alertable wait of a thread with a queued APC.  (resolve_waiters   *)
(* runs only in some operations; the others must never make a wait ready.)  *)
NoLostWakeup ==
    \A w \in Undecided :
        /\ ~Satisfied(Plan, waits[w])
        /\ ~Expired(waits[w], now)
        /\ ~(waits[w].alertable /\ waits[w].thread \in apcs)

(* The three encodings of a mutex's state agree, whatever mix of calls,     *)
(* grants and thread exits wrote them: no owner, no recursion, signaled.    *)
(* An owner is alive, and an abandoned mutex is free.                       *)
MutexCoherent ==
    \A s \in Slots : objects[s].type = "mutex" =>
        /\ objects[s].owner = NoThread <=> objects[s].depth = 0
        /\ objects[s].owner = NoThread <=> s \in signaled
        /\ objects[s].owner # NoThread => objects[s].owner \in live
        /\ objects[s].abandoned => objects[s].owner = NoThread

(* Each slot counts exactly the open handles that name it, an open handle   *)
(* never names a free slot, and a slot stays in use only for a handle, an   *)
(* owned mutex or a running thread.                                         *)
HandlesExact ==
    \A s \in Slots :
        /\ refs[s] = Cardinality({h \in DOMAIN handles : handles[h] = s})
        /\ refs[s] # 0 => objects[s].type # "free"
        /\ ~Reclaimable(objects[s], refs[s])
        /\ objects[s].type = "free" => s \notin signaled

(* A wait that is still undecided names only open handles, and they still   *)
(* name the slots it waits on: closing a handle fails the waits on it.      *)
UndecidedWaitsHoldHandles ==
    \A w \in Undecided : \A i \in DOMAIN waits[w].handles :
        /\ waits[w].handles[i] \in DOMAIN handles
        /\ handles[waits[w].handles[i]] = waits[w].slots[i]

(* A terminated thread leaves nothing behind that could act for it: no      *)
(* wait, mutex, APC or armed callback timer.  A clock observation that      *)
(* meets such a timer fails with Stale.                                     *)
DeadThreadsOwnNothing ==
    \A t \in Threads \ live :
        /\ \A w \in DOMAIN waits : waits[w].thread # t
        /\ Queued(t) = {} /\ t \notin apcs
        /\ \A s \in Slots :
             /\ objects[s].type = "mutex" => objects[s].owner # t
             /\ objects[s].type = "timer" /\ objects[s].thread = t
                  /\ objects[s].callback => objects[s].due = Never
             /\ objects[s].type = "thread" /\ objects[s].thread = t
                  => objects[s].terminated

(* The context keeps its own list of threads with APCs; it is exactly the   *)
(* set of threads that the process's queue has an APC for.                  *)
ApcListExact == apcs = {t \in Threads : Queued(t) # {}}

(* A timer has at most one callback queued, of its current setting, and its *)
(* queued flag says whether it has: a periodic timer coalesces.             *)
TimerCallbackExact ==
    \A s \in Slots : objects[s].type = "timer" =>
        LET own == {i \in DOMAIN invocations : invocations[i].timer = objects[s].id}
        IN  /\ Cardinality(own) = IF objects[s].queued THEN 1 ELSE 0
            /\ \A i \in own : /\ invocations[i].generation = objects[s].generation
                              /\ invocations[i].target = objects[s].thread

(* The three lists that know of a queued callback, those of the dispatcher, *)
(* the thread runtime and the timer, agree after expiry, delivery, setting  *)
(* anew and cancellation in any order.                                      *)
CallbacksAreExact == ApcListExact /\ TimerCallbackExact

(* A thread never blocks forever on a call that is over: its call names a   *)
(* wait in the table that is its own, and the table holds no wait that no   *)
(* call will take.                                                          *)
WaitsHaveCallers ==
    LET Frames(t) == {reply[t]} \cup {active[t][i] : i \in DOMAIN active[t]}
    IN  /\ \A t \in Threads : \A f \in Frames(t) : f.wait # 0 =>
             f.wait \in DOMAIN waits /\ waits[f.wait].thread = t
        /\ \A w \in DOMAIN waits : \E f \in Frames(waits[w].thread) : f.wait = w

(* Ends of threads and withdrawn calls leave nothing that acts for no one,  *)
(* and take nothing that someone waits on.                                  *)
ExitsAreClean == DeadThreadsOwnNothing /\ WaitsHaveCallers

(* WAIT_IO_COMPLETION and callbacks go together: an alertable call that is  *)
(* about to return it ran a callback while it was blocked, and one that a   *)
(* callback interrupted is decided and never waits again.                   *)
AlertableCallsEndTruthfully ==
    \A t \in live :
        LET result == IF reply[t].wait # 0 THEN waits[reply[t].wait].result
                                           ELSE reply[t].result
        IN  /\ result = IoCompletion /\ Queued(t) = {} => reply[t].delivered
            /\ reply[t].delivered => result # Pending

-----------------------------------------------------------------------------
(* Action properties. *)

Success(w) == w.mode # "sleep" /\ Granted(w.result)

(* The waits that a step grants, and the objects each of them takes. *)
NewlyGranted == {w \in DOMAIN waits' : /\ Success(waits'[w])
                                       /\ w \in Undecided}
TakenBy(w) ==
    IF w.mode = "all" THEN {w.slots[i] : i \in DOMAIN w.slots}
    ELSE {w.slots[1 + (IF w.result >= Abandoned THEN w.result - Abandoned
                                                ELSE w.result)]}

(* Waiters are served in the order they began to wait: a step that grants a *)
(* wait leaves no older undecided wait on the same objects in the same mode *)
(* behind.  (The owner of a mutex may take it again before others.)         *)
FirstComeFirstServed ==
    [][\A w \in NewlyGranted : \A v \in Undecided \cap DOMAIN waits' :
         LET rivals == /\ v < w
                       /\ waits[v].slots = waits'[w].slots
                       /\ waits[v].mode = waits'[w].mode
                       /\ \A s \in TakenBy(waits'[w]) :
                            \/ objects[s].type # "mutex"
                            \/ objects[s].owner # waits[w].thread
         IN  rivals => waits'[v].result # Pending]_vars

(* One signal, one thread: a step grants an auto-reset event, a timer that  *)
(* resets itself or a mutex to at most one wait, and a semaphore to no more *)
(* waits than it has units after the posts of the step.                     *)
SignalsAreNotShared ==
    [][\A s \in Slots :
         LET takers == {w \in NewlyGranted : s \in TakenBy(waits'[w])}
             o == objects[s]
         IN  /\ \/ o.type = "mutex"
                \/ o.type \in {"event", "timer"} /\ ~o.manual
                => Cardinality(takers) <= 1
             /\ o.type = "semaphore" /\ objects'[s].type = "semaphore"
                => Cardinality(takers) + objects'[s].count <= o.maximum]_vars

(* A result is final: the result of a decided wait changes only when a      *)
(* cancelled timer takes back WAIT_IO_COMPLETION.                           *)
DecidedWaitsKeepTheirResult ==
    [][\A w \in DOMAIN waits \ Undecided :
         w \in DOMAIN waits' /\ waits'[w].result # waits[w].result
            => /\ waits[w].result = IoCompletion
               /\ waits[w].thread \notin apcs']_vars

(* The mutex of slot s was left by an owner that exited, earlier or in this *)
(* step, and nobody has taken it since.                                     *)
LeftBehind(s) ==
    /\ objects[s].type = "mutex"
    /\ \/ objects[s].abandoned
       \/ objects[s].owner # NoThread /\ objects[s].owner \notin live'

(* The next owner of a mutex that its owner left by exiting is told, however *)
(* long ago that was: a step grants a blocked wait WAIT_ABANDONED if and    *)
(* only if the wait takes such a mutex, be it for all its objects or for    *)
(* one.  So that the next owner can be told, the mark of abandonment stays  *)
(* through every other step until the mutex is taken or goes away, no       *)
(* release leaves one, and who takes the mutex clears it.  (A wait that is  *)
(* answered at once returns the same GrantResult, which no state records;   *)
(* EnterCriticalSection takes a mutex and has no result.)                   *)
AbandonmentIsReported ==
    [][/\ \A w \in NewlyGranted :
             waits'[w].result >= Abandoned <=> \E s \in TakenBy(waits'[w]) : LeftBehind(s)
       /\ \A s \in Slots : objects'[s].type = "mutex" =>
             (objects'[s].abandoned <=> LeftBehind(s) /\ objects'[s].owner = NoThread)]_vars

-----------------------------------------------------------------------------
(* Liveness. *)

(* A wait with a timeout is over in the end, whatever the other threads do: *)
(* its thread runs again or is terminated.                                  *)
TimedWaitsReturn ==
    \A t \in Threads :
        (/\ reply[t].wait # 0
         /\ waits[reply[t].wait].deadline # Never) ~> (reply[t] = NoReply)

=============================================================================
