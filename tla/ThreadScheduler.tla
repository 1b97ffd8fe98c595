--------------------------- MODULE ThreadScheduler ---------------------------
(***************************************************************************)
(* The thread scheduler of the Windows process (ThreadRuntime32,           *)
(* engine/src/process/windows/threads) with the loader lock, which delays  *)
(* the start and the exit of threads.                                      *)
(*                                                                         *)
(* One engine runs one guest thread at a time, the current one, with its   *)
(* context in the engine; the context of every other live thread is parked *)
(* in its record.  The guest calls, and the host calls                     *)
(* schedule_windows_thread: when a call did not complete, when the engine  *)
(* asks for it (schedule_required), after a callback, or every 8 ms        *)
(* (sdk/runtime/session.js).  A pass of the loop in                        *)
(* schedule_windows_thread is one action.                                  *)
(*                                                                         *)
(* What a blocked call waits for is left to Dispatcher: here it is blocked *)
(* and some day answered.                                                  *)
(***************************************************************************)
EXTENDS Integers, FiniteSets, Sequences

CONSTANTS
    MaxThread,      \* bound: thread ids issued (next_id, u32 in the code)
    ThreadLimit,    \* limits.threads
    MaxSuspend,     \* 127 in change_thread_suspend
    Priorities,     \* priorities a guest asks for
    Callbacks,      \* attached modules that want thread notifications
    MaxLoads,       \* bound: nested LoadLibrary calls of one context
    Calls           \* the calls the guest program makes

ASSUME SchedulerAssumption ==
    /\ {ThreadLimit, MaxSuspend, Callbacks, MaxLoads} \subseteq Nat
    /\ MaxThread \in Nat \ {0}
    /\ Priorities \subseteq Int
    /\ 0 \in Priorities

Threads  == 1 .. MaxThread
NoThread == 0

VARIABLES
    threads,        \* id -> ThreadRecord32, Absent before creation and after removal
    current,        \* the thread whose context the engine holds
    required,       \* schedule_required, NoThread for None
    loader,         \* loader_owner and loader_depth
    lastId,         \* next_id - 1
    host,           \* what the host does next
    passes          \* passes the running schedule_windows_thread has made

vars == <<threads, current, required, loader, lastId, host, passes>>

(* "guest": guest code runs, and a schedule may come at any time.           *)
(* "schedule": the host schedules before any guest code runs.               *)
(* "waiting": the last schedule found nothing to run.  "exited": it is over. *)
HostStates == {"guest", "schedule", "waiting", "exited"}

ThreadState == {"running", "runnable", "suspended", "waiting", "terminated"}

(* The pending call of a context: none, blocked on some service, answered, *)
(* waiting for the loader lock, or ExitThread, which never returns.        *)
CallStates == {"none", "blocked", "answered", "loader", "exit"}

(* What take_windows_thread_context moves: the pending call and the module *)
(* loads (modules.operations) of the context.                              *)
Context == [call : CallStates, loads : Nat]
Empty   == [call |-> "none", loads |-> 0]

(* ThreadInitialization32.  `active` says its callback is running; an exit *)
(* requested inside the attach phase is not `prepared` yet.                *)
Lifecycle == [reason : {"none", "attach", "detach"}, calls : Int,
              active : BOOLEAN, prepared : BOOLEAN]
NoPhase   == [reason |-> "none", calls |-> 0, active |-> FALSE, prepared |-> FALSE]

(* `context` is the thread's context, held by the engine for the current   *)
(* thread and otherwise in `saved`: `parked` says that `saved` is Some.    *)
(* `frames` are the contexts under the callbacks that run on the thread.   *)
Record == [state : ThreadState \cup {"absent"}, suspends : Nat, priority : Int,
           parked : BOOLEAN, context : Context, frames : Seq(Context),
           started : BOOLEAN, phase : Lifecycle, leaving : BOOLEAN]

Absent == [state |-> "absent", suspends |-> 0, priority |-> 0, parked |-> FALSE,
           context |-> Empty, frames |-> <<>>, started |-> FALSE,
           phase |-> NoPhase, leaving |-> FALSE]

Primary == [Absent EXCEPT !.state = "running", !.started = TRUE]

Live(r) == r.state \notin {"absent", "terminated"}

Init ==
    /\ threads = [t \in Threads |-> IF t = 1 THEN Primary ELSE Absent]
    /\ current = 1
    /\ required = NoThread
    /\ loader = [owner |-> NoThread, depth |-> 0]
    /\ lastId = 1
    /\ host = "guest"
    /\ passes = 0

-----------------------------------------------------------------------------
(* The plan a handler works on, and the loader lock. *)

Plan == [threads |-> threads, current |-> current, required |-> required,
         loader |-> loader]

Publish(p) == /\ threads' = p.threads
              /\ current' = p.current
              /\ required' = p.required
              /\ loader' = p.loader

LastLive(p) == Cardinality({u \in Threads : Live(p.threads[u])}) = 1

(* loader_initialization_owner is none or the thread. *)
LoaderOpen(l, t) == l.owner \in {NoThread, t}

AcquireLoader(p, t) ==
    [p EXCEPT !.loader = [owner |-> t, depth |-> @.depth + 1]]

ReleaseLoader(p) ==
    [p EXCEPT !.loader = [owner |-> IF @.depth = 1 THEN NoThread ELSE @.owner,
                          depth |-> @.depth - 1]]

-----------------------------------------------------------------------------
(* Starting and leaving: advance_windows_thread_initialization. *)

(* terminate_windows_thread: the contexts of the thread go away. *)
Terminated(p, t) ==
    [p EXCEPT !.threads[t] = [@ EXCEPT !.state = "terminated", !.parked = FALSE,
                                       !.context = Empty, !.frames = <<>>]]

(* retire_process_threads: the process is over. *)
Retired(p) ==
    [p EXCEPT !.required = NoThread,
              !.threads = [t \in Threads |->
                  IF @[t].state = "absent" THEN @[t]
                  ELSE [@[t] EXCEPT !.state = "terminated", !.parked = FALSE,
                                    !.frames = <<>>, !.phase = NoPhase,
                                    !.leaving = FALSE]]]

(* The phase begins, under the loader lock, or its callbacks are listed    *)
(* anew for an exit requested in the attach phase.                         *)
Begun(p, t) ==
    LET r == p.threads[t]
        reason == IF r.leaving THEN "detach" ELSE "attach"
        phase == [reason |-> reason, calls |-> Callbacks, active |-> FALSE,
                  prepared |-> TRUE]
    IN  IF r.phase.reason = "none" /\ (r.leaving \/ ~r.started)
        THEN AcquireLoader([p EXCEPT !.threads[t].phase = phase], t)
        ELSE IF r.phase.reason # "none" /\ ~r.phase.prepared
        THEN [p EXCEPT !.threads[t].phase = phase]
        ELSE p

(* enter_thread_invocation: the next callback runs on top of the context. *)
CallbackEntered(p, t) ==
    LET r == p.threads[t] IN
    [p EXCEPT !.threads[t] =
        [r EXCEPT !.state = "running", !.context = Empty,
                  !.frames = Append(@, r.context), !.phase.active = TRUE]]

(* Mutants: the loader lock is not released by a thread that is gone; nor  *)
(* by one that has started.                                                *)
PhaseEndedLocked(p, t) ==
    LET Over(q) == [q EXCEPT !.threads[t].phase = NoPhase, !.threads[t].leaving = FALSE]
    IN  IF p.threads[t].phase.reason = "attach"
        THEN ReleaseLoader(Over([p EXCEPT !.threads[t].started = TRUE]))
        ELSE Over(IF LastLive(p) THEN Retired(p) ELSE Terminated(p, t))

PhaseEndedNested(p, t) ==
    LET Over(q) == [q EXCEPT !.threads[t].phase = NoPhase, !.threads[t].leaving = FALSE]
    IN  IF p.threads[t].phase.reason = "attach"
        THEN Over([p EXCEPT !.threads[t].started = TRUE])
        ELSE ReleaseLoader(Over(IF LastLive(p) THEN Retired(p) ELSE Terminated(p, t)))

(* All callbacks have returned: the thread is started, or gone. *)
PhaseEnded(p, t) ==
    LET r == p.threads[t]
        Over(q) == ReleaseLoader([q EXCEPT !.threads[t].phase = NoPhase,
                                           !.threads[t].leaving = FALSE])
    IN  IF r.phase.reason = "attach"
        THEN Over([p EXCEPT !.threads[t].started = TRUE])
        ELSE Over(IF LastLive(p) THEN Retired(p) ELSE Terminated(p, t))

Advanced(p, t) ==
    IF p.threads[t].phase.active THEN p
    ELSE LET b == Begun(p, t)
             phase == b.threads[t].phase
         IN  IF phase.reason = "none" THEN b
             ELSE IF phase.calls > 0 THEN CallbackEntered(b, t)
             ELSE PhaseEnded(b, t)

-----------------------------------------------------------------------------
(* One pass of schedule_windows_thread. *)

(* resume_ready_thread_provider, resume_ready_thread_wait and              *)
(* resume_module_loader_wait: the call of the current thread completes if  *)
(* it can; a LoadLibrary that was waiting takes the lock.                  *)
CallReturned(p) ==
    LET c == p.current
        context == p.threads[c].context
    IN  CASE context.call = "answered" ->
               [p EXCEPT !.threads[c].context.call = "none"]
          [] context.call = "loader" /\ LoaderOpen(p.loader, c) ->
               AcquireLoader([p EXCEPT !.threads[c].context =
                                 [call |-> "none", loads |-> @.loads + 1]], c)
          [] OTHER -> p

(* Mutant: a completed call undoes a suspension. *)
ResumedSuspended(p) ==
    LET q == CallReturned(p)
        r == q.threads[q.current]
    IN  CASE Live(r) /\ r.context.call = "none" ->
               [q EXCEPT !.threads[q.current].state = "running"]
          [] r.state = "running" /\ r.context.call # "none" ->
               [q EXCEPT !.threads[q.current].state = "waiting"]
          [] OTHER -> q

(* ... and its state follows: it runs, or it waits.  A thread that gets the *)
(* loader lock runs without another look at its suspend count.             *)
Resumed(p) ==
    LET q == CallReturned(p)
        c == q.current
        r == q.threads[c]
        loaded == p.threads[c].context.call = "loader"
    IN  CASE Live(r) /\ r.context.call = "none" /\ (loaded \/ r.suspends = 0) ->
               [q EXCEPT !.threads[c].state = "running"]
          [] r.state = "running" /\ r.context.call # "none" ->
               [q EXCEPT !.threads[c].state = "waiting"]
          [] OTHER -> q

(* SavedThread32::ready *)
SavedReady(p, t) ==
    LET call == p.threads[t].context.call IN
    /\ p.threads[t].parked
    /\ \/ call = "answered"
       \/ call = "loader" /\ LoaderOpen(p.loader, t)

Woken(p) ==
    [p EXCEPT !.threads = [t \in Threads |->
        IF @[t].state = "waiting" /\ @[t].suspends = 0 /\ SavedReady(p, t)
        THEN [@[t] EXCEPT !.state = "runnable"]
        ELSE @[t]]]

(* windows_thread_eligible *)
Eligible(p, t) ==
    LET r == p.threads[t] IN
    /\ r.suspends = 0
    /\ ~r.started \/ r.phase.reason # "none" \/ r.leaving => LoaderOpen(p.loader, t)
    /\ \/ r.state \in {"running", "runnable"}
       \/ /\ r.state = "waiting"
          /\ \/ r.leaving
             \/ r.phase.reason # "none" /\ ~r.phase.active
             \/ SavedReady(p, t)

(* How far t is after c in the order in which the threads are visited; the *)
(* current thread itself comes last.                                       *)
Distance(c, t) == IF t > c THEN t - c ELSE t - c + MaxThread

(* Mutant: the first in the list. *)
NextThreadFirst(p, c, candidates) ==
    {t \in candidates : \A u \in candidates :
        \/ p.threads[t].priority > p.threads[u].priority
        \/ p.threads[t].priority = p.threads[u].priority /\ t <= u}

(* next_windows_thread: of the highest priority, the next after c; none if *)
(* there is no candidate.                                                  *)
NextThread(p, c, candidates) ==
    {t \in candidates : \A u \in candidates :
        \/ p.threads[t].priority > p.threads[u].priority
        \/ /\ p.threads[t].priority = p.threads[u].priority
           /\ Distance(c, t) <= Distance(c, u)}

(* Mutant: the context of a dead thread is parked. *)
SwitchedDead(p, t) ==
    LET Parked == [p.threads[p.current] EXCEPT !.parked = TRUE,
                      !.state = IF @ = "running" THEN "runnable" ELSE @]
    IN  IF t = p.current THEN p
        ELSE [p EXCEPT !.current = t,
                       !.threads = [@ EXCEPT ![p.current] = Parked, ![t].parked = FALSE]]

(* commit_windows_thread_switch *)
Switched(p, t) ==
    LET c == p.current
        left == p.threads[c]
        Parked == [left EXCEPT !.parked = Live(left),
                               !.state = IF @ = "running" THEN "runnable" ELSE @]
    IN  IF t = c THEN p
        ELSE [p EXCEPT !.current = t,
                       !.threads = [@ EXCEPT ![c] = Parked, ![t].parked = FALSE]]

(* The thread a pass selects: the current one if the schedule was asked    *)
(* for in its name, which is how SwitchToThread keeps the thread it chose. *)
Selected(p) ==
    IF p.required = p.current /\ Eligible(p, p.current) THEN {p.current}
    ELSE NextThread(p, p.current, {t \in Threads : Eligible(p, t)})

(* Mutant: as if every pass ran a thread. *)
MorePassesNone == passes < 0

(* for _ in 0 ..= threads.len() *)
MorePasses == passes < Cardinality({t \in Threads : threads[t].state # "absent"})

(* After a pass that ran nothing: what the call reports when the loop ends. *)
NothingRan(p) ==
    IF \E t \in Threads : Live(p.threads[t]) THEN "waiting" ELSE "exited"

PassOver(p, result, n) ==
    /\ Publish([p EXCEPT !.required = NoThread])
    /\ host' = result
    /\ passes' = n

(* Mutant: a thread whose call is still pending goes on. *)
RanBlocked(p, t) ==
    LET runs == Live(p.threads[t])
        again == MorePasses /\ NothingRan(p) # "exited"
    IN  \E q \in {IF runs THEN [p EXCEPT !.threads[t].state = "running"] ELSE p} :
           \/ runs /\ PassOver(q, "guest", 0)
           \/ ~runs /\ again /\ PassOver(q, "schedule", passes + 1)
           \/ ~runs /\ ~again /\ PassOver(q, NothingRan(p), 0)

(* The selected thread goes on, runs a callback, or still cannot run; then  *)
(* there is another pass, if the loop's bound allows it and a thread lives. *)
Ran(p, t) ==
    LET r == p.threads[t]
        runs == Live(r) /\ r.context.call = "none"
        state == IF runs THEN "running" ELSE "waiting"
        again == MorePasses /\ NothingRan(p) # "exited"
    IN  \E q \in {IF Live(r) THEN [p EXCEPT !.threads[t].state = state] ELSE p} :
           \/ runs /\ PassOver(q, "guest", 0)
           \/ ~runs /\ again /\ PassOver(q, "schedule", passes + 1)
           \/ ~runs /\ ~again /\ PassOver(q, NothingRan(p), 0)

(* (A singleton stands for a local value; TLC evaluates it once.) *)
Pass ==
    /\ host # "exited"
    /\ \E before \in {Woken(Resumed(Plan))} :
         \/ /\ Selected(before) = {}
            /\ PassOver(before, NothingRan(before), 0)
         \/ \E t \in Selected(before) :
              \E there \in {Resumed(Switched(before, t))} :
              \E after \in {Advanced(there, t)} : Ran(after, t)
    /\ UNCHANGED lastId

(* A service answers a blocked call, of the current thread or a parked one. *)
Answer(t) ==
    /\ passes = 0
    /\ threads[t].context.call = "blocked"
    /\ threads' = [threads EXCEPT ![t].context.call = "answered"]
    /\ UNCHANGED <<current, required, loader, lastId, host, passes>>

-----------------------------------------------------------------------------
(* The guest. *)

Call(name) == name \in Calls /\ host = "guest" /\ required = NoThread

(* After a call the host runs the guest on, unless a schedule is asked for. *)
Complete(p) == Publish(p) /\ UNCHANGED <<lastId, host, passes>>

(* CreateThread: records of terminated threads go away, except the current *)
(* one and those whose thread object still has a handle, any set of them.  *)
CreateThread(suspended) ==
    LET id == lastId + 1
        record == [Absent EXCEPT !.state = IF suspended THEN "suspended" ELSE "runnable",
                                 !.suspends = IF suspended THEN 1 ELSE 0,
                                 !.parked = TRUE]
        dead == {t \in Threads : threads[t].state = "terminated"} \ {current}
    IN  /\ Call("CreateThread")
        /\ id \in Threads
        /\ \E kept \in SUBSET dead :
             LET here == {t \in Threads : Live(threads[t])} \cup {current} \cup kept IN
             /\ Cardinality(here) < ThreadLimit
             /\ threads' = [t \in Threads |->
                  IF t = id THEN record ELSE IF t \in here THEN threads[t] ELSE Absent]
        /\ lastId' = id
        /\ UNCHANGED <<current, required, loader, host, passes>>

SuspendThread(t) ==
    /\ Call("SuspendThread")
    /\ Live(threads[t])
    /\ threads[t].suspends < MaxSuspend
    /\ Complete([Plan EXCEPT !.threads[t] = [threads[t] EXCEPT !.suspends = @ + 1,
                                                              !.state = "suspended"],
                             !.required = IF t = current THEN t ELSE required])

(* Mutant: the count of a thread that is not suspended goes below zero. *)
ResumeThreadAnyway(t) ==
    LET left == threads[t].suspends - 1
    IN  /\ Call("SuspendThread")
        /\ Live(threads[t])
        /\ Complete([Plan EXCEPT !.threads[t] =
                       [@ EXCEPT !.suspends = left,
                                 !.state = IF left # 0 THEN "suspended" ELSE "runnable"]])

ResumeThread(t) ==
    LET r == threads[t]
        left == IF r.suspends = 0 THEN 0 ELSE r.suspends - 1
        woken == IF r.parked /\ r.context.call # "none" THEN "waiting" ELSE "runnable"
        state == IF left # 0 THEN "suspended"
                 ELSE IF r.suspends # 0 THEN woken ELSE r.state
    IN  /\ Call("SuspendThread")
        /\ Live(r)
        /\ Complete([Plan EXCEPT !.threads[t] = [r EXCEPT !.suspends = left,
                                                         !.state = state]])

SetThreadPriority(t, priority) ==
    /\ Call("SetThreadPriority")
    /\ Live(threads[t])
    /\ Complete([Plan EXCEPT !.threads[t].priority = priority])

(* SwitchToThread: the context switch happens in the call; the target is   *)
(* named as the thread to schedule.  With no other thread it just returns. *)
SwitchToThread ==
    /\ Call("SwitchToThread")
    /\ \E t \in NextThread(Plan, current, {u \in Threads \ {current} : Eligible(Plan, u)}) :
         Complete([Switched(Plan, t) EXCEPT !.required = t])

(* A call that does not complete, to any service but the loader.  In a     *)
(* detach callback it is a case of its own: an exiting thread is eligible  *)
(* even while it is blocked.                                               *)
Block ==
    /\ Call(IF threads[current].phase.reason = "detach" THEN "BlockInDetach" ELSE "Block")
    /\ threads' = [threads EXCEPT ![current].context.call = "blocked"]
    /\ host' = "schedule"
    /\ UNCHANGED <<current, required, loader, lastId, passes>>

(* LoadLibrary takes the loader lock until FinishLoad, with the module's   *)
(* entry point running meanwhile, or waits for the lock.                   *)
LoadLibrary ==
    LET c == threads[current].context IN
    /\ Call("LoadLibrary")
    /\ c.loads < MaxLoads
    /\ IF LoaderOpen(loader, current)
       THEN Complete(AcquireLoader([Plan EXCEPT !.threads[current].context.loads = c.loads + 1],
                                   current))
       ELSE /\ threads' = [threads EXCEPT ![current].context.call = "loader"]
            /\ host' = "schedule"
            /\ UNCHANGED <<current, required, loader, lastId, passes>>

FinishLoad ==
    /\ Call("LoadLibrary")
    /\ threads[current].context.loads > 0
    /\ Complete(ReleaseLoader([Plan EXCEPT !.threads[current].context.loads
                                             = threads[current].context.loads - 1]))

(* finish_thread_invocation: a notification callback returns, and the      *)
(* context under it is back.  The host schedules after every such return.  *)
ReturnCallback ==
    LET r == threads[current]
        under == r.frames[Len(r.frames)]
        below == SubSeq(r.frames, 1, Len(r.frames) - 1)
        phase == [r.phase EXCEPT !.calls = @ - 1, !.active = FALSE]
        state == IF under.call = "none" THEN "running" ELSE "waiting"
    IN  /\ host = "guest" /\ required = NoThread
        /\ r.frames # <<>>
        /\ r.context.loads = 0
        /\ threads' = [threads EXCEPT ![current] =
             [r EXCEPT !.context = under, !.frames = below, !.state = state,
                       !.phase = phase]]
        /\ host' = "schedule"
        /\ UNCHANGED <<current, required, loader, lastId, passes>>

(* ExitThread, or the return of the thread procedure.  The guest leaves a  *)
(* thread outside of a module load; a thread that exits in its own detach  *)
(* callback is a case of its own.                                          *)
ExitThread ==
    LET r == threads[current]
        phase == IF r.phase.reason # "attach" THEN r.phase
                 ELSE [reason |-> "detach", calls |-> 0, active |-> FALSE,
                       prepared |-> FALSE]
        asked == [Plan EXCEPT !.threads[current] =
                    [r EXCEPT !.leaving = TRUE, !.context.call = "exit",
                              !.phase = phase]]
        exited == Advanced(asked, current)
        after == exited.threads[current]
        callback == Live(after) /\ after.context.call = "none"
    IN  /\ Call(IF r.phase.reason = "detach" THEN "ExitInDetach" ELSE "ExitThread")
        /\ r.context.loads = 0
        /\ IF ~LoaderOpen(loader, current)
           THEN /\ Publish([asked EXCEPT !.threads[current].state = "waiting",
                                         !.required = current])
                /\ host' = "schedule"
           ELSE IF \A t \in Threads : ~Live(exited.threads[t])
           THEN Publish(exited) /\ host' = "exited"
           ELSE IF callback
           THEN Publish(exited) /\ UNCHANGED host
           ELSE Publish([exited EXCEPT !.required = current]) /\ host' = "schedule"
        /\ UNCHANGED <<lastId, passes>>

(* TerminateThread: of another thread, of the caller, or of the last one. *)
TerminateThread(t) ==
    /\ Call("TerminateThread")
    /\ Live(threads[t])
    /\ IF LastLive(Plan)
       THEN Publish(Retired(Plan)) /\ host' = "exited"
       ELSE IF t = current
       THEN Publish([Terminated(Plan, t) EXCEPT !.required = t]) /\ host' = "schedule"
       ELSE Publish(Terminated(Plan, t)) /\ UNCHANGED host
    /\ UNCHANGED <<lastId, passes>>

Guest ==
    \/ \E suspended \in BOOLEAN : CreateThread(suspended)
    \/ \E t \in Threads : \/ SuspendThread(t) \/ ResumeThread(t) \/ TerminateThread(t)
                          \/ \E priority \in Priorities : SetThreadPriority(t, priority)
    \/ SwitchToThread \/ Block \/ LoadLibrary \/ FinishLoad
    \/ ReturnCallback \/ ExitThread

Next == Guest \/ Pass \/ \E t \in Threads : Answer(t)

Spec == Init /\ [][Next]_vars

(* The host schedules again and again: it looks at the clock between any   *)
(* two runs of guest code and schedules after 8 ms at the latest.  Nothing *)
(* is assumed of the guest or of the services that answer its calls.       *)
FairSpec == Spec /\ WF_vars(Pass)

-----------------------------------------------------------------------------
(* Invariants. *)

TypeOK ==
    /\ threads \in [Threads -> Record]
    /\ current \in Threads
    /\ required \in Threads \cup {NoThread}
    /\ loader \in [owner : Threads \cup {NoThread}, depth : Int]
    /\ lastId \in Threads
    /\ host \in HostStates
    /\ passes \in 0 .. MaxThread

(* A thread is in the suspended state exactly while its suspend count is    *)
(* not zero, though calls are answered, callbacks return, threads exit and  *)
(* the scheduler rewrites states meanwhile: a wakeup never undoes a         *)
(* suspension, and no thread stays suspended with a count of zero.          *)
SuspendCoherent ==
    \A t \in Threads : Live(threads[t]) =>
        (threads[t].state = "suspended" <=> threads[t].suspends # 0)

(* Every live thread has its context in exactly one place: the engine holds *)
(* that of the current thread, and every other one is parked in its record. *)
(* Only the current thread is in the running state.  (A switch to a thread  *)
(* without a parked context fails with Stale.)                              *)
ContextsExact ==
    \A t \in Threads :
        /\ threads[t].parked <=> Live(threads[t]) /\ t # current
        /\ threads[t].state = "running" => t = current

(* While guest code may run, the current thread may run it: it is running   *)
(* and in no call.  Its own code, outside of a callback, runs only once the *)
(* attach callbacks of the modules have run.                                *)
GuestMayRun ==
    host = "guest" /\ required = NoThread =>
        LET r == threads[current] IN
        /\ r.state = "running" /\ r.context.call = "none"
        /\ r.frames = <<>> => r.started /\ r.phase = NoPhase

(* The loader lock counts exactly what its holder has open: its module      *)
(* loads, and its attach or detach phase.  No other live thread is in one,  *)
(* so no two threads ever run notification callbacks at the same time.      *)
LoaderExact ==
    /\ loader.depth >= 0
    /\ loader.owner = NoThread <=> loader.depth = 0
    /\ \A t \in Threads : Live(threads[t]) =>
         LET held == threads[t].context.loads
                     + (IF threads[t].phase.reason = "none" THEN 0 ELSE 1)
         IN  held = IF loader.owner = t THEN loader.depth ELSE 0

-----------------------------------------------------------------------------
(* Action properties. *)

(* A schedule that reports that there is nothing but waiting is right: it   *)
(* leaves no runnable thread behind that is eligible.  The loop of          *)
(* schedule_windows_thread makes one pass per thread and one more, and that *)
(* is enough, though a pass may end a thread, open the loader lock or find  *)
(* that the lock a thread was woken for has been taken since.               *)
WaitingMeansNobodyCanRun ==
    [][host' = "waiting" => \A t \in Threads :
          ~(threads[t].state = "runnable" /\ Eligible(Plan, t))']_vars

(* A thread that leaves, however it got to its exit, hands the loader lock  *)
(* on: the step that ends it releases the lock.  (Only TerminateThread can  *)
(* end a thread that holds the lock, which then stays locked for good.)     *)
ExitsReleaseTheLoader ==
    [][Pass \/ ExitThread => \A t \in Threads :
          Live(threads[t]) /\ ~Live(threads[t])' => loader'.owner # t]_vars

-----------------------------------------------------------------------------
(* Liveness. *)

(* Threads of one priority take turns: no thread stays eligible forever,    *)
(* with no other eligible thread of a higher priority, without ever being   *)
(* the current thread, whatever mix of time slices and SwitchToThread calls *)
(* moves the others.                                                        *)
EqualsTakeTurns ==
    \A t \in Threads :
        []<>(current = t \/ ~Eligible(Plan, t)
               \/ \E u \in Threads : /\ Eligible(Plan, u)
                                     /\ threads[u].priority > threads[t].priority)

=============================================================================
