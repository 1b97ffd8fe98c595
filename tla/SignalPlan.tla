----------------------------- MODULE SignalPlan -----------------------------
(***************************************************************************)
(* The pure half of the dispatcher: what PreparedSignals32 computes before *)
(* anything is published (engine/src/windows/synchronization/waits.rs).    *)
(*                                                                         *)
(* A plan is a record [objects, signaled, waits]: the projected dispatcher *)
(* objects, the set of signaled slots and the wait records.  Each operator *)
(* takes a plan and returns a plan; Dispatcher commits the last one.       *)
(*                                                                         *)
(* An object is the content of one slot of `objects`.  Names, access masks *)
(* and inheritance are left out.  `id` is the object id of a timer (the    *)
(* code's next_object counter; here the handle value that created it).     *)
(***************************************************************************)
EXTENDS Integers, FiniteSets, Sequences

CONSTANTS
    Threads,      \* the Windows threads of the process
    NoThread,     \* owner 0
    MaxObjects    \* limits.events: slots of the object table

ASSUME NoThreadAssumption == NoThread \notin Threads
ASSUME MaxObjectsAssumption == MaxObjects \in Nat \ {0}

Slots == 1 .. MaxObjects

(* Option<u64>::None for a due time or a deadline. *)
Never == -1

Free           == [type |-> "free"]
EventKind      == [type : {"event"}, manual : BOOLEAN]
MutexKind      == [type : {"mutex"}, owner : Threads \cup {NoThread},
                   depth : Nat, abandoned : BOOLEAN]
SemaphoreKind  == [type : {"semaphore"}, count : Nat, maximum : Nat]
ThreadKind     == [type : {"thread"}, thread : Threads, terminated : BOOLEAN]
TimerKind      == [type : {"timer"}, manual : BOOLEAN, id : Nat,
                   due : Nat \cup {Never}, period : Nat,
                   thread : Threads \cup {NoThread}, callback : BOOLEAN,
                   generation : Nat, queued : BOOLEAN]

ObjectKind == {Free} \cup EventKind \cup MutexKind \cup SemaphoreKind
                     \cup ThreadKind \cup TimerKind

-----------------------------------------------------------------------------
(* Wait results.  A success is the index of the object, counted from 0. *)

Pending      == -2       \* Wait32::result is None
WaitFailed   == -1       \* WAIT_FAILED, last error 6
Abandoned    == 128      \* WAIT_ABANDONED_0
IoCompletion == 192      \* WAIT_IO_COMPLETION, 0xc0
WaitTimeout  == 258      \* WAIT_TIMEOUT

Results == {Pending, WaitFailed, IoCompletion, WaitTimeout}
             \cup 0 .. 63 \cup Abandoned .. (Abandoned + 63)

Granted(result) == result \in 0 .. 63 \cup Abandoned .. (Abandoned + 63)

WaitRecord == [thread   : Threads,
               handles  : Seq(Nat),
               slots    : Seq(Slots),
               mode     : {"any", "all", "sleep"},
               deadline : Nat \cup {Never},
               alertable : BOOLEAN,
               result   : Results]

(* What expiry is worth: Sleep returns 0, a wait on handles WAIT_TIMEOUT. *)
Expired(w, t) == w.deadline # Never /\ w.deadline <= t
ExpiryResult(mode) == IF mode = "sleep" THEN 0 ELSE WaitTimeout

-----------------------------------------------------------------------------
(* Readiness of one object for one thread, and of a whole wait. *)

(* Mutant: a semaphore is taken without looking at its count. *)
ReadyUncounted(p, slot, thread) ==
    LET o == p.objects[slot] IN
    \/ o.type = "mutex" /\ o.owner \in {NoThread, thread}
    \/ o.type = "semaphore"
    \/ o.type = "thread" /\ o.terminated
    \/ o.type \in {"event", "timer"} /\ slot \in p.signaled

Ready(p, slot, thread) ==
    LET o == p.objects[slot] IN
    \/ o.type = "mutex" /\ o.owner \in {NoThread, thread}
    \/ o.type = "semaphore" /\ o.count # 0
    \/ o.type = "thread" /\ o.terminated
    \/ o.type \in {"event", "timer"} /\ slot \in p.signaled

Satisfied(p, w) ==
    CASE w.mode = "sleep" -> FALSE
      [] w.mode = "all"   -> \A i \in DOMAIN w.slots : Ready(p, w.slots[i], w.thread)
      [] w.mode = "any"   -> \E i \in DOMAIN w.slots : Ready(p, w.slots[i], w.thread)

FirstReady(p, w) ==
    CHOOSE i \in DOMAIN w.slots :
        /\ Ready(p, w.slots[i], w.thread)
        /\ \A j \in 1 .. (i - 1) : ~Ready(p, w.slots[j], w.thread)

(* The positions of w.slots that a satisfied wait takes. *)
Selected(p, w) == IF w.mode = "all" THEN DOMAIN w.slots ELSE {FirstReady(p, w)}

(* Mutant: the new owner of a mutex inherits the mark of abandonment. *)
ConsumeKeepsMark(o, thread) ==
    CASE o.type = "mutex" -> [o EXCEPT !.owner = thread, !.depth = @ + 1]
      [] o.type = "semaphore" -> [o EXCEPT !.count = @ - 1]
      [] OTHER -> o

(* Taking an object: what is left of its kind and of its signal bit. *)
Consume(o, thread) ==
    CASE o.type = "mutex" ->
            [o EXCEPT !.owner = thread, !.depth = @ + 1, !.abandoned = FALSE]
      [] o.type = "semaphore" -> [o EXCEPT !.count = @ - 1]
      [] OTHER -> o

StaysSignaled(o) ==
    \/ o.type = "semaphore" /\ o.count > 1
    \/ o.type \in {"event", "timer"} /\ o.manual

Taken(p, w) == {w.slots[i] : i \in Selected(p, w)}

TakeObjects(p, w) ==
    LET taken == Taken(p, w) IN
    [p EXCEPT
       !.objects = [s \in Slots |-> IF s \in taken THEN Consume(@[s], w.thread)
                                                   ELSE @[s]],
       !.signaled = {s \in @ : \/ s \notin taken
                               \/ p.objects[s].type = "thread"
                               \/ StaysSignaled(p.objects[s])}]

(* Mutant: abandonment is looked for only in a wait for any object. *)
GrantResultAnyOnly(p, w) ==
    IF w.mode = "all" THEN 0
    ELSE LET i == FirstReady(p, w)
             o == p.objects[w.slots[i]]
         IN  IF o.type = "mutex" /\ o.abandoned THEN Abandoned + i - 1 ELSE i - 1

(* The first abandoned mutex among the objects taken, else the first index. *)
GrantResult(p, w) ==
    LET abandoned == {i \in Selected(p, w) :
                        /\ p.objects[w.slots[i]].type = "mutex"
                        /\ p.objects[w.slots[i]].abandoned}
        First(S)  == CHOOSE i \in S : \A j \in S : i <= j
    IN  IF abandoned # {} THEN Abandoned + First(abandoned) - 1
        ELSE IF w.mode = "all" THEN 0 ELSE FirstReady(p, w) - 1

-----------------------------------------------------------------------------
(* resolve_waiters: one pass over the undecided waits in order of wait id; *)
(* each is decided on what the earlier ones left.  Expiry comes first.     *)

Complete(p, id, result) == [p EXCEPT !.waits[id].result = result]

(* Mutants: a grant that leaves the objects as they were; an expiry one    *)
(* instant late; an expiry that forgets Sleep.                             *)
ResolveOneShared(p, id, t) ==
    IF id \notin DOMAIN p.waits \/ p.waits[id].result # Pending THEN p
    ELSE LET w == p.waits[id] IN
         IF Expired(w, t) THEN Complete(p, id, ExpiryResult(w.mode))
         ELSE IF Satisfied(p, w) THEN Complete(p, id, GrantResult(p, w)) ELSE p

ResolveOneSleepless(p, id, t) ==
    IF id \notin DOMAIN p.waits \/ p.waits[id].result # Pending THEN p
    ELSE LET w == p.waits[id] IN
         IF Expired(w, t) /\ w.mode # "sleep" THEN Complete(p, id, WaitTimeout)
         ELSE IF Satisfied(p, w)
              THEN Complete(TakeObjects(p, w), id, GrantResult(p, w)) ELSE p

ResolveOne(p, id, t) ==
    IF id \notin DOMAIN p.waits THEN p
    ELSE LET w == p.waits[id] IN
         IF w.result # Pending THEN p
         ELSE IF Expired(w, t) THEN Complete(p, id, ExpiryResult(w.mode))
         ELSE IF Satisfied(p, w)
              THEN Complete(TakeObjects(p, w), id, GrantResult(p, w))
              ELSE p

(* Mutants: the newest wait first; only the oldest satisfied wait. *)
ResolveWaitersNewest(p, last, t) ==
    LET pass[id \in 1 .. last + 1] ==
          IF id = last + 1 THEN p ELSE ResolveOne(pass[id + 1], id, t)
    IN  pass[1]

ResolveWaitersOnce(p, last, t) ==
    LET pass[id \in 0 .. last] ==
          IF id = 0 THEN p
          ELSE IF pass[id - 1] # p THEN pass[id - 1]
          ELSE ResolveOne(pass[id - 1], id, t)
    IN  pass[last]

ResolveWaiters(p, last, t) ==
    LET pass[id \in 0 .. last] ==
          IF id = 0 THEN p ELSE ResolveOne(pass[id - 1], id, t)
    IN  pass[last]

-----------------------------------------------------------------------------
(* The projections that precede the pass. *)

SetSignal(p, slot)   == [p EXCEPT !.signaled = @ \cup {slot}]
ClearSignal(p, slot) == [p EXCEPT !.signaled = @ \ {slot}]
PutObject(p, slot, o) == [p EXCEPT !.objects[slot] = o]

(* Mutants: every alertable wait reports the callback of one thread; only  *)
(* Sleep reports it.                                                       *)
AlertEveryone(p, threads) ==
    [p EXCEPT !.waits = [id \in DOMAIN @ |->
        IF @[id].alertable /\ @[id].result = Pending
        THEN [@[id] EXCEPT !.result = IoCompletion] ELSE @[id]]]

AlertSleepers(p, threads) ==
    [p EXCEPT !.waits = [id \in DOMAIN @ |->
        IF @[id].thread \in threads /\ @[id].alertable /\ @[id].mode = "sleep"
             /\ @[id].result = Pending
        THEN [@[id] EXCEPT !.result = IoCompletion] ELSE @[id]]]

(* project_apc_state with pending: an alertable wait of the thread that is *)
(* still undecided reports WAIT_IO_COMPLETION.                             *)
AlertThreads(p, threads) ==
    [p EXCEPT !.waits = [id \in DOMAIN @ |->
        IF @[id].thread \in threads /\ @[id].alertable /\ @[id].result = Pending
        THEN [@[id] EXCEPT !.result = IoCompletion]
        ELSE @[id]]]

(* Mutant: whatever the waits reported. *)
RearmDecided(p, thread) ==
    [p EXCEPT !.waits = [id \in DOMAIN @ |->
        IF @[id].thread = thread THEN [@[id] EXCEPT !.result = Pending] ELSE @[id]]]

(* clear_apc_thread: the waits of the thread that reported                 *)
(* WAIT_IO_COMPLETION become undecided again.                              *)
RearmThread(p, thread) ==
    [p EXCEPT !.waits = [id \in DOMAIN @ |->
        IF @[id].thread = thread /\ @[id].result = IoCompletion
        THEN [@[id] EXCEPT !.result = Pending]
        ELSE @[id]]]

(* Mutant: a decided wait survives its thread. *)
DropUndecided(p, thread) ==
    [p EXCEPT !.waits =
        [id \in {k \in DOMAIN @ : @[k].thread # thread \/ @[k].result # Pending} |->
            @[id]]]

(* cancel_thread: the waits of an exiting thread are dropped. *)
DropThread(p, thread) ==
    [p EXCEPT !.waits = [id \in {k \in DOMAIN @ : @[k].thread # thread} |-> @[id]]]

(* Mutant: the exit gives up a mutex only when it was acquired once. *)
ExitThreadOnce(p, thread) ==
    LET Owned(o)  == o.type = "mutex" /\ o.owner = thread /\ o.depth = 1
        Itself(o) == o.type = "thread" /\ o.thread = thread
    IN  [p EXCEPT
           !.objects = [s \in Slots |->
               LET o == @[s] IN
               CASE Owned(o)  -> [o EXCEPT !.owner = NoThread, !.depth = 0,
                                           !.abandoned = TRUE]
                 [] Itself(o) -> [o EXCEPT !.terminated = TRUE]
                 [] OTHER     -> o],
           !.signaled = @ \cup {s \in Slots : \/ Owned(p.objects[s])
                                              \/ Itself(p.objects[s])}]

(* prepare_thread_exit: mutexes of the thread are abandoned, its thread    *)
(* object becomes terminated, its callback timers are disarmed.            *)
ExitThreadObjects(p, thread) ==
    LET Owned(o)  == o.type = "mutex" /\ o.owner = thread
        Itself(o) == o.type = "thread" /\ o.thread = thread
        Armed(o)  == o.type = "timer" /\ o.thread = thread /\ o.callback
    IN  [p EXCEPT
           !.objects = [s \in Slots |->
               LET o == @[s] IN
               CASE Owned(o)  -> [o EXCEPT !.owner = NoThread, !.depth = 0,
                                           !.abandoned = TRUE]
                 [] Itself(o) -> [o EXCEPT !.terminated = TRUE]
                 [] Armed(o)  -> [o EXCEPT !.due = Never, !.queued = FALSE]
                 [] OTHER     -> o],
           !.signaled = @ \cup {s \in Slots : \/ Owned(p.objects[s])
                                              \/ Itself(p.objects[s])}]

(* The next due time of a timer that expired at or before t: the first     *)
(* multiple of the period after t, or none for a one-shot timer.           *)
NextDue(o, t) ==
    IF o.period = 0 THEN Never
    ELSE o.due + ((t - o.due) \div o.period + 1) * o.period

TimerExpired(o, t) == o.type = "timer" /\ o.due # Never /\ o.due <= t

(* Mutant: a periodic callback is pushed again while it is queued. *)
FiringAgain(p, t) ==
    {s \in Slots : TimerExpired(p.objects[s], t) /\ p.objects[s].callback}

(* The slots of timers that push a callback when the clock reaches t: a    *)
(* callback still queued is not pushed again.                              *)
Firing(p, t) ==
    {s \in Slots : /\ TimerExpired(p.objects[s], t)
                   /\ p.objects[s].callback
                   /\ ~p.objects[s].queued}

ExpireTimers(p, t) ==
    [p EXCEPT
       !.objects = [s \in Slots |->
           LET o == @[s] IN
           IF TimerExpired(o, t)
           THEN [o EXCEPT !.due = NextDue(o, t),
                          !.queued = o.queued \/ o.callback]
           ELSE o],
       !.signaled = @ \cup {s \in Slots : TimerExpired(p.objects[s], t)}]

=============================================================================
