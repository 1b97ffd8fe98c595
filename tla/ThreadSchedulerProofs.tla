------------------------ MODULE ThreadSchedulerProofs ------------------------
(***************************************************************************)
(* Theorems about ThreadScheduler, for any number of threads, priorities,  *)
(* callbacks and nested loads.                                             *)
(*                                                                         *)
(* The handlers compute a plan and publish it, so the inductive invariant  *)
(* is a property of plans, SoundPlan, with one lemma per operator that     *)
(* makes a plan out of a plan.                                             *)
(***************************************************************************)
EXTENDS ThreadScheduler, FiniteSetTheorems, SequenceTheorems, TLAPS

PlanType == [threads : [Threads -> Record], current : Threads,
             required : Threads \cup {NoThread},
             loader : [owner : Threads \cup {NoThread}, depth : Int]]

(* What SuspendCoherent and ContextsExact say of one record; and that the   *)
(* current thread is never suspended in a call, which is why a thread that  *)
(* gets the loader lock may run without a look at its suspend count.        *)
SoundRecord(r, isCurrent) ==
    /\ Live(r) => (r.state = "suspended" <=> r.suspends # 0)
    /\ r.parked <=> Live(r) /\ ~isCurrent
    /\ r.state = "running" => isCurrent
    /\ isCurrent /\ Live(r) /\ r.suspends # 0 => r.context.call = "none"

SoundPlan(p) ==
    /\ p \in PlanType
    /\ \A t \in Threads : SoundRecord(p.threads[t], t = p.current)

(* A step from one plan to the next creates no thread. *)
SoundStep(p, q) ==
    /\ SoundPlan(q)
    /\ \A t \in Threads :
         p.threads[t].state = "absent" => q.threads[t].state = "absent"

(* It neither switches threads nor suspends or resumes thread t. *)
StaysOn(p, q, t) ==
    /\ q.current = p.current
    /\ q.threads[t].suspends = p.threads[t].suspends

-----------------------------------------------------------------------------
(* The values a record is reset to have the types of its fields.            *)
LEMMA ResetValues ==
    Empty \in Context /\ NoPhase \in Lifecycle /\ <<>> \in Seq(Context)
BY DEF Empty, Context, CallStates, NoPhase, Lifecycle

(* A plan stays sound when the record of one thread is replaced by another  *)
(* sound one: most steps of the scheduler write a single ThreadRecord32.    *)
LEMMA PutRecord ==
    ASSUME NEW p, SoundPlan(p), NEW t \in Threads, NEW r \in Record,
           SoundRecord(r, t = p.current),
           p.threads[t].state = "absent" => r.state = "absent"
    PROVE  /\ SoundStep(p, [p EXCEPT !.threads[t] = r])
           /\ [p EXCEPT !.threads[t] = r].current = p.current
           /\ [p EXCEPT !.threads[t] = r].threads[t] = r
           /\ [p EXCEPT !.threads[t] = r].loader = p.loader
           /\ [p EXCEPT !.threads[t] = r].required = p.required
BY DEF SoundPlan, PlanType, SoundStep

(* Taking or releasing the loader lock leaves the threads as they are.      *)
LEMMA PutLoader ==
    ASSUME NEW p, SoundPlan(p),
           NEW l \in [owner : Threads \cup {NoThread}, depth : Int]
    PROVE  /\ SoundStep(p, [p EXCEPT !.loader = l])
           /\ [p EXCEPT !.loader = l].current = p.current
           /\ [p EXCEPT !.loader = l].threads = p.threads
           /\ [p EXCEPT !.loader = l].required = p.required
BY DEF SoundPlan, PlanType, SoundStep

(* Taking the loader lock (acquire_loader_thread) touches no thread.        *)
LEMMA AcquireSound ==
    ASSUME NEW p, SoundPlan(p), NEW t \in Threads
    PROVE  /\ SoundStep(p, AcquireLoader(p, t))
           /\ AcquireLoader(p, t).current = p.current
           /\ AcquireLoader(p, t).threads = p.threads
           /\ AcquireLoader(p, t).required = p.required
<1> DEFINE l == [owner |-> t, depth |-> p.loader.depth + 1]
<1>1. l \in [owner : Threads \cup {NoThread}, depth : Int]
  BY DEF SoundPlan, PlanType
<1>2. AcquireLoader(p, t) = [p EXCEPT !.loader = l]
  BY DEF AcquireLoader, SoundPlan, PlanType
<1> HIDE DEF l
<1> QED BY <1>1, <1>2, PutLoader

(* Releasing the loader lock (release_loader_thread) touches no thread.     *)
LEMMA ReleaseSound ==
    ASSUME NEW p, SoundPlan(p)
    PROVE  /\ SoundStep(p, ReleaseLoader(p))
           /\ ReleaseLoader(p).current = p.current
           /\ ReleaseLoader(p).threads = p.threads
           /\ ReleaseLoader(p).required = p.required
<1> DEFINE l == [owner |-> IF p.loader.depth = 1 THEN NoThread ELSE p.loader.owner,
                 depth |-> p.loader.depth - 1]
<1>1. l \in [owner : Threads \cup {NoThread}, depth : Int]
  BY DEF SoundPlan, PlanType
<1>2. ReleaseLoader(p) = [p EXCEPT !.loader = l]
  BY DEF ReleaseLoader, SoundPlan, PlanType
<1> HIDE DEF l
<1> QED BY <1>1, <1>2, PutLoader

(* terminate_windows_thread takes the parked context with the thread.       *)
LEMMA TerminatedSound ==
    ASSUME NEW p, SoundPlan(p), NEW t \in Threads, Live(p.threads[t])
    PROVE  /\ SoundStep(p, Terminated(p, t))
           /\ StaysOn(p, Terminated(p, t), t)
           /\ ~Live(Terminated(p, t).threads[t])
           /\ \A u \in Threads \ {t} : Terminated(p, t).threads[u] = p.threads[u]
<1> DEFINE r == [p.threads[t] EXCEPT !.state = "terminated", !.parked = FALSE,
                                     !.context = Empty, !.frames = <<>>]
<1>1. p.threads[t] \in Record
  BY DEF SoundPlan, PlanType
<1>2. r \in Record /\ ~Live(r) /\ r.suspends = p.threads[t].suspends
  BY <1>1, ResetValues DEF Record, Live, ThreadState
<1>3. SoundRecord(r, t = p.current)
  BY <1>1 DEF Record, SoundRecord, Live
<1>4. Terminated(p, t) = [p EXCEPT !.threads[t] = r]
  BY DEF Terminated, SoundPlan, PlanType
<1>5. p.threads[t].state # "absent"
  BY DEF Live
<1>6. \A u \in Threads \ {t} : [p EXCEPT !.threads[t] = r].threads[u] = p.threads[u]
  BY DEF SoundPlan, PlanType
<1> HIDE DEF r
<1> QED BY <1>2, <1>3, <1>4, <1>5, <1>6, PutRecord DEF StaysOn

(* retire_process_threads leaves no live thread and no parked context.      *)
LEMMA RetiredSound ==
    ASSUME NEW p, SoundPlan(p), NEW t \in Threads
    PROVE  /\ SoundStep(p, Retired(p))
           /\ StaysOn(p, Retired(p), t)
           /\ ~Live(Retired(p).threads[t])
<1> DEFINE R(u) == IF p.threads[u].state = "absent" THEN p.threads[u]
                   ELSE [p.threads[u] EXCEPT !.state = "terminated", !.parked = FALSE,
                            !.frames = <<>>, !.phase = NoPhase, !.leaving = FALSE]
           q == [p EXCEPT !.required = NoThread, !.threads = [u \in Threads |-> R(u)]]
<1>1. ASSUME NEW u \in Threads
      PROVE  /\ R(u) \in Record /\ ~Live(R(u))
             /\ \A b \in BOOLEAN : SoundRecord(R(u), b)
             /\ R(u).suspends = p.threads[u].suspends
             /\ p.threads[u].state = "absent" => R(u).state = "absent"
  <2>1. /\ p.threads[u] \in Record
        /\ SoundRecord(p.threads[u], u = p.current)
    BY DEF SoundPlan, PlanType
  <2>2. CASE p.threads[u].state = "absent"
    BY <2>1, <2>2 DEF Live, SoundRecord
  <2>3. CASE p.threads[u].state # "absent"
    <3> DEFINE r == [p.threads[u] EXCEPT !.state = "terminated", !.parked = FALSE,
                        !.frames = <<>>, !.phase = NoPhase, !.leaving = FALSE]
    <3>1. /\ r \in Record /\ r.suspends = p.threads[u].suspends
          /\ r.state = "terminated" /\ r.parked = FALSE
      BY <2>1, ResetValues DEF Record, ThreadState
    <3>2. R(u) = r
      BY <2>3
    <3> HIDE DEF r
    <3> QED BY <2>3, <3>1, <3>2 DEF Live, SoundRecord
  <2> QED BY <2>2, <2>3
<1>2. Retired(p) = q
  BY DEF Retired, SoundPlan, PlanType
<1>3. q \in PlanType /\ q.current = p.current /\ q.threads = [u \in Threads |-> R(u)]
  BY <1>1 DEF SoundPlan, PlanType
<1> HIDE DEF R, q
<1> QED BY <1>1, <1>2, <1>3 DEF SoundStep, SoundPlan, StaysOn

(* A record that leaves the engine is parked, one that enters it is not     *)
(* (commit_windows_thread_switch).                                          *)
LEMMA SwitchedSound ==
    ASSUME NEW p, SoundPlan(p), NEW t \in Threads, Live(p.threads[t]),
           p.threads[t].suspends = 0
    PROVE  /\ SoundStep(p, Switched(p, t))
           /\ Switched(p, t).current = t
           /\ Switched(p, t).threads[t].suspends = p.threads[t].suspends
           /\ Live(Switched(p, t).threads[t])
<1> DEFINE c == p.current
           left == p.threads[c]
           Parked == [left EXCEPT !.parked = Live(left),
                                  !.state = IF @ = "running" THEN "runnable" ELSE @]
           entered == [p.threads[t] EXCEPT !.parked = FALSE]
<1>1. CASE t = c
  BY <1>1 DEF Switched, SoundPlan, SoundStep
<1>2. CASE t # c
  <2>1. /\ p \in PlanType /\ c \in Threads
        /\ left \in Record /\ SoundRecord(left, TRUE)
        /\ p.threads[t] \in Record /\ SoundRecord(p.threads[t], FALSE)
    BY <1>2 DEF SoundPlan, PlanType
  <2>2. Parked \in Record /\ SoundRecord(Parked, FALSE)
    BY <2>1 DEF Record, SoundRecord, Live, ThreadState
  <2>3. /\ entered \in Record /\ SoundRecord(entered, TRUE)
        /\ entered.suspends = p.threads[t].suspends /\ Live(entered)
    BY <2>1 DEF Record, SoundRecord, Live
  <2> DEFINE q == [p EXCEPT !.current = t,
                            !.threads = [[p.threads EXCEPT ![c] = Parked]
                                           EXCEPT ![t] = entered]]
  <2>4. Switched(p, t) = q
    BY <1>2, <2>1 DEF Switched, PlanType
  <2> HIDE DEF Parked, entered
  <2>5. q \in PlanType /\ q.current = t /\ q.threads[t] = entered
    BY <1>2, <2>1, <2>2, <2>3 DEF PlanType
  <2>6. SoundPlan(q)
    <3>1. ASSUME NEW u \in Threads
          PROVE  SoundRecord(q.threads[u], u = t)
      <4>1. CASE u = t
        BY <4>1, <2>3, <2>5
      <4>2. CASE u = c
        BY <4>2, <1>2, <2>1, <2>2 DEF PlanType
      <4>3. CASE u # t /\ u # c
        BY <4>3, <1>2, <2>1 DEF PlanType, SoundPlan
      <4> QED BY <4>1, <4>2, <4>3
    <3> QED BY <3>1, <2>5 DEF SoundPlan
  <2>7. ASSUME NEW u \in Threads, p.threads[u].state = "absent"
        PROVE  q.threads[u].state = "absent"
    <3>1. u # t
      BY <2>7 DEF Live
    <3>2. u = c => Parked.state = "absent"
      BY <2>1, <2>7 DEF Parked, Record
    <3> QED BY <3>1, <3>2, <1>2, <2>1, <2>7 DEF PlanType
  <2> QED BY <2>3, <2>4, <2>5, <2>6, <2>7 DEF SoundStep
<1> QED BY <1>1, <1>2

-----------------------------------------------------------------------------
(* advance_windows_thread_initialization works on the current thread.       *)

(* A record that only changes phase, exit request, start mark or context is *)
(* as sound as before.                                                      *)
LEMMA PutDetail ==
    ASSUME NEW p, SoundPlan(p), NEW t \in Threads, NEW r \in Record,
           r.state = p.threads[t].state, r.suspends = p.threads[t].suspends,
           r.parked = p.threads[t].parked,
           r.suspends # 0 => r.context.call \in {"none", p.threads[t].context.call}
    PROVE  /\ SoundStep(p, [p EXCEPT !.threads[t] = r])
           /\ StaysOn(p, [p EXCEPT !.threads[t] = r], t)
           /\ [p EXCEPT !.threads[t] = r].threads[t] = r
           /\ [p EXCEPT !.threads[t] = r].required = p.required
<1>1. SoundRecord(r, t = p.current)
  BY DEF SoundPlan, SoundRecord, Live
<1> QED BY <1>1, PutRecord DEF StaysOn

(* Beginning a notification phase changes no state, suspend count or parked *)
(* context.                                                                 *)
LEMMA BegunSound ==
    ASSUME NEW p, SoundPlan(p), NEW t \in Threads, Live(p.threads[t])
    PROVE  /\ SoundStep(p, Begun(p, t))
           /\ StaysOn(p, Begun(p, t), t)
           /\ Begun(p, t).threads[t].state = p.threads[t].state
           /\ Begun(p, t).required = p.required
<1> DEFINE phase == [reason |-> IF p.threads[t].leaving THEN "detach" ELSE "attach",
                     calls |-> Callbacks, active |-> FALSE, prepared |-> TRUE]
           r == [p.threads[t] EXCEPT !.phase = phase]
           q == [p EXCEPT !.threads[t] = r]
<1>1. p.threads[t] \in Record
  BY DEF SoundPlan, PlanType
<1>2. phase \in Lifecycle
  BY SchedulerAssumption DEF Lifecycle
<1>3. /\ r \in Record /\ r.state = p.threads[t].state
      /\ r.suspends = p.threads[t].suspends /\ r.parked = p.threads[t].parked
      /\ r.context = p.threads[t].context
  BY <1>1, <1>2 DEF Record
<1>4. Begun(p, t) \in {p, q, AcquireLoader(q, t)}
  BY DEF Begun, SoundPlan, PlanType
<1> HIDE DEF r
<1>5. /\ SoundStep(p, q) /\ StaysOn(p, q, t)
      /\ q.threads[t].state = p.threads[t].state
      /\ q.required = p.required
  BY <1>3, PutDetail
<1> HIDE DEF q
<1>6. /\ SoundStep(q, AcquireLoader(q, t)) /\ AcquireLoader(q, t).current = q.current
      /\ AcquireLoader(q, t).threads = q.threads
      /\ AcquireLoader(q, t).required = q.required
  BY <1>5, AcquireSound DEF SoundStep
<1> QED BY <1>4, <1>5, <1>6 DEF SoundStep, StaysOn

(* Entering a callback (enter_thread_invocation) leaves the current thread  *)
(* running, in no call; it is sound because the thread is not suspended.    *)
LEMMA CallbackEnteredSound ==
    ASSUME NEW p, SoundPlan(p), NEW t \in Threads, t = p.current,
           Live(p.threads[t]), p.threads[t].suspends = 0
    PROVE  /\ SoundStep(p, CallbackEntered(p, t))
           /\ StaysOn(p, CallbackEntered(p, t), t)
           /\ CallbackEntered(p, t).threads[t].state = "running"
           /\ CallbackEntered(p, t).threads[t].context.call = "none"
           /\ CallbackEntered(p, t).required = p.required
<1> DEFINE old == p.threads[t]
           phase == [old.phase EXCEPT !.active = TRUE]
           frames == Append(old.frames, old.context)
           r == [old EXCEPT !.state = "running", !.context = Empty,
                            !.frames = frames, !.phase = phase]
<1>1. old \in Record /\ SoundRecord(old, TRUE)
  BY DEF SoundPlan, PlanType
<1>2. phase \in Lifecycle /\ frames \in Seq(Context)
  <2>1. old.phase \in Lifecycle /\ old.frames \in Seq(Context) /\ old.context \in Context
    BY <1>1 DEF Record
  <2>2. phase \in Lifecycle
    BY <2>1 DEF Lifecycle
  <2>3. frames \in Seq(Context)
    BY <2>1
  <2> QED BY <2>2, <2>3
<1>3. CallbackEntered(p, t) = [p EXCEPT !.threads[t] = r]
  <2> DEFINE s == [old EXCEPT !.state = "running", !.context = Empty,
                              !.frames = Append(@, old.context),
                              !.phase.active = TRUE]
  <2>1. CallbackEntered(p, t) = [p EXCEPT !.threads[t] = s]
    BY DEF CallbackEntered, SoundPlan, PlanType
  <2>2. s = r
    BY <1>1 DEF Record
  <2> QED BY <2>1, <2>2
<1> HIDE DEF phase, frames
<1>4. /\ r \in Record /\ r.state = "running" /\ r.suspends = old.suspends
      /\ r.parked = old.parked /\ r.context = Empty
  BY <1>1, <1>2, ResetValues DEF Record, ThreadState
<1>5. SoundRecord(r, t = p.current)
  BY <1>1, <1>4 DEF SoundRecord, Live
<1> HIDE DEF r
<1> QED BY <1>3, <1>4, <1>5, PutRecord DEF Live, StaysOn, Empty

(* The end of a notification phase starts the thread or ends it, and keeps  *)
(* every other record sound; a thread that lives on keeps its state.        *)
LEMMA PhaseEndedSound ==
    ASSUME NEW p, SoundPlan(p), NEW t \in Threads, Live(p.threads[t])
    PROVE  /\ SoundStep(p, PhaseEnded(p, t))
           /\ StaysOn(p, PhaseEnded(p, t), t)
           /\ Live(PhaseEnded(p, t).threads[t])
                => PhaseEnded(p, t).threads[t].state = p.threads[t].state
<1> DEFINE Cleared(q) == [q EXCEPT !.threads[t].phase = NoPhase,
                                   !.threads[t].leaving = FALSE]
           Over(q) == ReleaseLoader(Cleared(q))
           started == [p EXCEPT !.threads[t].started = TRUE]
           gone == IF LastLive(p) THEN Retired(p) ELSE Terminated(p, t)
<1>1. ASSUME NEW q, SoundStep(p, q), StaysOn(p, q, t)
      PROVE  /\ SoundStep(p, Over(q)) /\ StaysOn(p, Over(q), t)
             /\ Over(q).threads[t].state = q.threads[t].state
  <2> DEFINE r == [q.threads[t] EXCEPT !.phase = NoPhase, !.leaving = FALSE]
  <2>1. q.threads[t] \in Record
    BY <1>1 DEF SoundStep, SoundPlan, PlanType
  <2>2. /\ r \in Record /\ r.state = q.threads[t].state
        /\ r.suspends = q.threads[t].suspends /\ r.parked = q.threads[t].parked
        /\ r.context = q.threads[t].context
    BY <2>1, ResetValues DEF Record
  <2>3. Cleared(q) = [q EXCEPT !.threads[t] = r]
    BY <1>1, <2>1 DEF SoundStep, SoundPlan, PlanType, Record
  <2> HIDE DEF r, Cleared
  <2>4. /\ SoundStep(q, Cleared(q)) /\ StaysOn(q, Cleared(q), t)
        /\ Cleared(q).threads[t].state = q.threads[t].state
    BY <1>1, <2>2, <2>3, PutDetail DEF SoundStep
  <2>5. /\ SoundStep(Cleared(q), Over(q)) /\ Over(q).current = Cleared(q).current
        /\ Over(q).threads = Cleared(q).threads
    BY <2>4, ReleaseSound DEF SoundStep
  <2> QED BY <1>1, <2>4, <2>5 DEF SoundStep, StaysOn
<1>2. /\ SoundStep(p, started) /\ StaysOn(p, started, t)
      /\ started.threads[t].state = p.threads[t].state
  <2> DEFINE r == [p.threads[t] EXCEPT !.started = TRUE]
  <2>1. p.threads[t] \in Record
    BY DEF SoundPlan, PlanType
  <2>2. /\ r \in Record /\ r.state = p.threads[t].state
        /\ r.suspends = p.threads[t].suspends /\ r.parked = p.threads[t].parked
        /\ r.context = p.threads[t].context
    BY <2>1 DEF Record
  <2>3. started = [p EXCEPT !.threads[t] = r]
    BY DEF SoundPlan, PlanType
  <2> HIDE DEF r
  <2> QED BY <2>2, <2>3, PutDetail
<1>3. SoundStep(p, gone) /\ StaysOn(p, gone, t) /\ ~Live(gone.threads[t])
  BY TerminatedSound, RetiredSound
<1>4. PhaseEnded(p, t) = IF p.threads[t].phase.reason = "attach"
                         THEN Over(started) ELSE Over(gone)
  BY DEF PhaseEnded
<1> HIDE DEF Over, started, gone
<1> QED BY <1>1, <1>2, <1>3, <1>4 DEF Live

(* advance_windows_thread_initialization keeps a plan sound and stays on    *)
(* the current thread, which keeps its state unless it enters a callback    *)
(* and then runs.                                                           *)
LEMMA AdvancedSound ==
    ASSUME NEW p, SoundPlan(p), NEW t \in Threads, t = p.current,
           Live(p.threads[t]), p.threads[t].suspends = 0
    PROVE  /\ SoundStep(p, Advanced(p, t)) /\ StaysOn(p, Advanced(p, t), t)
           /\ Live(Advanced(p, t).threads[t]) =>
                Advanced(p, t).threads[t].state \in {p.threads[t].state, "running"}
<1> DEFINE b == Begun(p, t)
<1>1. /\ SoundStep(p, b) /\ StaysOn(p, b, t)
      /\ b.threads[t].state = p.threads[t].state
  BY BegunSound
<1>2. Advanced(p, t) \in {p, b, CallbackEntered(b, t), PhaseEnded(b, t)}
  BY DEF Advanced
<1> HIDE DEF b
<1>3. /\ SoundPlan(b) /\ t = b.current /\ b.threads[t].suspends = 0
      /\ Live(b.threads[t])
  BY <1>1 DEF SoundStep, StaysOn, Live
<1>4. /\ SoundStep(b, CallbackEntered(b, t)) /\ StaysOn(b, CallbackEntered(b, t), t)
      /\ CallbackEntered(b, t).threads[t].state = "running"
  BY <1>3, CallbackEnteredSound
<1>5. /\ SoundStep(b, PhaseEnded(b, t)) /\ StaysOn(b, PhaseEnded(b, t), t)
      /\ Live(PhaseEnded(b, t).threads[t])
           => PhaseEnded(b, t).threads[t].state = b.threads[t].state
  BY <1>3, PhaseEndedSound
<1> QED BY <1>1, <1>2, <1>4, <1>5 DEF SoundStep, StaysOn

-----------------------------------------------------------------------------
(* One pass of schedule_windows_thread.                                     *)

(* A call that completes changes the context of the current thread, maybe   *)
(* the loader lock, and nothing else.                                       *)
LEMMA CallReturnedSound ==
    ASSUME NEW p, SoundPlan(p)
    PROVE  /\ SoundStep(p, CallReturned(p)) /\ StaysOn(p, CallReturned(p), p.current)
           /\ CallReturned(p).threads[p.current].state = p.threads[p.current].state
<1> DEFINE c == p.current
           answered == [p.threads[c] EXCEPT !.context.call = "none"]
           loaded == [p.threads[c] EXCEPT
                        !.context = [call |-> "none", loads |-> @.loads + 1]]
           A == [p EXCEPT !.threads[c] = answered]
           L == [p EXCEPT !.threads[c] = loaded]
<1>1. c \in Threads /\ p.threads[c] \in Record
  BY DEF SoundPlan, PlanType
<1>2. p.threads[c].context \in Context
  BY <1>1 DEF Record
<1>3. /\ answered \in Record /\ answered.state = p.threads[c].state
      /\ answered.suspends = p.threads[c].suspends
      /\ answered.parked = p.threads[c].parked
      /\ answered.context.call = "none"
  BY <1>1, <1>2 DEF Record, Context, CallStates
<1>4. /\ loaded \in Record /\ loaded.state = p.threads[c].state
      /\ loaded.suspends = p.threads[c].suspends
      /\ loaded.parked = p.threads[c].parked
      /\ loaded.context.call = "none"
  <2> DEFINE context == [call |-> "none", loads |-> p.threads[c].context.loads + 1]
  <2>1. context \in Context /\ context.call = "none"
    BY <1>2 DEF Context, CallStates
  <2>2. loaded = [p.threads[c] EXCEPT !.context = context]
    OBVIOUS
  <2> HIDE DEF loaded, context
  <2> QED BY <1>1, <2>1, <2>2 DEF Record
<1>5. CallReturned(p) \in {p, A, AcquireLoader(L, c)}
  BY DEF CallReturned, SoundPlan, PlanType
<1> HIDE DEF answered, loaded
<1>6. /\ SoundStep(p, A) /\ StaysOn(p, A, c)
      /\ SoundStep(p, L) /\ StaysOn(p, L, c)
      /\ A.threads[c].state = p.threads[c].state
      /\ L.threads[c].state = p.threads[c].state
  BY <1>1, <1>3, <1>4, PutDetail
<1> HIDE DEF A, L
<1>7. /\ SoundStep(L, AcquireLoader(L, c)) /\ AcquireLoader(L, c).current = L.current
      /\ AcquireLoader(L, c).threads = L.threads
  BY <1>1, <1>6, AcquireSound DEF SoundStep
<1> QED BY <1>5, <1>6, <1>7 DEF SoundStep, StaysOn

(* The current thread runs or waits only while it is not suspended: it was  *)
(* in no call when it was suspended, so it was not waiting for the lock.    *)
LEMMA ResumedSound ==
    ASSUME NEW p, SoundPlan(p)
    PROVE  /\ SoundStep(p, Resumed(p)) /\ StaysOn(p, Resumed(p), p.current)
           /\ Live(p.threads[p.current]) => Live(Resumed(p).threads[p.current])
<1> DEFINE q == CallReturned(p)
           c == p.current
           loaded == p.threads[c].context.call = "loader"
           runs == [q.threads[c] EXCEPT !.state = "running"]
           waits == [q.threads[c] EXCEPT !.state = "waiting"]
<1>1. /\ SoundStep(p, q) /\ StaysOn(p, q, c) /\ q.current = c
      /\ q.threads[c].state = p.threads[c].state
  BY CallReturnedSound DEF StaysOn
<1> HIDE DEF q
<1>2. /\ c \in Threads /\ q.threads[c] \in Record /\ SoundRecord(q.threads[c], TRUE)
      /\ SoundPlan(q)
  BY <1>1 DEF SoundStep, SoundPlan, PlanType
<1>3. /\ runs \in Record /\ waits \in Record
      /\ runs.suspends = q.threads[c].suspends /\ waits.suspends = q.threads[c].suspends
      /\ runs.state = "running" /\ waits.state = "waiting"
      /\ runs.parked = q.threads[c].parked /\ waits.parked = q.threads[c].parked
  BY <1>2 DEF Record, ThreadState
<1>4. /\ Live(q.threads[c]) /\ q.threads[c].suspends = 0
           => SoundRecord(runs, c = q.current)
      /\ q.threads[c].state = "running" => SoundRecord(waits, c = q.current)
  BY <1>1, <1>2, <1>3 DEF SoundRecord, Live
<1> DEFINE Goes == /\ Live(q.threads[c]) /\ q.threads[c].context.call = "none"
                   /\ loaded \/ q.threads[c].suspends = 0
<1>9. Goes => Live(q.threads[c]) /\ q.threads[c].suspends = 0
  <2>1. SoundRecord(p.threads[c], TRUE)
    BY <1>2 DEF SoundPlan
  <2> QED BY <1>1, <2>1 DEF SoundRecord, Live, StaysOn
<1>5. CASE Goes
  <2>1. Resumed(p) = [q EXCEPT !.threads[c] = runs]
    BY <1>1, <1>5 DEF Resumed, q, SoundStep, SoundPlan, PlanType
  <2> HIDE DEF runs
  <2>2. /\ SoundStep(q, Resumed(p)) /\ StaysOn(q, Resumed(p), c)
        /\ Resumed(p).threads[c] = runs
    BY <1>2, <1>3, <1>4, <1>5, <1>9, <2>1, PutRecord DEF StaysOn, Live
  <2> QED BY <1>1, <1>3, <2>2 DEF SoundStep, StaysOn, Live
<1>6. CASE /\ ~Goes
           /\ q.threads[c].state = "running" /\ q.threads[c].context.call # "none"
  <2>1. Resumed(p) = [q EXCEPT !.threads[c] = waits]
    BY <1>1, <1>6 DEF Resumed, q, SoundStep, SoundPlan, PlanType
  <2> HIDE DEF waits
  <2>2. /\ SoundStep(q, Resumed(p)) /\ StaysOn(q, Resumed(p), c)
        /\ Resumed(p).threads[c] = waits
    BY <1>2, <1>3, <1>4, <1>6, <2>1, PutRecord DEF StaysOn
  <2> QED BY <1>1, <1>3, <2>2 DEF SoundStep, StaysOn, Live
<1>7. CASE /\ ~Goes
           /\ ~(q.threads[c].state = "running" /\ q.threads[c].context.call # "none")
  BY <1>1, <1>7 DEF Resumed, q, Live
<1> QED BY <1>5, <1>6, <1>7

(* A wakeup changes a waiting thread only, and never a suspended one.       *)
LEMMA WokenSound ==
    ASSUME NEW p, SoundPlan(p)
    PROVE  SoundStep(p, Woken(p)) /\ Woken(p).current = p.current
<1> DEFINE Wakes(t) == /\ p.threads[t].state = "waiting" /\ p.threads[t].suspends = 0
                       /\ SavedReady(p, t)
           R(t) == IF Wakes(t) THEN [p.threads[t] EXCEPT !.state = "runnable"]
                   ELSE p.threads[t]
           q == [p EXCEPT !.threads = [t \in Threads |-> R(t)]]
<1>1. ASSUME NEW t \in Threads
      PROVE  /\ R(t) \in Record /\ SoundRecord(R(t), t = p.current)
             /\ p.threads[t].state = "absent" => R(t).state = "absent"
  <2> HIDE DEF Wakes
  <2>1. /\ p.threads[t] \in Record /\ SoundRecord(p.threads[t], t = p.current)
        /\ Wakes(t) => p.threads[t].state = "waiting" /\ p.threads[t].suspends = 0
    BY DEF SoundPlan, PlanType, Wakes
  <2> QED BY <2>1 DEF Record, ThreadState, SoundRecord, Live
<1>2. Woken(p) = q
  BY DEF Woken, SoundPlan, PlanType
<1> HIDE DEF R
<1>3. q \in PlanType /\ q.current = p.current /\ q.threads = [t \in Threads |-> R(t)]
  BY <1>1 DEF SoundPlan, PlanType
<1> HIDE DEF q
<1> QED BY <1>1, <1>2, <1>3 DEF SoundStep, SoundPlan
-----------------------------------------------------------------------------
(* The inductive invariant: besides the types and the soundness of the      *)
(* published plan, guest code runs in the current thread only while that    *)
(* thread is running and in no call, and an id that was not issued names    *)
(* no thread.                                                               *)
GuestRuns ==
    host = "guest" /\ required = NoThread =>
        /\ threads[current].state = "running"
        /\ threads[current].context.call = "none"

IssuedIds == \A t \in Threads : t > lastId => threads[t].state = "absent"

IInv == TypeOK /\ SoundPlan(Plan) /\ GuestRuns /\ IssuedIds

(* The whole of a step is sound when the plan it publishes is.              *)
LEMMA PublishSound ==
    ASSUME IInv, NEW q, SoundStep(Plan, q), Publish(q), lastId' = lastId,
           host' \in HostStates, passes' \in 0 .. MaxThread,
           host' = "guest" /\ q.required = NoThread =>
               /\ q.threads[q.current].state = "running"
               /\ q.threads[q.current].context.call = "none"
    PROVE  IInv'
<1>1. /\ q \in PlanType /\ SoundPlan(q)
      /\ threads' = q.threads /\ current' = q.current
      /\ required' = q.required /\ loader' = q.loader
  BY DEF SoundStep, SoundPlan, Publish
<1>2. TypeOK'
  BY <1>1 DEF TypeOK, IInv, PlanType
<1>3. SoundPlan(Plan)'
  BY <1>1 DEF SoundPlan, Plan, PlanType
<1>4. GuestRuns'
  BY <1>1 DEF GuestRuns
<1>5. IssuedIds'
  BY <1>1 DEF IssuedIds, IInv, SoundStep, Plan
<1> QED BY <1>2, <1>3, <1>4, <1>5 DEF IInv

(* A schedule selects a live thread that is not suspended.                  *)
LEMMA SelectedEligible ==
    ASSUME NEW p, SoundPlan(p), NEW t \in Selected(p)
    PROVE  t \in Threads /\ Live(p.threads[t]) /\ p.threads[t].suspends = 0
<1>1. t \in Threads /\ Eligible(p, t)
  BY DEF Selected, NextThread, SoundPlan, PlanType
<1> QED BY <1>1 DEF Eligible, Live

(* The loop of schedule_windows_thread counts at most one pass per thread.  *)
LEMMA PassesBounded ==
    ASSUME TypeOK, MorePasses
    PROVE  passes + 1 \in 0 .. MaxThread
<1> DEFINE present == {t \in Threads : threads[t].state # "absent"}
<1>1. MaxThread \in Nat
  BY SchedulerAssumption
<1>2. IsFiniteSet(Threads) /\ Cardinality(Threads) = MaxThread
  BY <1>1, FS_Interval DEF Threads
<1>3. Cardinality(present) <= MaxThread /\ Cardinality(present) \in Nat
  BY <1>2, FS_Subset, FS_CardinalityType
<1>4. passes < Cardinality(present) /\ passes \in 0 .. MaxThread
  BY DEF MorePasses, TypeOK
<1> HIDE DEF present
<1> QED BY <1>1, <1>3, <1>4

(* One pass of the loop of schedule_windows_thread preserves the invariant. *)
LEMMA PassSound ==
    ASSUME IInv, Pass
    PROVE  IInv'
<1> DEFINE before == Woken(Resumed(Plan))
<1>1. SoundStep(Plan, before)
  <2>1. SoundStep(Plan, Resumed(Plan))
    BY ResumedSound DEF IInv
  <2>2. SoundStep(Resumed(Plan), before)
    BY <2>1, WokenSound DEF SoundStep
  <2> QED BY <2>1, <2>2 DEF SoundStep
<1>2. lastId' = lastId
  BY DEF Pass
<1> HIDE DEF before
<1>3. ASSUME NEW q, SoundStep(Plan, q), NEW result \in HostStates,
             NEW n \in 0 .. MaxThread, PassOver(q, result, n),
             result = "guest" => /\ q.threads[q.current].state = "running"
                                 /\ q.threads[q.current].context.call = "none"
      PROVE  IInv'
  <2> DEFINE r == [q EXCEPT !.required = NoThread]
  <2>1. /\ r \in PlanType /\ r.threads = q.threads /\ r.current = q.current
        /\ Publish(r) /\ host' = result /\ passes' = n
    BY <1>3 DEF SoundStep, SoundPlan, PlanType, PassOver
  <2> HIDE DEF r
  <2>2. SoundStep(Plan, r)
    BY <1>3, <2>1 DEF SoundStep, SoundPlan
  <2> QED BY <1>2, <1>3, <2>1, <2>2, PublishSound
<1>4. CASE PassOver(before, NothingRan(before), 0)
  BY <1>1, <1>3, <1>4, SchedulerAssumption DEF NothingRan, HostStates
<1>5. ASSUME NEW t \in Selected(before),
             Ran(Advanced(Resumed(Switched(before, t)), t), t)
      PROVE  IInv'
  <2> DEFINE moved == Switched(before, t)
             there == Resumed(moved)
             after == Advanced(there, t)
  <2>1. t \in Threads /\ Live(before.threads[t]) /\ before.threads[t].suspends = 0
    BY <1>1, SelectedEligible DEF SoundStep
  <2>2. /\ SoundStep(before, moved) /\ moved.current = t
        /\ moved.threads[t].suspends = 0 /\ Live(moved.threads[t])
    BY <1>1, <2>1, SwitchedSound DEF SoundStep
  <2> HIDE DEF moved
  <2>3. /\ SoundStep(moved, there) /\ StaysOn(moved, there, t)
        /\ Live(there.threads[t])
    BY <2>2, ResumedSound DEF SoundStep
  <2>4. Ran(after, t)
    BY <1>5 DEF moved
  <2> HIDE DEF there
  <2>5. /\ SoundPlan(there) /\ there.current = t
        /\ there.threads[t].suspends = 0
    BY <2>2, <2>3 DEF StaysOn, SoundStep
  <2>6. /\ SoundStep(Plan, after) /\ after.current = t
        /\ after.threads[t].suspends = 0
    BY <1>1, <2>1, <2>2, <2>3, <2>5, AdvancedSound DEF SoundStep, StaysOn
  <2> HIDE DEF after
  <2> DEFINE runs == Live(after.threads[t]) /\ after.threads[t].context.call = "none"
             state == IF runs THEN "running" ELSE "waiting"
             put == [after.threads[t] EXCEPT !.state = state]
             last == IF Live(after.threads[t])
                     THEN [after EXCEPT !.threads[t] = put] ELSE after
  <2>7. /\ SoundStep(Plan, last) /\ last.current = t
        /\ runs => /\ last.threads[t].state = "running"
                   /\ last.threads[t].context.call = "none"
    <3>1. CASE ~Live(after.threads[t])
      BY <3>1, <2>6
    <3>2. CASE Live(after.threads[t])
      <4>1. /\ after.threads[t] \in Record /\ SoundPlan(after)
            /\ SoundRecord(after.threads[t], TRUE)
        BY <2>1, <2>6 DEF SoundStep, SoundPlan, PlanType
      <4>2. /\ put \in Record /\ put.state = state
            /\ put.context = after.threads[t].context
            /\ put.suspends = 0 /\ put.parked = after.threads[t].parked
        BY <2>6, <4>1 DEF Record, ThreadState
      <4>3. SoundRecord(put, t = after.current)
        BY <2>6, <3>2, <4>1, <4>2 DEF SoundRecord, Live
      <4> HIDE DEF put
      <4>4. /\ SoundStep(after, [after EXCEPT !.threads[t] = put])
            /\ [after EXCEPT !.threads[t] = put].current = t
            /\ [after EXCEPT !.threads[t] = put].threads[t] = put
        BY <2>1, <2>6, <3>2, <4>1, <4>2, <4>3, PutRecord DEF Live
      <4> QED BY <3>2, <2>6, <4>2, <4>4 DEF SoundStep
    <3> QED BY <3>1, <3>2
  <2>8. \/ runs /\ PassOver(last, "guest", 0)
        \/ ~runs /\ MorePasses /\ PassOver(last, "schedule", passes + 1)
        \/ ~runs /\ PassOver(last, NothingRan(after), 0)
    BY <2>1, <2>4, <2>6 DEF Ran, SoundStep, SoundPlan, PlanType
  <2> HIDE DEF last, runs
  <2>9. CASE runs /\ PassOver(last, "guest", 0)
    BY <2>7, <2>9, <1>3, SchedulerAssumption DEF HostStates
  <2>10. CASE MorePasses /\ PassOver(last, "schedule", passes + 1)
    BY <2>7, <2>10, <1>3, PassesBounded DEF HostStates, IInv
  <2>11. CASE PassOver(last, NothingRan(after), 0)
    BY <2>7, <2>11, <1>3, SchedulerAssumption DEF HostStates, NothingRan
  <2> QED BY <2>8, <2>9, <2>10, <2>11
<1> QED BY <1>4, <1>5 DEF Pass, before
-----------------------------------------------------------------------------
(* The guest's calls.                                                       *)

(* A step that writes one record, whatever else the host does next.         *)
LEMMA WriteSound ==
    ASSUME IInv, NEW t \in Threads, NEW r \in Record, SoundRecord(r, t = current),
           threads[t].state = "absent" => r.state = "absent",
           threads' = [threads EXCEPT ![t] = r], current' = current,
           required' \in Threads \cup {NoThread}, loader' = loader,
           lastId' = lastId, host' \in HostStates, passes' = passes,
           host' = "guest" /\ required' = NoThread =>
               /\ host = "guest" /\ required = NoThread
               /\ t = current => r.state = "running" /\ r.context.call = "none"
    PROVE  IInv'
<1>1. /\ Plan.threads = threads /\ Plan.current = current /\ SoundPlan(Plan)
      /\ Plan.loader = loader /\ Plan \in PlanType /\ passes \in 0 .. MaxThread
      /\ threads \in [Threads -> Record] /\ current \in Threads
  BY DEF Plan, IInv, TypeOK, SoundPlan
<1> DEFINE put == [Plan EXCEPT !.threads[t] = r]
           q == [put EXCEPT !.required = required']
<1>2. /\ SoundStep(Plan, put) /\ put.current = current /\ put.loader = loader
      /\ put.threads = threads'
  BY <1>1, PutRecord DEF PlanType
<1> HIDE DEF put
<1>3. /\ q \in PlanType /\ q.threads = threads' /\ q.current = current
      /\ q.loader = loader /\ q.required = required'
  BY <1>2 DEF SoundStep, SoundPlan, PlanType
<1> HIDE DEF q
<1>4. SoundStep(Plan, q) /\ Publish(q)
  BY <1>2, <1>3 DEF SoundStep, SoundPlan, Publish
<1>5. host' = "guest" /\ required' = NoThread =>
         /\ threads'[current].state = "running"
         /\ threads'[current].context.call = "none"
  BY <1>1 DEF IInv, GuestRuns
<1> QED BY <1>1, <1>3, <1>4, <1>5, PublishSound

(* While the guest may call, the current thread is running, not suspended,  *)
(* and its context is in the engine.                                        *)
LEMMA GuestFacts ==
    ASSUME IInv, host = "guest", required = NoThread
    PROVE  /\ current \in Threads /\ threads[current] \in Record
           /\ threads[current].state = "running" /\ Live(threads[current])
           /\ threads[current].context.call = "none"
           /\ threads[current].suspends = 0 /\ threads[current].parked = FALSE
BY DEF IInv, TypeOK, GuestRuns, SoundPlan, SoundRecord, Plan, Live

(* The record of a thread has the types of its fields and is sound.         *)
LEMMA RecordFacts ==
    ASSUME IInv, NEW t \in Threads
    PROVE  /\ threads[t] \in Record /\ SoundRecord(threads[t], t = current)
           /\ threads \in [Threads -> Record]
           /\ required \in Threads \cup {NoThread} /\ host \in HostStates
BY DEF IInv, TypeOK, SoundPlan, Plan

(* Answering a blocked call preserves the invariant.                        *)
LEMMA AnswerSound ==
    ASSUME IInv, NEW t \in Threads, Answer(t)
    PROVE  IInv'
<1> DEFINE r == [threads[t] EXCEPT !.context.call = "answered"]
<1>1. threads[t] \in Record /\ threads[t].context \in Context
  BY RecordFacts DEF Record
<1>2. /\ r \in Record /\ r.state = threads[t].state
      /\ r.suspends = threads[t].suspends /\ r.parked = threads[t].parked
  BY <1>1 DEF Record, Context, CallStates
<1>3. /\ threads' = [threads EXCEPT ![t] = r]
      /\ threads[t].context.call = "blocked"
  BY DEF Answer
<1> HIDE DEF r
<1>4. SoundRecord(r, t = current)
  BY <1>2, <1>3, RecordFacts DEF SoundRecord, Live
<1>5. host' = "guest" /\ required' = NoThread => t # current
  BY GuestFacts DEF Answer
<1> QED BY <1>2, <1>3, <1>4, <1>5, RecordFacts, WriteSound DEF Answer

(* What publishing a plan with one new record and another thread to         *)
(* schedule means for the variables.                                        *)
LEMMA CompleteWrite ==
    ASSUME NEW t \in Threads, NEW r, NEW n,
           Complete([Plan EXCEPT !.threads[t] = r, !.required = n])
    PROVE  /\ threads' = [threads EXCEPT ![t] = r] /\ current' = current
           /\ required' = n /\ loader' = loader /\ lastId' = lastId
           /\ host' = host /\ passes' = passes
BY DEF Complete, Publish, Plan

(* change_thread_suspend, counting up, preserves the invariant.             *)
LEMMA SuspendThreadSound ==
    ASSUME IInv, NEW t \in Threads, SuspendThread(t)
    PROVE  IInv'
<1> DEFINE r == [threads[t] EXCEPT !.suspends = @ + 1, !.state = "suspended"]
           n == IF t = current THEN t ELSE required
<1>1. threads[t] \in Record /\ SoundRecord(threads[t], t = current) /\ Live(threads[t])
  BY RecordFacts DEF SuspendThread
<1>2. threads[t].suspends \in Nat
  BY <1>1 DEF Record
<1>3. /\ r \in Record /\ r.state = "suspended" /\ r.suspends # 0
      /\ r.parked = threads[t].parked /\ r.context = threads[t].context
  <2> DEFINE k == threads[t].suspends + 1
  <2>1. k \in Nat /\ k # 0
    BY <1>2
  <2>2. r = [threads[t] EXCEPT !.suspends = k, !.state = "suspended"]
    BY <1>1 DEF Record
  <2> HIDE DEF r, k
  <2> QED BY <1>1, <2>1, <2>2 DEF Record, ThreadState
<1>4. Complete([Plan EXCEPT !.threads[t] = r, !.required = n])
  BY DEF SuspendThread
<1> HIDE DEF r
<1>10. t = current => threads[t].context.call = "none"
  BY GuestFacts DEF SuspendThread, Call
<1>5. SoundRecord(r, t = current)
  BY <1>1, <1>3, <1>10 DEF SoundRecord, Live
<1>6. /\ host = "guest" /\ required = NoThread /\ (t = current => n # NoThread)
      /\ n \in Threads \cup {NoThread}
  BY SchedulerAssumption DEF SuspendThread, Call, Threads, NoThread
<1> HIDE DEF n
<1>7. /\ threads' = [threads EXCEPT ![t] = r] /\ current' = current
      /\ required' = n /\ loader' = loader /\ lastId' = lastId
      /\ host' = host /\ passes' = passes
  BY <1>4, CompleteWrite
<1>8. threads[t].state # "absent" /\ host' \in HostStates
  BY <1>1, <1>7, RecordFacts DEF Live
<1>9. host' = "guest" /\ required' = NoThread => t # current
  BY <1>6, <1>7
<1> QED BY <1>3, <1>5, <1>6, <1>7, <1>8, <1>9, WriteSound

(* change_thread_suspend, counting down, preserves the invariant: only the  *)
(* step to zero leaves the suspended state.                                 *)
LEMMA ResumeThreadSound ==
    ASSUME IInv, NEW t \in Threads, ResumeThread(t)
    PROVE  IInv'
<1> DEFINE left == IF threads[t].suspends = 0 THEN 0 ELSE threads[t].suspends - 1
           woken == IF threads[t].parked /\ threads[t].context.call # "none"
                    THEN "waiting" ELSE "runnable"
           state == IF left # 0 THEN "suspended"
                    ELSE IF threads[t].suspends # 0 THEN woken ELSE threads[t].state
           r == [threads[t] EXCEPT !.suspends = left, !.state = state]
<1>1. threads[t] \in Record /\ SoundRecord(threads[t], t = current) /\ Live(threads[t])
  BY RecordFacts DEF ResumeThread
<1>2. left \in Nat /\ state \in ThreadState \cup {"absent"}
  BY <1>1 DEF Record, ThreadState
<1>3. /\ threads[t].suspends = 0 => left = 0 /\ state = threads[t].state
      /\ left # 0 => state = "suspended"
      /\ threads[t].suspends # 0 /\ left = 0 => state \in {"waiting", "runnable"}
  BY <1>1 DEF Record
<1>4. Complete([Plan EXCEPT !.threads[t] = r])
  BY DEF ResumeThread
<1> HIDE DEF left, state
<1>5. /\ r \in Record /\ r.state = state /\ r.suspends = left
      /\ r.parked = threads[t].parked /\ r.context = threads[t].context
  BY <1>1, <1>2 DEF Record
<1> HIDE DEF r
<1>6. /\ threads' = [threads EXCEPT ![t] = r] /\ current' = current
      /\ required' = required /\ loader' = loader /\ host' = host
      /\ lastId' = lastId /\ passes' = passes
      /\ host = "guest" /\ required = NoThread
  BY <1>4 DEF ResumeThread, Complete, Publish, Plan, Call
<1>7. SoundRecord(r, t = current) /\ Live(r)
  BY <1>1, <1>2, <1>3, <1>5 DEF SoundRecord, Live, Record
<1>8. t = current => r.state = "running" /\ r.context.call = "none"
  BY <1>3, <1>5, <1>6, GuestFacts
<1>9. /\ threads[t].state # "absent" /\ host' \in HostStates
      /\ required' \in Threads \cup {NoThread}
  BY <1>1, <1>6, RecordFacts DEF Live
<1>10. r \in Record /\ SoundRecord(r, t = current) /\ passes' = passes
  BY <1>5, <1>6, <1>7
<1>11. host' = "guest" /\ required' = NoThread =>
          /\ host = "guest" /\ required = NoThread
          /\ t = current => r.state = "running" /\ r.context.call = "none"
  BY <1>6, <1>8
<1> QED BY <1>6, <1>9, <1>10, <1>11, WriteSound

(* SetThreadPriority preserves the invariant.                               *)
LEMMA SetThreadPrioritySound ==
    ASSUME IInv, NEW t \in Threads, NEW priority \in Priorities,
           SetThreadPriority(t, priority)
    PROVE  IInv'
<1> DEFINE r == [threads[t] EXCEPT !.priority = priority]
<1>1. threads[t] \in Record /\ SoundRecord(threads[t], t = current)
  BY RecordFacts
<1>2. /\ r \in Record /\ r.state = threads[t].state
      /\ r.suspends = threads[t].suspends /\ r.parked = threads[t].parked
      /\ r.context = threads[t].context
  BY <1>1, SchedulerAssumption DEF Record
<1>3. /\ threads' = [threads EXCEPT ![t] = r] /\ current' = current
      /\ required' = required /\ loader' = loader /\ host' = host
      /\ lastId' = lastId /\ passes' = passes
      /\ host = "guest" /\ required = NoThread
  BY DEF SetThreadPriority, Complete, Publish, Plan, Call
<1> HIDE DEF r
<1>4. SoundRecord(r, t = current)
  BY <1>1, <1>2 DEF SoundRecord, Live
<1>5. t = current => r.state = "running" /\ r.context.call = "none"
  BY <1>2, <1>3, GuestFacts
<1>6. host' \in HostStates /\ required' \in Threads \cup {NoThread}
  BY <1>3, RecordFacts
<1> QED BY <1>2, <1>3, <1>4, <1>5, <1>6, WriteSound

(* CreateThread preserves the invariant: the new id is unused, its context  *)
(* is parked, and the records it drops are of dead threads.                 *)
LEMMA CreateThreadSound ==
    ASSUME IInv, NEW suspended \in BOOLEAN, CreateThread(suspended)
    PROVE  IInv'
<1> DEFINE id == lastId + 1
           record == [Absent EXCEPT !.state = IF suspended THEN "suspended" ELSE "runnable",
                                    !.suspends = IF suspended THEN 1 ELSE 0,
                                    !.parked = TRUE]
           dead == {t \in Threads : threads[t].state = "terminated"} \ {current}
<1>1. PICK kept \in SUBSET dead :
        LET here == {t \in Threads : Live(threads[t])} \cup {current} \cup kept IN
        threads' = [t \in Threads |->
            IF t = id THEN record ELSE IF t \in here THEN threads[t] ELSE Absent]
  BY DEF CreateThread
<1> DEFINE here == {t \in Threads : Live(threads[t])} \cup {current} \cup kept
<1>2. threads' = [t \in Threads |->
          IF t = id THEN record ELSE IF t \in here THEN threads[t] ELSE Absent]
  BY <1>1
<1>3. /\ id \in Threads /\ lastId' = id /\ host = "guest" /\ required = NoThread
      /\ current' = current /\ required' = required /\ loader' = loader
      /\ host' = host /\ passes' = passes
  BY DEF CreateThread, Call
<1>4. /\ record \in Record /\ Absent \in Record
      /\ \A t \in Threads : t # current => /\ SoundRecord(record, t = current)
                                           /\ SoundRecord(Absent, t = current)
  <2>1. Absent \in Record
    BY ResetValues DEF Absent, Record
  <2>2. /\ record \in Record /\ record.parked = TRUE
        /\ record.state \in {"suspended", "runnable"}
        /\ record.state = "suspended" <=> record.suspends # 0
    <3> DEFINE state == IF suspended THEN "suspended" ELSE "runnable"
               n == IF suspended THEN 1 ELSE 0
    <3>1. /\ state \in {"suspended", "runnable"} /\ n \in Nat
          /\ state = "suspended" <=> n # 0
      OBVIOUS
    <3>2. record = [Absent EXCEPT !.state = state, !.suspends = n, !.parked = TRUE]
      OBVIOUS
    <3> HIDE DEF state, n, record
    <3> QED BY <2>1, <3>1, <3>2 DEF Record, ThreadState
  <2>3. Absent.state = "absent" /\ Absent.parked = FALSE
    BY DEF Absent
  <2> HIDE DEF record
  <2> QED BY <2>1, <2>2, <2>3 DEF SoundRecord, Live
<1> HIDE DEF record
<1>5. /\ threads[id].state = "absent" /\ threads[current].state = "running"
      /\ lastId \in Nat /\ current \in Threads
  <2>1. lastId \in Nat /\ id > lastId
    BY SchedulerAssumption DEF IInv, TypeOK, Threads
  <2> QED BY <1>3, <2>1, GuestFacts DEF IInv, IssuedIds
<1>6. ASSUME NEW t \in Threads
      PROVE  /\ threads'[t] \in Record /\ SoundRecord(threads'[t], t = current)
             /\ t > id => threads'[t].state = "absent"
  <2>1. CASE t = id
    <3>1. threads'[t] = record /\ t # current
      BY <1>2, <1>3, <1>5, <2>1
    <3> QED BY <1>4, <1>5, <2>1, <3>1
  <2>2. CASE t # id /\ t \in here
    <3>1. threads'[t] = threads[t]
      BY <1>2, <2>2
    <3>2. t > id => t > lastId
      BY <1>5 DEF Threads
    <3> QED BY <3>1, <3>2, RecordFacts DEF IInv, IssuedIds
  <2>3. CASE t # id /\ t \notin here
    <3>1. threads'[t] = Absent /\ t # current
      BY <1>2, <2>3
    <3>2. Absent.state = "absent"
      BY DEF Absent
    <3> QED BY <1>4, <3>1, <3>2
  <2> QED BY <2>1, <2>2, <2>3
<1>7. TypeOK'
  BY <1>2, <1>3, <1>6 DEF TypeOK, IInv
<1>8. SoundPlan(Plan)'
  BY <1>3, <1>6, <1>7 DEF SoundPlan, Plan, PlanType, TypeOK
<1>9. GuestRuns'
  <2>1. threads'[current] = threads[current]
    BY <1>2, <1>3, <1>5
  <2> QED BY <1>3, <2>1, GuestFacts DEF GuestRuns
<1>10. IssuedIds'
  BY <1>3, <1>6 DEF IssuedIds
<1> QED BY <1>7, <1>8, <1>9, <1>10 DEF IInv

(* SwitchToThread preserves the invariant: it switches to a live thread     *)
(* that is not suspended.                                                   *)
LEMMA SwitchToThreadSound ==
    ASSUME IInv, SwitchToThread
    PROVE  IInv'
<1>1. /\ host = "guest" /\ required = NoThread /\ SoundPlan(Plan)
      /\ host' = host /\ lastId' = lastId /\ passes' = passes
      /\ host' \in HostStates /\ passes' \in 0 .. MaxThread
  BY DEF SwitchToThread, Call, Complete, IInv, TypeOK
<1>2. PICK t \in {u \in Threads \ {current} : Eligible(Plan, u)} :
        Publish([Switched(Plan, t) EXCEPT !.required = t])
  BY DEF SwitchToThread, NextThread, Complete
<1>3. /\ t \in Threads /\ t # NoThread /\ Live(Plan.threads[t])
      /\ Plan.threads[t].suspends = 0
  BY <1>2, SchedulerAssumption DEF Eligible, Live, Threads, NoThread
<1> DEFINE moved == Switched(Plan, t)
           q == [moved EXCEPT !.required = t]
<1>4. SoundStep(Plan, moved)
  BY <1>1, <1>3, SwitchedSound
<1>5. Publish(q)
  BY <1>2
<1> HIDE DEF moved
<1>6. q \in PlanType /\ q.threads = moved.threads /\ q.current = moved.current
      /\ q.required = t
  BY <1>3, <1>4 DEF SoundStep, SoundPlan, PlanType
<1> HIDE DEF q
<1>7. SoundStep(Plan, q)
  BY <1>4, <1>6 DEF SoundStep, SoundPlan
<1> QED BY <1>1, <1>3, <1>5, <1>6, <1>7, PublishSound

(* A call that blocks preserves the invariant.                              *)
LEMMA BlockSound ==
    ASSUME IInv, Block
    PROVE  IInv'
<1> DEFINE r == [threads[current] EXCEPT !.context.call = "blocked"]
<1>1. /\ host = "guest" /\ required = NoThread
      /\ threads' = [threads EXCEPT ![current] = r] /\ host' = "schedule"
      /\ current' = current /\ required' = required /\ loader' = loader
      /\ lastId' = lastId /\ passes' = passes
  BY DEF Block, Call
<1>2. /\ current \in Threads /\ threads[current] \in Record
      /\ SoundRecord(threads[current], current = current)
      /\ threads[current].state # "absent" /\ threads[current].suspends = 0
      /\ threads[current].context \in Context
  BY <1>1, GuestFacts, RecordFacts DEF Record
<1>3. /\ r \in Record /\ r.state = threads[current].state
      /\ r.suspends = threads[current].suspends /\ r.parked = threads[current].parked
  BY <1>2 DEF Record, Context, CallStates
<1> HIDE DEF r
<1>4. SoundRecord(r, current = current)
  BY <1>2, <1>3 DEF SoundRecord, Live
<1>5. required' \in Threads \cup {NoThread} /\ host' \in HostStates /\ host' # "guest"
  BY <1>1 DEF HostStates
<1> QED BY <1>1, <1>2, <1>3, <1>4, <1>5, WriteSound

(* A load takes or releases the lock and is counted in the context.         *)
LEMMA LoadWritten ==
    ASSUME IInv, host = "guest", required = NoThread, NEW n \in Nat,
           NEW q, q = [Plan EXCEPT !.threads[current].context.loads = n]
    PROVE  /\ SoundStep(Plan, q) /\ q.current = current /\ q.required = NoThread
           /\ q.threads[current].state = "running"
           /\ q.threads[current].context.call = "none"
<1> DEFINE r == [threads[current] EXCEPT !.context.loads = n]
<1>1. /\ SoundPlan(Plan) /\ Plan.threads = threads /\ Plan.current = current
      /\ Plan.required = NoThread
  BY DEF IInv, Plan
<1>2. /\ current \in Threads /\ threads[current] \in Record
      /\ threads[current].context \in Context
  BY GuestFacts DEF Record
<1>3. /\ r \in Record /\ r.state = threads[current].state
      /\ r.suspends = threads[current].suspends /\ r.parked = threads[current].parked
      /\ r.context.call = threads[current].context.call
  BY <1>2 DEF Record, Context
<1>4. q = [Plan EXCEPT !.threads[current] = r]
  BY <1>1
<1> HIDE DEF r
<1>5. /\ r.state = Plan.threads[current].state
      /\ r.suspends = Plan.threads[current].suspends
      /\ r.parked = Plan.threads[current].parked
  BY <1>1, <1>3
<1> DEFINE put == [Plan EXCEPT !.threads[current] = r]
<1>6. /\ SoundStep(Plan, put) /\ StaysOn(Plan, put, current)
      /\ put.threads[current] = r /\ put.required = Plan.required
  BY <1>1, <1>2, <1>3, <1>5, PutDetail
<1> HIDE DEF put
<1>7. q = put
  BY <1>4 DEF put
<1> QED BY <1>1, <1>3, <1>6, <1>7, GuestFacts DEF StaysOn

(* LoadLibrary preserves the invariant, whether it takes the loader lock or *)
(* waits for it.                                                            *)
LEMMA LoadLibrarySound ==
    ASSUME IInv, LoadLibrary
    PROVE  IInv'
<1>1. host = "guest" /\ required = NoThread
  BY DEF LoadLibrary, Call
<1>2. /\ current \in Threads /\ threads[current] \in Record
      /\ threads[current].context \in Context
  BY <1>1, GuestFacts DEF Record
<1>3. CASE LoaderOpen(loader, current)
  <2> DEFINE q == [Plan EXCEPT !.threads[current].context.loads
                                 = threads[current].context.loads + 1]
             a == AcquireLoader(q, current)
  <2>1. threads[current].context.loads + 1 \in Nat
    BY <1>2 DEF Context
  <2>2. Complete(a)
    BY <1>3 DEF LoadLibrary, Plan
  <2> HIDE DEF a
  <2>3. /\ SoundStep(Plan, q) /\ q.current = current
        /\ q.threads[current].state = "running"
        /\ q.threads[current].context.call = "none"
    BY <1>1, <2>1, LoadWritten
  <2> HIDE DEF q
  <2>4. /\ SoundStep(q, a) /\ a.current = current /\ a.threads = q.threads
    BY <1>2, <2>3, AcquireSound DEF SoundStep, a
  <2>5. /\ SoundStep(Plan, a) /\ Publish(a) /\ lastId' = lastId
        /\ host' \in HostStates /\ passes' \in 0 .. MaxThread
    BY <2>2, <2>3, <2>4 DEF SoundStep, Complete, IInv, TypeOK
  <2> QED BY <2>3, <2>4, <2>5, PublishSound
<1>4. CASE ~LoaderOpen(loader, current)
  <2> DEFINE r == [threads[current] EXCEPT !.context.call = "loader"]
  <2>1. /\ threads' = [threads EXCEPT ![current] = r] /\ host' = "schedule"
        /\ current' = current /\ required' = required /\ loader' = loader
        /\ lastId' = lastId /\ passes' = passes
    BY <1>4 DEF LoadLibrary
  <2>2. /\ r \in Record /\ r.state = threads[current].state
        /\ r.suspends = threads[current].suspends
        /\ r.parked = threads[current].parked
    BY <1>2 DEF Record, Context, CallStates
  <2> HIDE DEF r
  <2>3. SoundRecord(r, current = current) /\ threads[current].state # "absent"
    BY <1>1, <1>2, <2>2, GuestFacts, RecordFacts DEF SoundRecord, Live
  <2>4. required' \in Threads \cup {NoThread} /\ host' \in HostStates /\ host' # "guest"
    BY <1>1, <2>1 DEF HostStates
  <2> QED BY <1>2, <2>1, <2>2, <2>3, <2>4, WriteSound
<1> QED BY <1>3, <1>4

(* The end of a module load preserves the invariant.                        *)
LEMMA FinishLoadSound ==
    ASSUME IInv, FinishLoad
    PROVE  IInv'
<1>1. host = "guest" /\ required = NoThread /\ threads[current].context.loads > 0
  BY DEF FinishLoad, Call
<1> DEFINE q == [Plan EXCEPT !.threads[current].context.loads
                               = threads[current].context.loads - 1]
           a == ReleaseLoader(q)
<1>2. threads[current].context.loads - 1 \in Nat
  BY <1>1, GuestFacts DEF Record, Context
<1>3. Complete(a)
  BY DEF FinishLoad, Plan
<1> HIDE DEF a
<1>4. /\ SoundStep(Plan, q) /\ q.current = current
      /\ q.threads[current].state = "running"
      /\ q.threads[current].context.call = "none"
  BY <1>1, <1>2, LoadWritten
<1> HIDE DEF q
<1>5. /\ SoundStep(q, a) /\ a.current = current /\ a.threads = q.threads
  BY <1>4, ReleaseSound DEF SoundStep, a
<1>6. /\ SoundStep(Plan, a) /\ Publish(a) /\ lastId' = lastId
      /\ host' \in HostStates /\ passes' \in 0 .. MaxThread
  BY <1>3, <1>4, <1>5 DEF SoundStep, Complete, IInv, TypeOK
<1> QED BY <1>4, <1>5, <1>6, PublishSound

(* The return of a notification callback (finish_thread_invocation)         *)
(* preserves the invariant: the context under it is back in the engine.     *)
LEMMA ReturnCallbackSound ==
    ASSUME IInv, ReturnCallback
    PROVE  IInv'
<1> DEFINE frames == threads[current].frames
           under == frames[Len(frames)]
           below == SubSeq(frames, 1, Len(frames) - 1)
           phase == [threads[current].phase EXCEPT !.calls = @ - 1, !.active = FALSE]
           state == IF under.call = "none" THEN "running" ELSE "waiting"
           r == [threads[current] EXCEPT !.context = under, !.frames = below,
                                         !.state = state, !.phase = phase]
<1>1. /\ host = "guest" /\ required = NoThread /\ frames # <<>>
      /\ current' = current /\ required' = required /\ loader' = loader
      /\ lastId' = lastId /\ passes' = passes /\ host' = "schedule"
  BY DEF ReturnCallback
<1>2. threads' = [threads EXCEPT ![current] = r]
  BY DEF ReturnCallback
<1>3. /\ current \in Threads /\ threads[current] \in Record
      /\ threads[current].suspends = 0 /\ threads[current].parked = FALSE
      /\ threads[current].state = "running"
  BY <1>1, GuestFacts
<1>4. frames \in Seq(Context) /\ threads[current].phase \in Lifecycle
  BY <1>3 DEF Record
<1>5. under \in Context /\ below \in Seq(Context)
  <2> HIDE DEF frames
  <2>1. Len(frames) \in 1 .. Len(frames) /\ Len(frames) \in Nat
    BY <1>1, <1>4, EmptySeq
  <2> QED BY <1>4, <2>1
<1>6. phase \in Lifecycle
  <2>1. threads[current].phase.calls - 1 \in Int
    BY <1>4 DEF Lifecycle
  <2>2. phase = [threads[current].phase EXCEPT
                   !.calls = threads[current].phase.calls - 1, !.active = FALSE]
    BY <1>4 DEF Lifecycle
  <2> HIDE DEF phase
  <2> QED BY <1>4, <2>1, <2>2 DEF Lifecycle
<1>7. state \in {"running", "waiting"}
  OBVIOUS
<1> HIDE DEF under, below, phase, state, frames
<1>8. /\ r \in Record /\ r.state = state /\ r.suspends = 0 /\ r.parked = FALSE
  BY <1>3, <1>5, <1>6, <1>7 DEF Record, ThreadState
<1> HIDE DEF r
<1>9. SoundRecord(r, current = current) /\ threads[current].state # "absent"
  BY <1>3, <1>7, <1>8 DEF SoundRecord, Live
<1>10. required' \in Threads \cup {NoThread} /\ host' \in HostStates /\ host' # "guest"
  BY <1>1 DEF HostStates
<1> QED BY <1>1, <1>2, <1>3, <1>8, <1>9, <1>10, WriteSound

(* A plan that only names another thread to schedule is as sound.           *)
LEMMA RequiredSound ==
    ASSUME NEW p, NEW q, SoundStep(p, q), NEW n \in Threads \cup {NoThread}
    PROVE  /\ SoundStep(p, [q EXCEPT !.required = n])
           /\ [q EXCEPT !.required = n].required = n
           /\ [q EXCEPT !.required = n].current = q.current
           /\ [q EXCEPT !.required = n].threads = q.threads
BY DEF SoundStep, SoundPlan, PlanType

(* TerminateThread preserves the invariant: of the last thread, of the      *)
(* caller, or of another thread.                                            *)
LEMMA TerminateThreadSound ==
    ASSUME IInv, NEW t \in Threads, TerminateThread(t)
    PROVE  IInv'
<1>1. /\ host = "guest" /\ required = NoThread /\ SoundPlan(Plan)
      /\ Live(Plan.threads[t]) /\ Plan.threads = threads /\ Plan.current = current
      /\ Plan.required = required /\ current \in Threads
      /\ lastId' = lastId /\ passes' = passes /\ passes' \in 0 .. MaxThread
  BY DEF TerminateThread, Call, IInv, TypeOK, Plan
<1> DEFINE R == Retired(Plan)
           T == Terminated(Plan, t)
           N == [T EXCEPT !.required = t]
<1>2. SoundStep(Plan, R)
  BY <1>1, RetiredSound
<1>3. /\ SoundStep(Plan, T) /\ T.current = current
      /\ \A u \in Threads \ {t} : T.threads[u] = threads[u]
  BY <1>1, TerminatedSound DEF StaysOn
<1>4. \/ Publish(R) /\ host' = "exited"
      \/ Publish(N) /\ host' = "schedule"
      \/ t # current /\ Publish(T) /\ host' = host
  BY DEF TerminateThread
<1> HIDE DEF R, T
<1>5. SoundStep(Plan, N)
  BY <1>3, RequiredSound
<1> HIDE DEF N
<1>6. CASE Publish(R) /\ host' = "exited"
  BY <1>1, <1>2, <1>6, PublishSound DEF HostStates
<1>7. CASE Publish(N) /\ host' = "schedule"
  BY <1>1, <1>5, <1>7, PublishSound DEF HostStates
<1>8. CASE t # current /\ Publish(T) /\ host' = host
  <2>1. /\ T.threads[T.current].state = "running"
        /\ T.threads[T.current].context.call = "none"
    BY <1>1, <1>3, <1>8, GuestFacts
  <2> QED BY <1>1, <1>3, <1>8, <2>1, PublishSound DEF HostStates
<1> QED BY <1>4, <1>6, <1>7, <1>8

(* ExitThread preserves the invariant: it waits for the loader lock, enters *)
(* a detach callback, or ends the thread or the process.                    *)
LEMMA ExitThreadSound ==
    ASSUME IInv, ExitThread
    PROVE  IInv'
<1> DEFINE old == threads[current]
           phase == IF old.phase.reason # "attach" THEN old.phase
                    ELSE [reason |-> "detach", calls |-> 0, active |-> FALSE,
                          prepared |-> FALSE]
           r == [old EXCEPT !.leaving = TRUE, !.context.call = "exit", !.phase = phase]
           asked == [Plan EXCEPT !.threads[current] = r]
           stopped == [asked EXCEPT !.threads[current].state = "waiting"]
           exited == Advanced(asked, current)
<1>1. /\ host = "guest" /\ required = NoThread /\ SoundPlan(Plan)
      /\ Plan.threads = threads /\ Plan.current = current /\ Plan.required = NoThread
      /\ lastId' = lastId /\ passes' = passes /\ passes' \in 0 .. MaxThread
  BY DEF ExitThread, Call, IInv, TypeOK, Plan
<1>2. \/ Publish([stopped EXCEPT !.required = current]) /\ host' = "schedule"
      \/ Publish(exited) /\ host' = "exited"
      \/ /\ Live(exited.threads[current])
         /\ exited.threads[current].context.call = "none"
         /\ Publish(exited) /\ host' = host
      \/ Publish([exited EXCEPT !.required = current]) /\ host' = "schedule"
  BY DEF ExitThread
<1>3. /\ current \in Threads /\ old \in Record /\ old.state = "running"
      /\ old.suspends = 0 /\ old.parked = FALSE
      /\ old.context \in Context /\ old.phase \in Lifecycle
  BY <1>1, GuestFacts DEF Record
<1>4. phase \in Lifecycle
  BY <1>3 DEF Lifecycle
<1> HIDE DEF phase
<1>5. /\ r \in Record /\ r.state = "running" /\ r.suspends = 0 /\ r.parked = FALSE
  BY <1>3, <1>4 DEF Record, Context, CallStates
<1> HIDE DEF r
<1>6. /\ SoundStep(Plan, asked) /\ asked.current = current
      /\ asked.threads[current] = r /\ SoundPlan(asked)
  <2>1. /\ r.state = Plan.threads[current].state
        /\ r.suspends = Plan.threads[current].suspends
        /\ r.parked = Plan.threads[current].parked
    BY <1>1, <1>3, <1>5
  <2> QED BY <1>1, <1>3, <1>5, <2>1, PutDetail DEF StaysOn, SoundStep
<1> HIDE DEF asked
<1>7. SoundStep(Plan, stopped)
  <2> DEFINE w == [r EXCEPT !.state = "waiting"]
  <2>1. /\ w \in Record /\ w.state = "waiting" /\ w.suspends = 0 /\ w.parked = FALSE
    BY <1>5 DEF Record, ThreadState
  <2>2. stopped = [asked EXCEPT !.threads[current] = w]
    BY <1>6
  <2> HIDE DEF w
  <2>3. SoundRecord(w, current = asked.current)
    BY <1>6, <2>1 DEF SoundRecord, Live
  <2>4. SoundStep(asked, [asked EXCEPT !.threads[current] = w])
    BY <1>3, <1>5, <1>6, <2>1, <2>3, PutRecord
  <2> QED BY <1>6, <2>2, <2>4 DEF SoundStep
<1> HIDE DEF stopped
<1>8. /\ SoundStep(Plan, exited) /\ exited.current = current
      /\ Live(exited.threads[current]) => exited.threads[current].state = "running"
  <2>1. /\ Live(asked.threads[current]) /\ asked.threads[current].suspends = 0
        /\ asked.threads[current].state = "running"
    BY <1>5, <1>6 DEF Live
  <2>2. /\ SoundStep(asked, exited) /\ StaysOn(asked, exited, current)
        /\ Live(exited.threads[current]) => exited.threads[current].state = "running"
    BY <1>3, <1>6, <2>1, AdvancedSound
  <2> QED BY <1>6, <2>2 DEF SoundStep, StaysOn
<1> HIDE DEF exited
<1>9. CASE Publish([stopped EXCEPT !.required = current]) /\ host' = "schedule"
  <2>1. SoundStep(Plan, [stopped EXCEPT !.required = current])
    BY <1>3, <1>7, RequiredSound
  <2> QED BY <1>1, <1>9, <2>1, PublishSound DEF HostStates
<1>10. CASE Publish(exited) /\ host' = "exited"
  BY <1>1, <1>8, <1>10, PublishSound DEF HostStates
<1>11. CASE /\ Live(exited.threads[current])
            /\ exited.threads[current].context.call = "none"
            /\ Publish(exited) /\ host' = host
  BY <1>1, <1>8, <1>11, PublishSound DEF HostStates
<1>12. CASE Publish([exited EXCEPT !.required = current]) /\ host' = "schedule"
  <2>1. SoundStep(Plan, [exited EXCEPT !.required = current])
    BY <1>3, <1>8, RequiredSound
  <2> QED BY <1>1, <1>12, <2>1, PublishSound DEF HostStates
<1> QED BY <1>2, <1>9, <1>10, <1>11, <1>12

-----------------------------------------------------------------------------
(* The invariant is inductive.                                              *)

(* The primary thread alone, running, satisfies the invariant.              *)
LEMMA InitSound ==
    ASSUME Init
    PROVE  IInv
<1>1. MaxThread \in Nat \ {0} /\ 1 \in Threads
  BY SchedulerAssumption DEF Threads
<1>2. /\ Absent \in Record /\ Absent.state = "absent" /\ Absent.parked = FALSE
      /\ Primary \in Record /\ Primary.state = "running" /\ Primary.suspends = 0
      /\ Primary.parked = FALSE /\ Primary.context.call = "none"
  <2>1. Absent \in Record
    BY ResetValues DEF Absent, Record
  <2>2. /\ Primary \in Record /\ Primary.state = "running"
        /\ Primary.suspends = Absent.suspends /\ Primary.parked = Absent.parked
        /\ Primary.context = Absent.context
    BY <2>1 DEF Primary, Record, ThreadState
  <2> QED BY <2>1, <2>2 DEF Absent, Empty
<1>3. /\ threads = [t \in Threads |-> IF t = 1 THEN Primary ELSE Absent]
      /\ current = 1 /\ required = NoThread /\ lastId = 1 /\ host = "guest"
      /\ passes = 0 /\ loader = [owner |-> NoThread, depth |-> 0]
  BY DEF Init
<1>4. TypeOK
  BY <1>1, <1>2, <1>3 DEF TypeOK, HostStates
<1>5. \A t \in Threads : SoundRecord(threads[t], t = current)
  BY <1>1, <1>2, <1>3 DEF SoundRecord, Live
<1>6. SoundPlan(Plan)
  BY <1>4, <1>5 DEF SoundPlan, Plan, PlanType, TypeOK
<1>7. GuestRuns /\ IssuedIds
  BY <1>1, <1>2, <1>3 DEF GuestRuns, IssuedIds
<1> QED BY <1>4, <1>6, <1>7 DEF IInv

(* Every step preserves the invariant, one case per action of Next.         *)
LEMMA NextSound ==
    ASSUME IInv, [Next]_vars
    PROVE  IInv'
<1>1. CASE UNCHANGED vars
  BY <1>1 DEF vars, IInv, TypeOK, SoundPlan, PlanType, Plan, GuestRuns, IssuedIds
<1>2. ASSUME NEW suspended \in BOOLEAN, CreateThread(suspended) PROVE IInv'
  BY <1>2, CreateThreadSound
<1>3. ASSUME NEW t \in Threads, SuspendThread(t) \/ ResumeThread(t) \/ TerminateThread(t)
      PROVE  IInv'
  BY <1>3, SuspendThreadSound, ResumeThreadSound, TerminateThreadSound
<1>4. ASSUME NEW t \in Threads, NEW priority \in Priorities,
             SetThreadPriority(t, priority)
      PROVE  IInv'
  BY <1>4, SetThreadPrioritySound
<1>5. CASE SwitchToThread
  BY <1>5, SwitchToThreadSound
<1>6. CASE Block
  BY <1>6, BlockSound
<1>7. CASE LoadLibrary \/ FinishLoad
  BY <1>7, LoadLibrarySound, FinishLoadSound
<1>8. CASE ReturnCallback
  BY <1>8, ReturnCallbackSound
<1>9. CASE ExitThread
  BY <1>9, ExitThreadSound
<1>10. CASE Pass
  BY <1>10, PassSound
<1>11. ASSUME NEW t \in Threads, Answer(t) PROVE IInv'
  BY <1>11, AnswerSound
<1> QED
  BY <1>1, <1>2, <1>3, <1>4, <1>5, <1>6, <1>7, <1>8, <1>9, <1>10, <1>11
     DEF Next, Guest

(* The invariant on which the theorems rest.                                *)
THEOREM Inductive == Spec => []IInv
<1>1. Init => IInv
  BY InitSound
<1>2. IInv /\ [Next]_vars => IInv'
  BY NextSound
<1> QED BY <1>1, <1>2, PTL DEF Spec

(* The scheduler's variables keep their types.                              *)
THEOREM TypeCorrect == Spec => []TypeOK
<1>1. IInv => TypeOK
  BY DEF IInv
<1> QED BY <1>1, Inductive, PTL

(* However calls are answered, callbacks return and threads are scheduled,  *)
(* a live thread is in the suspended state exactly while its suspend count  *)
(* is not zero (change_thread_suspend against schedule_windows_thread).     *)
THEOREM SuspensionHolds == Spec => []SuspendCoherent
<1>1. IInv => SuspendCoherent
  BY DEF IInv, SoundPlan, SoundRecord, Plan, SuspendCoherent
<1> QED BY <1>1, Inductive, PTL

(* Every live thread has its context in one place, in the engine or parked, *)
(* and only the thread in the engine is running: a switch never finds a     *)
(* thread without a context, and no context is ever overwritten.            *)
THEOREM ContextsAreExact == Spec => []ContextsExact
<1>1. IInv => ContextsExact
  BY DEF IInv, SoundPlan, SoundRecord, Plan, ContextsExact
<1> QED BY <1>1, Inductive, PTL
=============================================================================
