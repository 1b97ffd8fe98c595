-------------------------- MODULE LoaderLockProofs --------------------------
(***************************************************************************)
(* The loader lock of ThreadScheduler, for any number of threads,          *)
(* callbacks and nested loads: it counts what its holder has open, guest   *)
(* code runs only where it may, and a thread that exits hands the lock on. *)
(* And the loop of a schedule: when it reports that there is nothing but   *)
(* waiting, that is so.                                                    *)
(*                                                                         *)
(* As in ThreadSchedulerProofs the invariant is a property of plans, with  *)
(* one lemma per operator that makes a plan out of a plan.                 *)
(***************************************************************************)
EXTENDS ThreadSchedulerProofs, WellFoundedInduction

(* A thread that may load modules: it is in a notification callback, or it  *)
(* has started and has not been asked to leave.                             *)
Ready(r) ==
    r.phase.active \/ (r.phase.reason = "none" /\ r.started /\ ~r.leaving)

(* No load is open in the context, and it does not wait to open one.        *)
Idle(c) == c.loads = 0 /\ c.call # "loader"

(* The life cycle of a live thread: loads are open only in a thread that is *)
(* Ready, none in a context under a callback; a callback runs in a phase;   *)
(* and only an exit can interrupt the attach phase.                         *)
Orderly(r) ==
    /\ Ready(r) \/ Idle(r.context)
    /\ \A i \in DOMAIN r.frames : Idle(r.frames[i])
    /\ r.phase.active => r.frames # <<>>
    /\ r.phase.reason = "none" => r.phase = NoPhase /\ r.frames = <<>>
    /\ r.phase.reason = "attach" =>
         Len(r.frames) = (IF r.phase.active THEN 1 ELSE 0)
    /\ r.phase.reason # "none" /\ ~r.phase.prepared => r.leaving

(* What a thread has open under the loader lock, and what the lock says.    *)
Held(r) == r.context.loads + (IF r.phase.reason = "none" THEN 0 ELSE 1)
Share(l, t) == IF l.owner = t THEN l.depth ELSE 0

LockPlan(p) ==
    /\ p.loader.depth >= 0
    /\ p.loader.owner = NoThread <=> p.loader.depth = 0
    /\ \A t \in Threads : Live(p.threads[t]) =>
         Orderly(p.threads[t]) /\ Held(p.threads[t]) = Share(p.loader, t)

(* While guest code may run, the current thread is Ready.                   *)
GuestReady ==
    host = "guest" /\ required = NoThread => Ready(threads[current])

(* The loader lock and the engine are never held by a thread of the future. *)
HoldersIssued == loader.owner <= lastId /\ current <= lastId

LockInv == IInv /\ LockPlan(Plan) /\ GuestReady /\ HoldersIssued

-----------------------------------------------------------------------------
(* Steps that leave the lock alone. *)

(* The new record has nothing open that the old one had not.                *)
SameWork(r, s) ==
    Live(s) => /\ Live(r)
               /\ s.context.loads = r.context.loads
               /\ s.context.call = "loader" => r.context.call = "loader"
               /\ s.frames = r.frames /\ s.phase = r.phase
               /\ s.started = r.started /\ s.leaving = r.leaving

(* The number that stands for no thread names none.                         *)
LEMMA NoThreadIsNone == NoThread \notin Threads /\ Threads \subseteq Nat
BY SchedulerAssumption DEF NoThread, Threads

(* A record with the same work is as orderly, and holds as much.            *)
LEMMA SameWorkFacts ==
    ASSUME NEW r, NEW s, SameWork(r, s), Live(s)
    PROVE  /\ Orderly(r) => Orderly(s)
           /\ Held(s) = Held(r)
           /\ Ready(s) <=> Ready(r)
BY DEF SameWork, Orderly, Idle, Held, Ready

(* A step that changes the work of one thread keeps the lock exact when     *)
(* that thread is orderly and has open what the lock says, and the lock     *)
(* goes from none or the thread to none or the thread.                      *)
LEMMA LockWrite ==
    ASSUME NEW p \in PlanType, NEW q \in PlanType, LockPlan(p), NEW t \in Threads,
           \A u \in Threads \ {t} : SameWork(p.threads[u], q.threads[u]),
           Live(q.threads[t]) =>
               Orderly(q.threads[t]) /\ Held(q.threads[t]) = Share(q.loader, t),
           q.loader.depth >= 0,
           q.loader.owner = NoThread <=> q.loader.depth = 0,
           \/ q.loader = p.loader
           \/ /\ p.loader.owner \in {NoThread, t}
              /\ q.loader.owner \in {NoThread, t}
    PROVE  LockPlan(q)
<1>1. ASSUME NEW u \in Threads, Live(q.threads[u])
      PROVE  Orderly(q.threads[u]) /\ Held(q.threads[u]) = Share(q.loader, u)
  <2>1. CASE u = t
    BY <1>1, <2>1
  <2>2. CASE u # t
    <3>1. SameWork(p.threads[u], q.threads[u])
      BY <2>2
    <3>2. Live(p.threads[u])
      BY <1>1, <3>1 DEF SameWork
    <3>3. Orderly(p.threads[u]) /\ Held(p.threads[u]) = Share(p.loader, u)
      BY <3>2 DEF LockPlan
    <3>4. Share(q.loader, u) = Share(p.loader, u)
      BY <2>2, NoThreadIsNone DEF Share
    <3> QED BY <1>1, <3>1, <3>3, <3>4, SameWorkFacts
  <2> QED BY <2>1, <2>2
<1> QED BY <1>1 DEF LockPlan

(* A step that changes nobody's work keeps the lock exact.                  *)
LEMMA LockKept ==
    ASSUME NEW p \in PlanType, NEW q \in PlanType, LockPlan(p),
           \A u \in Threads : SameWork(p.threads[u], q.threads[u]),
           q.loader = p.loader
    PROVE  LockPlan(q)
<1>1. 1 \in Threads
  BY SchedulerAssumption DEF Threads
<1>2. Live(q.threads[1]) =>
        Orderly(q.threads[1]) /\ Held(q.threads[1]) = Share(q.loader, 1)
  <2>1. SameWork(p.threads[1], q.threads[1])
    BY <1>1
  <2> QED BY <1>1, <2>1, SameWorkFacts DEF LockPlan, SameWork
<1>3. q.loader.depth >= 0 /\ (q.loader.owner = NoThread <=> q.loader.depth = 0)
  BY DEF LockPlan
<1> QED BY <1>1, <1>2, <1>3, LockWrite

(* Who takes the lock has one thing more open.                              *)
LEMMA LockAcquired ==
    ASSUME NEW p, SoundPlan(p), LockPlan(p), NEW t \in Threads,
           Live(p.threads[t]), LoaderOpen(p.loader, t), NEW r \in Record,
           Orderly(r), Held(r) = Held(p.threads[t]) + 1,
           NEW q, q = [p EXCEPT !.threads[t] = r], SoundPlan(q)
    PROVE  /\ LockPlan(AcquireLoader(q, t))
           /\ AcquireLoader(q, t).loader.owner = t
<1> DEFINE a == AcquireLoader(q, t)
<1>1. /\ p \in PlanType /\ q \in PlanType /\ a \in PlanType
      /\ a.threads = q.threads
  BY AcquireSound DEF SoundPlan, SoundStep
<1>2. /\ q.threads[t] = r /\ q.loader = p.loader
      /\ \A u \in Threads \ {t} : q.threads[u] = p.threads[u]
  BY <1>1 DEF PlanType
<1>3. a.loader = [owner |-> t, depth |-> p.loader.depth + 1]
  BY <1>1, <1>2 DEF AcquireLoader, PlanType
<1>4. Held(p.threads[t]) = p.loader.depth /\ p.loader.depth \in Nat
  <2>1. p.loader.depth \in Int /\ p.loader.depth >= 0
    BY <1>1 DEF PlanType, LockPlan
  <2>2. Held(p.threads[t]) = Share(p.loader, t)
    BY DEF LockPlan
  <2> QED BY <2>1, <2>2 DEF Share, LoaderOpen, LockPlan
<1> HIDE DEF a
<1>5. Held(a.threads[t]) = Share(a.loader, t)
  BY <1>1, <1>2, <1>3, <1>4 DEF Share
<1>6. \A u \in Threads \ {t} : SameWork(p.threads[u], a.threads[u])
  BY <1>1, <1>2 DEF SameWork
<1>7. a.loader.depth >= 0 /\ (a.loader.owner = NoThread <=> a.loader.depth = 0)
  BY <1>3, <1>4, NoThreadIsNone
<1>8. /\ p.loader.owner \in {NoThread, t} /\ a.loader.owner = t
      /\ Live(a.threads[t]) => Orderly(a.threads[t])
  BY <1>1, <1>2, <1>3 DEF LoaderOpen
<1>9. LockPlan(a)
  BY <1>1, <1>5, <1>6, <1>7, <1>8, LockWrite
<1> QED BY <1>8, <1>9 DEF a

(* Who has something open holds the lock, and who releases it has one thing *)
(* less open; the last release frees the lock.                              *)
LEMMA LockReleased ==
    ASSUME NEW p, SoundPlan(p), LockPlan(p), NEW t \in Threads,
           Live(p.threads[t]), Held(p.threads[t]) > 0,
           NEW q, SoundPlan(q), q.loader = p.loader,
           \A u \in Threads \ {t} : SameWork(p.threads[u], q.threads[u]),
           Live(q.threads[t]) =>
               /\ Orderly(q.threads[t])
               /\ Held(q.threads[t]) = Held(p.threads[t]) - 1
    PROVE  /\ LockPlan(ReleaseLoader(q))
           /\ ReleaseLoader(q).loader.owner \in {NoThread, t}
           /\ Held(p.threads[t]) = 1 => ReleaseLoader(q).loader.owner = NoThread
<1> DEFINE a == ReleaseLoader(q)
<1>1. /\ p \in PlanType /\ q \in PlanType /\ a \in PlanType
      /\ a.threads = q.threads
  BY ReleaseSound DEF SoundPlan, SoundStep
<1>2. a.loader = [owner |-> IF p.loader.depth = 1 THEN NoThread ELSE p.loader.owner,
                  depth |-> p.loader.depth - 1]
  BY <1>1 DEF ReleaseLoader, PlanType
<1>3. /\ p.loader.owner = t /\ Held(p.threads[t]) = p.loader.depth
      /\ p.loader.depth \in Nat \ {0}
  <2>1. p.loader.depth \in Int /\ p.loader.depth >= 0
    BY <1>1 DEF PlanType, LockPlan
  <2>2. Held(p.threads[t]) = Share(p.loader, t)
    BY DEF LockPlan
  <2> QED BY <2>1, <2>2 DEF Share
<1> HIDE DEF a
<1>4. Live(a.threads[t]) =>
        Orderly(a.threads[t]) /\ Held(a.threads[t]) = Share(a.loader, t)
  BY <1>1, <1>2, <1>3 DEF Share
<1>5. a.loader.depth >= 0 /\ (a.loader.owner = NoThread <=> a.loader.depth = 0)
  BY <1>2, <1>3, NoThreadIsNone
<1>6. a.loader.owner \in {NoThread, t}
  BY <1>2, <1>3
<1>7. LockPlan(a)
  BY <1>1, <1>3, <1>4, <1>5, <1>6, LockWrite
<1> QED BY <1>2, <1>3, <1>6, <1>7 DEF a

-----------------------------------------------------------------------------
(* advance_windows_thread_initialization, on a thread for which the lock is *)
(* open if it is not Ready.                                                 *)

MayAdvance(p, t) == Ready(p.threads[t]) \/ LoaderOpen(p.loader, t)

(* The lock stays exact, and thread t is the only one that may take it.     *)
LockStep(p, q, t) ==
    LockPlan(q) /\ q.loader.owner \in {p.loader.owner, NoThread, t}

Survive(p, q) == \A u \in Threads : Live(p.threads[u]) => Live(q.threads[u])

(* A phase begins in a thread that is idle, under the lock (Begun).         *)
LEMMA BegunLocked ==
    ASSUME NEW p, SoundPlan(p), LockPlan(p), NEW t \in Threads,
           Live(p.threads[t]), MayAdvance(p, t), ~p.threads[t].phase.active
    PROVE  /\ LockStep(p, Begun(p, t), t)
           /\ Survive(p, Begun(p, t))
           /\ ~Begun(p, t).threads[t].phase.active
           /\ Begun(p, t).threads[t].phase.reason = "none"
                => Ready(Begun(p, t).threads[t])
<1> DEFINE old == p.threads[t]
           reason == IF old.leaving THEN "detach" ELSE "attach"
           phase == [reason |-> reason, calls |-> Callbacks, active |-> FALSE,
                     prepared |-> TRUE]
           r == [old EXCEPT !.phase = phase]
           q == [p EXCEPT !.threads[t] = r]
           b == Begun(p, t)
           Starts == old.phase.reason = "none" /\ (old.leaving \/ ~old.started)
           Lists == old.phase.reason # "none" /\ ~old.phase.prepared
<1>1. /\ p \in PlanType /\ old \in Record /\ Orderly(old)
      /\ old.context \in Context /\ old.frames \in Seq(Context)
      /\ old.leaving \in BOOLEAN /\ old.started \in BOOLEAN
  BY DEF SoundPlan, PlanType, LockPlan, Record
<1>2. /\ phase \in Lifecycle /\ phase.reason = reason /\ ~phase.active
      /\ phase.prepared /\ reason \in {"attach", "detach"}
      /\ reason = "attach" <=> ~old.leaving
  BY <1>1, SchedulerAssumption DEF Lifecycle
<1>3. b = IF Starts THEN AcquireLoader(q, t) ELSE IF Lists THEN q ELSE p
  BY <1>1 DEF Begun, PlanType
<1> HIDE DEF phase, reason, b
<1>4. /\ r \in Record /\ r.state = old.state /\ r.suspends = old.suspends
      /\ r.parked = old.parked /\ r.context = old.context /\ r.frames = old.frames
      /\ r.phase = phase /\ r.leaving = old.leaving /\ r.started = old.started
  BY <1>1, <1>2 DEF Record
<1> HIDE DEF r
<1>5. /\ SoundPlan(q) /\ q \in PlanType /\ q.threads[t] = r /\ q.loader = p.loader
      /\ \A u \in Threads \ {t} : q.threads[u] = p.threads[u]
  <2>1. SoundStep(p, q)
    BY <1>4, PutDetail
  <2>2. q.threads[t] = r /\ q.loader = p.loader
        /\ \A u \in Threads \ {t} : q.threads[u] = p.threads[u]
    BY <1>1 DEF PlanType
  <2> QED BY <2>1, <2>2 DEF SoundStep, SoundPlan
<1>6. CASE Starts
  <2>1. ~Ready(old) /\ Idle(old.context) /\ LoaderOpen(p.loader, t) /\ old.frames = <<>>
    BY <1>1, <1>6 DEF Ready, Orderly, MayAdvance
  <2>2. Orderly(r)
    BY <1>2, <1>4, <2>1 DEF Orderly
  <2>3. Held(r) = Held(old) + 1
    BY <1>2, <1>4, <1>6, <1>1, <2>1 DEF Held, Idle
  <2> DEFINE a == AcquireLoader(q, t)
  <2>4. LockPlan(a) /\ a.loader.owner = t
    BY <1>4, <1>5, <2>1, <2>2, <2>3, LockAcquired
  <2>5. a.threads = q.threads /\ b = a
    BY <1>3, <1>5, <1>6, AcquireSound
  <2> HIDE DEF a
  <2>6. ~b.threads[t].phase.active /\ b.threads[t].phase.reason # "none"
    BY <1>2, <1>4, <1>5, <2>5
  <2>7. Survive(p, b)
    BY <1>4, <1>5, <2>5 DEF Survive, Live
  <2> QED BY <2>4, <2>5, <2>6, <2>7 DEF LockStep, b
<1>7. CASE Lists
  <2>1. ~Ready(old) /\ Idle(old.context) /\ old.leaving
    BY <1>1, <1>7 DEF Ready, Orderly
  <2>2. Orderly(r)
    BY <1>1, <1>2, <1>4, <2>1 DEF Orderly
  <2>3. Held(r) = Held(old)
    BY <1>2, <1>4, <1>7 DEF Held
  <2>4. Orderly(q.threads[t]) /\ Held(q.threads[t]) = Share(q.loader, t)
    BY <1>5, <2>2, <2>3 DEF LockPlan
  <2>5. \A u \in Threads \ {t} : SameWork(p.threads[u], q.threads[u])
    BY <1>5 DEF SameWork
  <2>6. q.loader.depth >= 0 /\ (q.loader.owner = NoThread <=> q.loader.depth = 0)
    BY <1>5 DEF LockPlan
  <2>7. LockPlan(q)
    BY <1>1, <1>5, <2>4, <2>5, <2>6, LockWrite
  <2>8. b = q
    BY <1>3, <1>7
  <2>9. ~b.threads[t].phase.active /\ b.threads[t].phase.reason # "none"
    BY <1>2, <1>4, <1>5, <2>8
  <2>10. Survive(p, b)
    BY <1>4, <1>5, <2>8 DEF Survive, Live
  <2> QED BY <1>5, <2>7, <2>8, <2>9, <2>10 DEF LockStep, b
<1>8. CASE ~Starts /\ ~Lists
  <2>1. b = p
    BY <1>3, <1>8
  <2>2. old.phase.reason = "none" => Ready(old)
    BY <1>1, <1>8 DEF Ready
  <2> QED BY <2>1, <2>2 DEF LockStep, Survive, b
<1> QED BY <1>6, <1>7, <1>8

(* A callback is entered in a thread that is idle, and leaves nothing open  *)
(* under it.                                                                *)
LEMMA CallbackEnteredLocked ==
    ASSUME NEW p, SoundPlan(p), LockPlan(p), NEW t \in Threads, t = p.current,
           Live(p.threads[t]), p.threads[t].suspends = 0,
           ~p.threads[t].phase.active, p.threads[t].phase.reason # "none"
    PROVE  /\ LockStep(p, CallbackEntered(p, t), t)
           /\ Survive(p, CallbackEntered(p, t))
           /\ Ready(CallbackEntered(p, t).threads[t])
<1> DEFINE old == p.threads[t]
           q == CallbackEntered(p, t)
           r == [old EXCEPT !.state = "running", !.context = Empty,
                            !.frames = Append(@, old.context), !.phase.active = TRUE]
<1>1. /\ p \in PlanType /\ old \in Record /\ Orderly(old)
      /\ old.context \in Context /\ old.frames \in Seq(Context)
      /\ old.phase \in Lifecycle
  BY DEF SoundPlan, PlanType, LockPlan, Record
<1>2. q = [p EXCEPT !.threads[t] = r]
  BY <1>1 DEF CallbackEntered, PlanType
<1>3. /\ q.threads[t] = r /\ q.loader = p.loader /\ r.state = "running"
      /\ r.context = Empty /\ r.frames = Append(old.frames, old.context)
      /\ r.phase = [old.phase EXCEPT !.active = TRUE]
      /\ r.leaving = old.leaving /\ r.started = old.started
      /\ \A u \in Threads \ {t} : q.threads[u] = p.threads[u]
  <2> DEFINE frames == Append(old.frames, old.context)
             phase == [old.phase EXCEPT !.active = TRUE]
             s == [old EXCEPT !.state = "running", !.context = Empty,
                              !.frames = frames, !.phase = phase]
  <2>1. r = s
    BY <1>1 DEF Record
  <2> HIDE DEF frames, phase
  <2>2. /\ s.state = "running" /\ s.context = Empty /\ s.frames = frames
        /\ s.phase = phase /\ s.leaving = old.leaving /\ s.started = old.started
    BY <1>1 DEF Record
  <2> HIDE DEF s, r
  <2>3. /\ q.threads[t] = r /\ q.loader = p.loader
        /\ \A u \in Threads \ {t} : q.threads[u] = p.threads[u]
    BY <1>1, <1>2 DEF PlanType
  <2> QED BY <2>1, <2>2, <2>3 DEF frames, phase
<1>4. q \in PlanType
  BY CallbackEnteredSound DEF SoundStep, SoundPlan
<1> HIDE DEF r, q
<1>5. /\ r.phase.active /\ r.phase.reason = old.phase.reason
      /\ r.phase.prepared = old.phase.prepared
  BY <1>1, <1>3 DEF Lifecycle
<1>6. Idle(old.context) /\ ~Ready(old)
  BY <1>1 DEF Orderly, Ready
<1>7. /\ r.frames # <<>> /\ Len(r.frames) = Len(old.frames) + 1
      /\ \A i \in DOMAIN r.frames : Idle(r.frames[i])
  <2>1. \A i \in DOMAIN old.frames : Idle(old.frames[i])
    BY <1>1 DEF Orderly
  <2>2. /\ Len(r.frames) = Len(old.frames) + 1 /\ Len(old.frames) \in Nat
        /\ DOMAIN r.frames = 1 .. Len(old.frames) + 1
        /\ DOMAIN old.frames = 1 .. Len(old.frames)
        /\ \A i \in 1 .. Len(old.frames) : r.frames[i] = old.frames[i]
        /\ r.frames[Len(old.frames) + 1] = old.context
    <3> DEFINE f == old.frames
               c == old.context
    <3>1. f \in Seq(Context) /\ c \in Context /\ r.frames = Append(f, c)
      BY <1>1, <1>3
    <3> HIDE DEF f, c
    <3>2. /\ Len(Append(f, c)) = Len(f) + 1 /\ Len(f) \in Nat
          /\ DOMAIN Append(f, c) = 1 .. Len(f) + 1 /\ DOMAIN f = 1 .. Len(f)
          /\ \A i \in 1 .. Len(f) : Append(f, c)[i] = f[i]
          /\ Append(f, c)[Len(f) + 1] = c
      BY <3>1, AppendProperties
    <3> QED BY <3>1, <3>2 DEF f, c
  <2>3. r.frames # <<>>
    BY <2>2
  <2> QED BY <1>6, <2>1, <2>2, <2>3
<1>8. Ready(r)
  BY <1>5 DEF Ready
<1>9. Orderly(r)
  <2>1. /\ old.phase.reason = "attach" => Len(old.frames) = 0
        /\ ~old.phase.prepared => old.leaving
    BY <1>1 DEF Orderly
  <2>2. r.phase.reason = "attach" => Len(r.frames) = 1
    BY <1>5, <1>7, <2>1
  <2>3. r.phase.reason # "none" /\ (~r.phase.prepared => r.leaving)
    BY <1>3, <1>5, <2>1
  <2> QED BY <1>5, <1>7, <1>8, <2>2, <2>3 DEF Orderly
<1>10. Held(r) = Held(old)
  BY <1>3, <1>5, <1>6 DEF Held, Idle, Empty
<1>11. Held(q.threads[t]) = Share(q.loader, t)
  BY <1>3, <1>10 DEF LockPlan
<1>12. \A u \in Threads \ {t} : SameWork(p.threads[u], q.threads[u])
  BY <1>3 DEF SameWork
<1>13. q.loader.depth >= 0 /\ (q.loader.owner = NoThread <=> q.loader.depth = 0)
  BY <1>3 DEF LockPlan
<1>14. LockPlan(q)
  BY <1>1, <1>3, <1>4, <1>9, <1>11, <1>12, <1>13, LockWrite
<1> QED BY <1>3, <1>8, <1>14 DEF LockStep, Survive, Live, q

(* The end of a phase releases the lock for good: the thread is ready, or   *)
(* gone (PhaseEnded).                                                       *)
LEMMA PhaseOverLocked ==
    ASSUME NEW p, SoundPlan(p), LockPlan(p), NEW t \in Threads,
           Live(p.threads[t]), ~p.threads[t].phase.active,
           p.threads[t].phase.reason # "none"
    PROVE  /\ LockPlan(PhaseEnded(p, t))
           /\ PhaseEnded(p, t).loader.owner = NoThread
           /\ Live(PhaseEnded(p, t).threads[t]) => Ready(PhaseEnded(p, t).threads[t])
<1> DEFINE old == p.threads[t]
           Cleared(q) == [q EXCEPT !.threads[t].phase = NoPhase,
                                   !.threads[t].leaving = FALSE]
           started == [p EXCEPT !.threads[t].started = TRUE]
           gone == IF LastLive(p) THEN Retired(p) ELSE Terminated(p, t)
           pe == PhaseEnded(p, t)
<1>1. /\ p \in PlanType /\ old \in Record /\ Orderly(old)
      /\ old.context \in Context /\ old.frames \in Seq(Context)
      /\ old.phase \in Lifecycle
  BY DEF SoundPlan, PlanType, LockPlan, Record
<1>2. pe = IF old.phase.reason = "attach"
           THEN ReleaseLoader(Cleared(started)) ELSE ReleaseLoader(Cleared(gone))
  BY DEF PhaseEnded
<1>3. Held(old) = 1
  <2>1. Idle(old.context)
    BY <1>1 DEF Orderly, Ready
  <2> QED BY <2>1 DEF Held, Idle
<1>4. ASSUME NEW q, SoundPlan(q), q.threads[t].state = old.state \/ ~Live(q.threads[t])
      PROVE  /\ SoundPlan(Cleared(q))
             /\ Cleared(q).loader = q.loader
             /\ \A u \in Threads \ {t} : Cleared(q).threads[u] = q.threads[u]
             /\ Cleared(q).threads[t].state = q.threads[t].state
             /\ Cleared(q).threads[t].context = q.threads[t].context
             /\ Cleared(q).threads[t].frames = q.threads[t].frames
             /\ Cleared(q).threads[t].started = q.threads[t].started
             /\ Cleared(q).threads[t].phase = NoPhase
             /\ Cleared(q).threads[t].leaving = FALSE
  <2> DEFINE r == q.threads[t]
             w == [r EXCEPT !.phase = NoPhase, !.leaving = FALSE]
  <2>1. r \in Record /\ q \in PlanType
    BY <1>4 DEF SoundPlan, PlanType
  <2>2. /\ w \in Record /\ w.state = r.state /\ w.suspends = r.suspends
        /\ w.parked = r.parked /\ w.context = r.context /\ w.frames = r.frames
        /\ w.started = r.started /\ w.phase = NoPhase /\ w.leaving = FALSE
    BY <2>1, ResetValues DEF Record
  <2>3. Cleared(q) = [q EXCEPT !.threads[t] = w]
    BY <2>1 DEF PlanType, Record
  <2> HIDE DEF w, Cleared
  <2>4. SoundStep(q, [q EXCEPT !.threads[t] = w])
    BY <1>4, <2>2, PutDetail
  <2>5. /\ Cleared(q).threads[t] = w /\ Cleared(q).loader = q.loader
        /\ \A u \in Threads \ {t} : Cleared(q).threads[u] = q.threads[u]
    BY <2>1, <2>3 DEF PlanType
  <2> QED BY <2>2, <2>3, <2>4, <2>5 DEF SoundStep
<1>5. /\ SoundPlan(started) /\ started.loader = p.loader
      /\ \A u \in Threads \ {t} : started.threads[u] = p.threads[u]
      /\ started.threads[t] = [old EXCEPT !.started = TRUE]
  <2> DEFINE w == [old EXCEPT !.started = TRUE]
  <2>1. /\ w \in Record /\ w.state = old.state /\ w.suspends = old.suspends
        /\ w.parked = old.parked /\ w.context = old.context
    BY <1>1 DEF Record
  <2>2. started = [p EXCEPT !.threads[t] = w]
    BY <1>1 DEF PlanType
  <2> HIDE DEF w
  <2>3. SoundStep(p, [p EXCEPT !.threads[t] = w])
    BY <2>1, PutDetail
  <2> QED BY <1>1, <2>2, <2>3 DEF SoundStep, PlanType, w
<1>6. /\ SoundPlan(gone) /\ gone.loader = p.loader /\ ~Live(gone.threads[t])
      /\ \A u \in Threads \ {t} : SameWork(p.threads[u], gone.threads[u])
  <2>1. CASE LastLive(p)
    <3>1. SoundPlan(gone) /\ gone = Retired(p) /\ ~Live(gone.threads[t])
      BY <2>1, RetiredSound DEF SoundStep
    <3>2. gone.loader = p.loader
      BY <1>1, <3>1 DEF Retired, PlanType
    <3>3. \A u \in Threads : ~Live(gone.threads[u])
      BY <3>1, RetiredSound
    <3> QED BY <3>1, <3>2, <3>3 DEF SameWork
  <2>2. CASE ~LastLive(p)
    <3>1. /\ SoundPlan(gone) /\ gone = Terminated(p, t) /\ ~Live(gone.threads[t])
          /\ \A u \in Threads \ {t} : gone.threads[u] = p.threads[u]
      BY <2>2, TerminatedSound DEF SoundStep
    <3>2. gone.loader = p.loader
      BY <1>1, <3>1 DEF Terminated, PlanType
    <3> QED BY <3>1, <3>2 DEF SameWork
  <2> QED BY <2>1, <2>2
<1> HIDE DEF started, gone
<1>7. CASE old.phase.reason = "attach"
  <2> DEFINE q == Cleared(started)
             s == q.threads[t]
  <2>1. /\ started.threads[t].state = old.state
        /\ started.threads[t].context = old.context
        /\ started.threads[t].frames = old.frames
        /\ started.threads[t].started = TRUE
    BY <1>1, <1>5 DEF Record
  <2>2. /\ SoundPlan(q) /\ q.loader = p.loader
        /\ \A u \in Threads \ {t} : q.threads[u] = p.threads[u]
        /\ s.state = old.state /\ s.context = old.context /\ s.frames = old.frames
        /\ s.started = TRUE /\ s.phase = NoPhase /\ s.leaving = FALSE
    BY <1>4, <1>5, <2>1
  <2>3. pe = ReleaseLoader(q)
    BY <1>2, <1>7
  <2> HIDE DEF q
  <2>4. /\ Ready(s) /\ old.frames = <<>> /\ Held(s) = Held(old) - 1
    <3>1. Len(old.frames) = 0
      BY <1>1, <1>7 DEF Orderly
    <3>2. old.frames = <<>>
      BY <1>1, <3>1, EmptySeq
    <3> QED BY <1>1, <1>7, <2>2, <3>2 DEF Ready, NoPhase, Held, Context
  <2>5. Orderly(s)
    BY <2>2, <2>4 DEF Orderly, NoPhase
  <2>6. \A u \in Threads \ {t} : SameWork(p.threads[u], q.threads[u])
    BY <2>2 DEF SameWork
  <2>7. LockPlan(pe) /\ pe.loader.owner = NoThread
    BY <1>3, <2>2, <2>3, <2>4, <2>5, <2>6, LockReleased
  <2>8. pe.threads = q.threads
    BY <2>2, <2>3, ReleaseSound
  <2> QED BY <2>4, <2>7, <2>8 DEF pe
<1>8. CASE old.phase.reason # "attach"
  <2> DEFINE q == Cleared(gone)
  <2>1. /\ SoundPlan(q) /\ q.loader = p.loader /\ ~Live(q.threads[t])
        /\ \A u \in Threads \ {t} : q.threads[u] = gone.threads[u]
    BY <1>4, <1>6 DEF Live
  <2>2. pe = ReleaseLoader(q)
    BY <1>2, <1>8
  <2> HIDE DEF q
  <2>3. \A u \in Threads \ {t} : SameWork(p.threads[u], q.threads[u])
    BY <1>6, <2>1
  <2>4. LockPlan(pe) /\ pe.loader.owner = NoThread
    BY <1>3, <2>1, <2>2, <2>3, LockReleased
  <2>5. pe.threads = q.threads
    BY <2>1, <2>2, ReleaseSound
  <2> QED BY <2>1, <2>4, <2>5 DEF pe
<1> QED BY <1>7, <1>8

(* Advancing a thread leaves it Ready or gone; if a thread is gone, the     *)
(* lock is free.                                                            *)
LEMMA AdvancedLocked ==
    ASSUME NEW p, SoundPlan(p), LockPlan(p), NEW t \in Threads, t = p.current,
           Live(p.threads[t]), p.threads[t].suspends = 0, MayAdvance(p, t)
    PROVE  /\ LockStep(p, Advanced(p, t), t)
           /\ Survive(p, Advanced(p, t)) \/ Advanced(p, t).loader.owner = NoThread
           /\ Live(Advanced(p, t).threads[t]) => Ready(Advanced(p, t).threads[t])
<1> DEFINE b == Begun(p, t)
           a == Advanced(p, t)
<1>1. CASE p.threads[t].phase.active
  BY <1>1 DEF Advanced, LockStep, Survive, Ready
<1>2. CASE ~p.threads[t].phase.active
  <2>1. /\ LockStep(p, b, t) /\ Survive(p, b) /\ ~b.threads[t].phase.active
        /\ b.threads[t].phase.reason = "none" => Ready(b.threads[t])
    BY <1>2, BegunLocked
  <2>2. /\ SoundPlan(b) /\ t = b.current /\ b.threads[t].suspends = 0
        /\ Live(b.threads[t]) /\ LockPlan(b)
    BY <2>1, BegunSound DEF SoundStep, StaysOn, LockStep, Live
  <2>3. a = IF b.threads[t].phase.reason = "none" THEN b
            ELSE IF b.threads[t].phase.calls > 0 THEN CallbackEntered(b, t)
            ELSE PhaseEnded(b, t)
    BY <1>2 DEF Advanced
  <2> HIDE DEF a, b
  <2>4. CASE b.threads[t].phase.reason = "none"
    BY <2>1, <2>3, <2>4 DEF a
  <2>5. CASE b.threads[t].phase.reason # "none" /\ b.threads[t].phase.calls > 0
    <3>1. /\ LockStep(b, a, t) /\ Survive(b, a) /\ Ready(a.threads[t])
      BY <2>1, <2>2, <2>3, <2>5, CallbackEnteredLocked
    <3> QED BY <2>1, <3>1 DEF LockStep, Survive, a
  <2>6. CASE b.threads[t].phase.reason # "none" /\ ~(b.threads[t].phase.calls > 0)
    <3>1. /\ LockPlan(a) /\ a.loader.owner = NoThread
          /\ Live(a.threads[t]) => Ready(a.threads[t])
      BY <2>1, <2>2, <2>3, <2>6, PhaseOverLocked
    <3> QED BY <3>1 DEF LockStep, a
  <2> QED BY <2>4, <2>5, <2>6
<1> QED BY <1>1, <1>2

-----------------------------------------------------------------------------
(* One pass of schedule_windows_thread. *)

(* A load that obtains the lock is counted; an answer changes nothing.      *)
LEMMA CallReturnedLocked ==
    ASSUME NEW p, SoundPlan(p), LockPlan(p)
    PROVE  /\ LockStep(p, CallReturned(p), p.current)
           /\ CallReturned(p).threads[p.current].phase = p.threads[p.current].phase
           /\ CallReturned(p).threads[p.current].started
                = p.threads[p.current].started
           /\ CallReturned(p).threads[p.current].leaving
                = p.threads[p.current].leaving
           /\ \A u \in Threads : CallReturned(p).threads[u].state = p.threads[u].state
<1> DEFINE c == p.current
           old == p.threads[c]
           answered == [old EXCEPT !.context.call = "none"]
           loaded == [old EXCEPT !.context = [call |-> "none", loads |-> @.loads + 1]]
           A == [p EXCEPT !.threads[c] = answered]
           L == [p EXCEPT !.threads[c] = loaded]
           q == CallReturned(p)
<1>1. /\ p \in PlanType /\ c \in Threads /\ old \in Record
      /\ old.context \in Context /\ old.context.loads \in Nat
  BY DEF SoundPlan, PlanType, Record, Context
<1>2. q = IF old.context.call = "answered" THEN A
          ELSE IF old.context.call = "loader" /\ LoaderOpen(p.loader, c)
          THEN AcquireLoader(L, c) ELSE p
  BY <1>1 DEF CallReturned, PlanType
<1>3. /\ answered \in Record /\ answered.state = old.state
      /\ answered.suspends = old.suspends /\ answered.parked = old.parked
      /\ answered.context.call = "none" /\ answered.context.loads = old.context.loads
      /\ answered.frames = old.frames /\ answered.phase = old.phase
      /\ answered.started = old.started /\ answered.leaving = old.leaving
  BY <1>1 DEF Record, Context, CallStates
<1>4. /\ loaded \in Record /\ loaded.state = old.state
      /\ loaded.suspends = old.suspends /\ loaded.parked = old.parked
      /\ loaded.context.call = "none" /\ loaded.context.loads = old.context.loads + 1
      /\ loaded.frames = old.frames /\ loaded.phase = old.phase
      /\ loaded.started = old.started /\ loaded.leaving = old.leaving
  <2> DEFINE context == [call |-> "none", loads |-> old.context.loads + 1]
  <2>1. context \in Context
    BY <1>1 DEF Context, CallStates
  <2>2. loaded = [old EXCEPT !.context = context]
    OBVIOUS
  <2> HIDE DEF loaded
  <2>3. context.call = "none" /\ context.loads = old.context.loads + 1
    OBVIOUS
  <2> HIDE DEF context
  <2> QED BY <1>1, <2>1, <2>2, <2>3 DEF Record
<1> HIDE DEF answered, loaded, q
<1>5. /\ A.threads[c] = answered /\ A.loader = p.loader
      /\ L.threads[c] = loaded /\ L.loader = p.loader
      /\ \A u \in Threads \ {c} : /\ A.threads[u] = p.threads[u]
                                  /\ L.threads[u] = p.threads[u]
  BY <1>1 DEF PlanType
<1>6. SoundPlan(A) /\ SoundPlan(L) /\ A \in PlanType /\ L \in PlanType
  BY <1>1, <1>3, <1>4, PutDetail DEF SoundStep, SoundPlan
<1>7. CASE old.context.call = "answered"
  <2>1. \A u \in Threads : SameWork(p.threads[u], A.threads[u])
    BY <1>3, <1>5 DEF SameWork, Live
  <2>2. LockPlan(A)
    BY <1>1, <1>5, <1>6, <2>1, LockKept
  <2> QED BY <1>2, <1>3, <1>5, <1>7, <2>2 DEF LockStep, q
<1>8. CASE old.context.call = "loader" /\ LoaderOpen(p.loader, c)
  <2> DEFINE a == AcquireLoader(L, c)
  <2>1. a.threads = L.threads /\ a \in PlanType
    BY <1>1, <1>6, AcquireSound DEF SoundStep, SoundPlan
  <2>4. ASSUME LockPlan(a), a.loader.owner = c
        PROVE  /\ LockStep(p, q, c) /\ q.threads[c].phase = old.phase
               /\ q.threads[c].started = old.started
               /\ q.threads[c].leaving = old.leaving
               /\ \A u \in Threads : q.threads[u].state = p.threads[u].state
    <3>1. q = a
      BY <1>2, <1>8
    <3> HIDE DEF a, A, L
    <3> QED BY <1>4, <1>5, <2>1, <2>4, <3>1 DEF LockStep
  <2>2. CASE Live(old)
    <3>1. Orderly(old)
      BY <1>1, <2>2 DEF LockPlan
    <3>2. Ready(old) /\ (Ready(loaded) <=> Ready(old))
      BY <1>4, <1>8, <3>1 DEF Orderly, Ready, Idle
    <3>4. Orderly(loaded)
      BY <1>4, <3>1, <3>2 DEF Orderly
    <3>5. Held(loaded) = Held(old) + 1
      BY <1>1, <1>4 DEF Held
    <3>3. LockPlan(a) /\ a.loader.owner = c
      BY <1>1, <1>4, <1>6, <1>8, <2>2, <3>4, <3>5, LockAcquired
    <3> QED BY <2>4, <3>3 DEF q
  <2>3. CASE ~Live(old)
    <3>1. a.loader = [owner |-> c, depth |-> p.loader.depth + 1]
      BY <1>5, <1>6 DEF AcquireLoader, PlanType
    <3>2. p.loader.depth \in Nat /\ p.loader.owner \in {NoThread, c}
      BY <1>1, <1>8 DEF LockPlan, LoaderOpen, PlanType
    <3>3. ~Live(a.threads[c])
      BY <1>4, <1>5, <2>1, <2>3 DEF Live
    <3>4. \A u \in Threads \ {c} : SameWork(p.threads[u], a.threads[u])
      BY <1>5, <2>1 DEF SameWork
    <3>5. /\ a.loader.depth >= 0 /\ a.loader.owner \in {NoThread, c}
          /\ a.loader.owner = NoThread <=> a.loader.depth = 0
          /\ a.loader.owner = c
      BY <1>1, <3>1, <3>2, NoThreadIsNone
    <3> HIDE DEF a
    <3>6. LockPlan(a)
      BY <1>1, <2>1, <3>2, <3>3, <3>4, <3>5, LockWrite
    <3> QED BY <2>4, <3>5, <3>6 DEF a, q
  <2> QED BY <2>2, <2>3 DEF q
<1>9. CASE /\ old.context.call # "answered"
           /\ ~(old.context.call = "loader" /\ LoaderOpen(p.loader, c))
  BY <1>2, <1>9 DEF LockStep, q
<1> QED BY <1>7, <1>8, <1>9

(* Only the thread that resumes may take the lock, and it may advance as    *)
(* before.                                                                  *)
LEMMA ResumedLocked ==
    ASSUME NEW p, SoundPlan(p), LockPlan(p)
    PROVE  /\ LockStep(p, Resumed(p), p.current) /\ Survive(p, Resumed(p))
           /\ MayAdvance(p, p.current) => MayAdvance(Resumed(p), p.current)
<1> DEFINE c == p.current
           q == CallReturned(p)
           s == Resumed(p)
           loaded == p.threads[c].context.call = "loader"
           Put(state) == [q EXCEPT !.threads[c].state = state]
<1>1. /\ LockStep(p, q, c) /\ q.threads[c].phase = p.threads[c].phase
      /\ q.threads[c].started = p.threads[c].started
      /\ q.threads[c].leaving = p.threads[c].leaving
      /\ \A u \in Threads : q.threads[u].state = p.threads[u].state
  BY CallReturnedLocked
<1>2. SoundPlan(q) /\ q \in PlanType /\ q.current = c /\ c \in Threads
  BY CallReturnedSound DEF SoundStep, SoundPlan, StaysOn, PlanType
<1>3. s = IF /\ Live(q.threads[c]) /\ q.threads[c].context.call = "none"
             /\ loaded \/ q.threads[c].suspends = 0
          THEN Put("running")
          ELSE IF q.threads[c].state = "running" /\ q.threads[c].context.call # "none"
          THEN Put("waiting") ELSE q
  BY <1>2 DEF Resumed
<1>4. s \in PlanType
  BY ResumedSound DEF SoundStep, SoundPlan
<1>5. /\ s.loader = q.loader
      /\ \A u \in Threads \ {c} : s.threads[u] = q.threads[u]
      /\ s.threads[c] = q.threads[c] \/
         \E state \in {"running", "waiting"} :
           /\ s.threads[c] = [q.threads[c] EXCEPT !.state = state]
           /\ Live(q.threads[c])
  <2>1. s \in {q, Put("running"), Put("waiting")}
    BY <1>3
  <2>2. s # q => Live(q.threads[c])
    BY <1>3 DEF Live
  <2>3. \A state : /\ Put(state).loader = q.loader
                   /\ Put(state).threads[c] = [q.threads[c] EXCEPT !.state = state]
                   /\ \A u \in Threads \ {c} : Put(state).threads[u] = q.threads[u]
    BY <1>2 DEF PlanType
  <2> HIDE DEF s, q, Put
  <2> QED BY <2>1, <2>2, <2>3
<1> HIDE DEF s, q
<1>6. /\ s.threads[c].context = q.threads[c].context
      /\ s.threads[c].frames = q.threads[c].frames
      /\ s.threads[c].phase = q.threads[c].phase
      /\ s.threads[c].started = q.threads[c].started
      /\ s.threads[c].leaving = q.threads[c].leaving
      /\ Live(s.threads[c]) <=> Live(q.threads[c])
  <2>1. q.threads[c] \in Record
    BY <1>2 DEF PlanType
  <2> QED BY <1>5, <2>1 DEF Record, Live
<1>7. \A u \in Threads : SameWork(q.threads[u], s.threads[u])
  BY <1>5, <1>6 DEF SameWork
<1>8. LockPlan(s)
  BY <1>1, <1>2, <1>4, <1>5, <1>7, LockKept DEF LockStep
<1>9. LockStep(p, s, c)
  BY <1>1, <1>5, <1>8 DEF LockStep
<1>10. Survive(p, s)
  BY <1>1, <1>5, <1>6 DEF Survive, Live
<1>11. MayAdvance(p, c) => MayAdvance(s, c)
  BY <1>1, <1>6, <1>9 DEF MayAdvance, LockStep, Ready, LoaderOpen
<1> QED BY <1>9, <1>10, <1>11 DEF s

(* A wakeup changes nobody's work.                                          *)
LEMMA WokenLocked ==
    ASSUME NEW p, SoundPlan(p), LockPlan(p)
    PROVE  /\ LockPlan(Woken(p)) /\ Survive(p, Woken(p))
           /\ Woken(p).loader = p.loader
<1> DEFINE Wakes(t) == /\ p.threads[t].state = "waiting" /\ p.threads[t].suspends = 0
                       /\ SavedReady(p, t)
           q == Woken(p)
<1>1. /\ p \in PlanType /\ q \in PlanType /\ q.loader = p.loader
  BY WokenSound DEF SoundPlan, SoundStep, Woken, PlanType
<1>2. ASSUME NEW t \in Threads
      PROVE  /\ SameWork(p.threads[t], q.threads[t])
             /\ Live(p.threads[t]) => Live(q.threads[t])
  <2>1. q.threads[t] = IF Wakes(t) THEN [p.threads[t] EXCEPT !.state = "runnable"]
                       ELSE p.threads[t]
    BY <1>1 DEF Woken, PlanType
  <2>2. p.threads[t] \in Record /\ (Wakes(t) => p.threads[t].state = "waiting")
    BY <1>1 DEF PlanType
  <2> HIDE DEF q, Wakes
  <2> QED BY <2>1, <2>2 DEF Record, SameWork, Live
<1> HIDE DEF q
<1> QED BY <1>1, <1>2, LockKept DEF Survive, q

(* A switch changes nobody's work.                                          *)
LEMMA SwitchedLocked ==
    ASSUME NEW p, SoundPlan(p), LockPlan(p), NEW t \in Threads, Live(p.threads[t]),
           p.threads[t].suspends = 0
    PROVE  /\ LockPlan(Switched(p, t)) /\ Survive(p, Switched(p, t))
           /\ Switched(p, t).loader = p.loader
           /\ MayAdvance(p, t) => MayAdvance(Switched(p, t), t)
           /\ \A u \in Threads : SameWork(p.threads[u], Switched(p, t).threads[u])
<1> DEFINE c == p.current
           left == p.threads[c]
           Parked == [left EXCEPT !.parked = Live(left),
                                  !.state = IF @ = "running" THEN "runnable" ELSE @]
           entered == [p.threads[t] EXCEPT !.parked = FALSE]
           q == Switched(p, t)
<1>1. CASE t = c
  BY <1>1 DEF Switched, Survive, SameWork
<1>2. CASE t # c
  <2>1. /\ p \in PlanType /\ c \in Threads /\ left \in Record
        /\ p.threads[t] \in Record /\ q \in PlanType
    BY SwitchedSound DEF SoundPlan, PlanType, SoundStep
  <2>2. /\ q.loader = p.loader /\ q.threads[t] = entered /\ q.threads[c] = Parked
        /\ \A u \in Threads \ {t, c} : q.threads[u] = p.threads[u]
    BY <1>2, <2>1 DEF Switched, PlanType
  <2>3. /\ Parked.context = left.context /\ Parked.frames = left.frames
        /\ Parked.phase = left.phase /\ Parked.started = left.started
        /\ Parked.leaving = left.leaving
        /\ Parked.state = IF left.state = "running" THEN "runnable" ELSE left.state
        /\ entered.context = p.threads[t].context
        /\ entered.frames = p.threads[t].frames
        /\ entered.phase = p.threads[t].phase
        /\ entered.started = p.threads[t].started
        /\ entered.leaving = p.threads[t].leaving
        /\ entered.state = p.threads[t].state
    BY <2>1 DEF Record
  <2> HIDE DEF Parked, entered, q
  <2>4. ASSUME NEW u \in Threads
        PROVE  /\ SameWork(p.threads[u], q.threads[u])
               /\ Live(p.threads[u]) => Live(q.threads[u])
    <3>1. CASE u = t
      BY <2>2, <2>3, <3>1 DEF SameWork, Live
    <3>2. CASE u = c
      BY <2>2, <2>3, <3>2 DEF SameWork, Live
    <3>3. CASE u # t /\ u # c
      BY <2>2, <3>3 DEF SameWork
    <3> QED BY <3>1, <3>2, <3>3
  <2>5. LockPlan(q) /\ Survive(p, q)
    BY <2>1, <2>2, <2>4, LockKept DEF Survive
  <2>6. MayAdvance(p, t) => MayAdvance(q, t)
    BY <2>2, <2>3 DEF MayAdvance, Ready
  <2> QED BY <2>2, <2>4, <2>5, <2>6 DEF q
<1> QED BY <1>1, <1>2

-----------------------------------------------------------------------------
(* The actions. *)

(* The whole of a step keeps the lock exact when the plan it publishes does,*)
(* guest code runs only in a thread that is Ready, and nobody takes the     *)
(* lock but the current thread.                                             *)
LEMMA PublishLocked ==
    ASSUME LockInv, IInv', NEW q, LockPlan(q), Publish(q), lastId' >= lastId,
           current' = current \/ threads[current'].state # "absent",
           q.loader.owner \in {loader.owner, NoThread, current, current'},
           host' = "guest" /\ q.required = NoThread => Ready(q.threads[q.current])
    PROVE  LockInv'
<1>1. /\ threads' = q.threads /\ current' = q.current
      /\ required' = q.required /\ loader' = q.loader
  BY DEF Publish
<1>2. LockPlan(Plan)'
  BY <1>1 DEF LockPlan, Plan
<1>3. GuestReady'
  BY <1>1 DEF GuestReady
<1>4. /\ lastId \in Nat /\ lastId' \in Nat /\ current' \in Threads /\ current' \in Nat
      /\ loader.owner \in Nat /\ current \in Nat
  <2>1. /\ lastId \in Threads /\ current \in Threads
        /\ loader \in [owner : Threads \cup {NoThread}, depth : Int]
    BY DEF LockInv, IInv, TypeOK
  <2>2. lastId' \in Threads /\ current' \in Threads
    BY DEF IInv, TypeOK
  <2>3. loader.owner \in Threads \cup {NoThread} /\ NoThread \in Nat
    BY <2>1 DEF NoThread
  <2> QED BY <2>1, <2>2, <2>3, NoThreadIsNone
<1>5. current' <= lastId'
  <2>1. CASE current' = current
    BY <1>4, <2>1 DEF LockInv, HoldersIssued
  <2>2. CASE threads[current'].state # "absent"
    <3>1. ~(current' > lastId)
      BY <1>4, <2>2 DEF LockInv, IInv, IssuedIds
    <3> QED BY <1>4, <3>1
  <2> QED BY <2>1, <2>2
<1>6. loader'.owner <= lastId'
  BY <1>1, <1>4, <1>5 DEF LockInv, HoldersIssued, NoThread
<1> QED BY <1>2, <1>3, <1>5, <1>6 DEF LockInv, HoldersIssued

(* The thread that leaves, if any, leaves the lock free.                    *)
HandsOn ==
    \/ \A t \in Threads : Live(threads[t]) => Live(threads'[t])
    \/ loader'.owner = NoThread

(* A schedule selects a thread that may advance.                            *)
LEMMA SelectedMayAdvance ==
    ASSUME NEW p, SoundPlan(p), NEW t \in Selected(p)
    PROVE  MayAdvance(p, t)
<1>1. t \in Threads /\ Eligible(p, t)
  BY DEF Selected, NextThread, SoundPlan, PlanType
<1>2. p.threads[t].started \in BOOLEAN
  BY <1>1 DEF SoundPlan, PlanType, Record
<1> QED BY <1>1, <1>2 DEF Eligible, MayAdvance, Ready

(* One pass of the loop keeps the lock exact.                               *)
LEMMA PassLocked ==
    ASSUME LockInv, IInv', Pass
    PROVE  LockInv' /\ HandsOn
<1> DEFINE moved0 == Resumed(Plan)
           before == Woken(moved0)
<1>1. /\ SoundPlan(Plan) /\ LockPlan(Plan) /\ Plan.current = current
      /\ Plan.threads = threads /\ Plan.loader = loader /\ lastId' = lastId
      /\ current \in Threads /\ lastId \in Nat
  BY NoThreadIsNone DEF LockInv, IInv, TypeOK, Plan, Pass
<1>2. /\ SoundStep(Plan, moved0) /\ SoundPlan(moved0) /\ moved0.current = current
      /\ LockStep(Plan, moved0, current) /\ Survive(Plan, moved0)
  BY <1>1, ResumedSound, ResumedLocked DEF SoundStep, StaysOn
<1> HIDE DEF moved0
<1>3. /\ SoundStep(Plan, before) /\ SoundPlan(before)
      /\ before.current = current /\ LockPlan(before)
      /\ before.loader.owner \in {loader.owner, NoThread, current}
      /\ Survive(Plan, before)
  BY <1>1, <1>2, WokenSound, WokenLocked DEF SoundStep, LockStep, Survive
<1> DEFINE Passed(q, result, n) ==
             /\ Survive(Plan, q) \/ q.loader.owner = NoThread
             /\ q \in PlanType /\ LockPlan(q) /\ PassOver(q, result, n)
             /\ q.current = current \/ threads[q.current].state # "absent"
             /\ q.loader.owner \in {loader.owner, NoThread, current, q.current}
             /\ result = "guest" => Ready(q.threads[q.current])
<1>4. ASSUME NEW q, NEW result, NEW n, Passed(q, result, n)
      PROVE  LockInv' /\ HandsOn
  <2> DEFINE r == [q EXCEPT !.required = NoThread]
  <2>1. /\ r.threads = q.threads /\ r.current = q.current /\ r.loader = q.loader
        /\ Publish(r) /\ host' = result /\ r.required = NoThread
    BY <1>4 DEF PlanType, PassOver
  <2> HIDE DEF r
  <2>2. LockPlan(r)
    BY <1>4, <2>1 DEF LockPlan
  <2>3. threads' = q.threads /\ current' = q.current /\ loader' = q.loader
    BY <2>1 DEF Publish
  <2>4. current' = current \/ threads[current'].state # "absent"
    BY <1>4, <2>3
  <2>5. r.loader.owner \in {loader.owner, NoThread, current, current'}
    BY <1>4, <2>1, <2>3
  <2>6. host' = "guest" => Ready(r.threads[r.current])
    BY <1>4, <2>1
  <2>7. LockInv'
    BY <1>1, <2>1, <2>2, <2>4, <2>5, <2>6, PublishLocked
  <2>8. HandsOn
    BY <1>1, <1>4, <2>3 DEF HandsOn, Survive
  <2> QED BY <2>7, <2>8
<1> HIDE DEF before
<1>5. CASE PassOver(before, NothingRan(before), 0)
  <2>1. NothingRan(before) # "guest"
    BY DEF NothingRan
  <2>2. Passed(before, NothingRan(before), 0)
    BY <1>3, <1>5, <2>1 DEF SoundPlan
  <2> HIDE DEF Passed
  <2> QED BY <1>4, <2>2
<1>6. ASSUME NEW t \in Selected(before),
             Ran(Advanced(Resumed(Switched(before, t)), t), t)
      PROVE  LockInv' /\ HandsOn
  <2> DEFINE moved == Switched(before, t)
             there == Resumed(moved)
             after == Advanced(there, t)
  <2>1. /\ t \in Threads /\ Live(before.threads[t]) /\ before.threads[t].suspends = 0
        /\ MayAdvance(before, t)
    BY <1>3, SelectedEligible, SelectedMayAdvance
  <2>2. /\ SoundPlan(moved) /\ moved.current = t
        /\ moved.threads[t].suspends = 0 /\ Live(moved.threads[t])
    BY <1>3, <2>1, SwitchedSound DEF SoundStep
  <2>3. /\ LockPlan(moved) /\ Survive(before, moved) /\ moved.loader = before.loader
        /\ MayAdvance(moved, t)
    BY <1>3, <2>1, SwitchedLocked
  <2> HIDE DEF moved
  <2>4. /\ SoundPlan(there) /\ there.current = t
        /\ there.threads[t].suspends = 0 /\ Live(there.threads[t])
    BY <2>2, ResumedSound DEF SoundStep, StaysOn
  <2>5. /\ LockStep(moved, there, t) /\ Survive(moved, there) /\ MayAdvance(there, t)
    BY <2>2, <2>3, ResumedLocked
  <2>6. Ran(after, t)
    BY <1>6 DEF moved
  <2> HIDE DEF there
  <2>7. SoundPlan(after) /\ after \in PlanType /\ after.current = t
    BY <2>1, <2>4, AdvancedSound DEF SoundStep, SoundPlan, StaysOn
  <2>8. /\ LockStep(there, after, t)
        /\ Survive(there, after) \/ after.loader.owner = NoThread
        /\ Live(after.threads[t]) => Ready(after.threads[t])
    BY <2>1, <2>4, <2>5, AdvancedLocked DEF LockStep
  <2> HIDE DEF after
  <2>9. /\ LockPlan(after)
        /\ after.loader.owner \in {loader.owner, NoThread, current, t}
        /\ Survive(Plan, after) \/ after.loader.owner = NoThread
    BY <1>3, <2>3, <2>5, <2>8 DEF LockStep, Survive
  <2> DEFINE runs == Live(after.threads[t]) /\ after.threads[t].context.call = "none"
             state == IF runs THEN "running" ELSE "waiting"
             put == [after.threads[t] EXCEPT !.state = state]
             last == IF Live(after.threads[t])
                     THEN [after EXCEPT !.threads[t] = put] ELSE after
  <2>10. /\ last \in PlanType /\ LockPlan(last) /\ last.loader = after.loader
         /\ last.current = t /\ Survive(after, last)
         /\ runs => Ready(last.threads[t]) /\ Live(last.threads[t])
    <3>1. CASE ~Live(after.threads[t])
      BY <2>7, <2>9, <3>1 DEF Survive
    <3>2. CASE Live(after.threads[t])
      <4>1. after.threads[t] \in Record
        BY <2>1, <2>7 DEF PlanType
      <4>2. /\ put \in Record /\ put.state = state /\ Live(put)
            /\ put.context = after.threads[t].context
            /\ put.frames = after.threads[t].frames
            /\ put.phase = after.threads[t].phase
            /\ put.started = after.threads[t].started
            /\ put.leaving = after.threads[t].leaving
        BY <4>1 DEF Record, ThreadState, Live
      <4> HIDE DEF put, state
      <4>3. /\ last \in PlanType /\ last.loader = after.loader /\ last.current = t
            /\ last.threads[t] = put
            /\ \A u \in Threads \ {t} : last.threads[u] = after.threads[u]
        BY <2>1, <2>7, <3>2, <4>2 DEF PlanType
      <4> HIDE DEF last
      <4>4. \A u \in Threads : SameWork(after.threads[u], last.threads[u])
        BY <3>2, <4>2, <4>3 DEF SameWork
      <4>5. LockPlan(last)
        BY <2>7, <2>9, <4>3, <4>4, LockKept
      <4>6. Survive(after, last) /\ Ready(last.threads[t]) /\ Live(last.threads[t])
        BY <2>8, <3>2, <4>2, <4>3 DEF Survive, Ready
      <4> QED BY <4>3, <4>5, <4>6
    <3> QED BY <3>1, <3>2
  <2>11. \/ runs /\ PassOver(last, "guest", 0)
         \/ PassOver(last, "schedule", passes + 1)
         \/ PassOver(last, NothingRan(after), 0)
    BY <2>1, <2>6, <2>7 DEF Ran, PlanType
  <2>12. threads[last.current].state # "absent"
    BY <1>1, <1>3, <2>1, <2>10 DEF SoundStep, Live
  <2>13. /\ Survive(Plan, last) \/ last.loader.owner = NoThread
         /\ last.loader.owner \in {loader.owner, NoThread, current, last.current}
    BY <2>9, <2>10 DEF Survive
  <2> HIDE DEF last, runs
  <2>14. CASE runs /\ PassOver(last, "guest", 0)
    <3>1. Passed(last, "guest", 0)
      BY <2>10, <2>12, <2>13, <2>14
    <3> HIDE DEF Passed
    <3> QED BY <1>4, <3>1
  <2>15. CASE PassOver(last, "schedule", passes + 1)
    <3>1. Passed(last, "schedule", passes + 1)
      BY <2>10, <2>12, <2>13, <2>15
    <3> HIDE DEF Passed
    <3> QED BY <1>4, <3>1
  <2>16. CASE PassOver(last, NothingRan(after), 0)
    <3>1. NothingRan(after) # "guest"
      BY DEF NothingRan
    <3>2. Passed(last, NothingRan(after), 0)
      BY <2>10, <2>12, <2>13, <2>16, <3>1
    <3> HIDE DEF Passed
    <3> QED BY <1>4, <3>2
  <2> QED BY <2>11, <2>14, <2>15, <2>16
<1> QED BY <1>5, <1>6 DEF Pass, before, moved0

(* A step that leaves the lock and everybody's work alone preserves it.     *)
LEMMA QuietLocked ==
    ASSUME LockInv, IInv', \A u \in Threads : SameWork(threads[u], threads'[u]),
           loader' = loader, lastId' = lastId,
           current' = current \/ threads[current'].state # "absent",
           host' = "guest" /\ required' = NoThread =>
               host = "guest" /\ required = NoThread /\ current' = current
    PROVE  LockInv'
<1> DEFINE q == [threads |-> threads', current |-> current', required |-> required',
                 loader |-> loader']
<1>1. /\ Plan \in PlanType /\ LockPlan(Plan) /\ q \in PlanType
      /\ lastId \in Nat /\ current \in Threads
  <2>1. Plan \in PlanType /\ LockPlan(Plan)
    BY DEF LockInv, IInv, SoundPlan
  <2>2. q \in PlanType
    BY DEF IInv, TypeOK, PlanType
  <2>3. lastId \in Nat /\ current \in Threads
    BY NoThreadIsNone DEF LockInv, IInv, TypeOK
  <2> QED BY <2>1, <2>2, <2>3
<1>2. /\ \A u \in Threads : SameWork(Plan.threads[u], q.threads[u])
      /\ q.loader = Plan.loader
  BY DEF Plan
<1>3. LockPlan(q)
  BY <1>1, <1>2, LockKept
<1>4. Publish(q)
  BY DEF Publish
<1>5. host' = "guest" /\ q.required = NoThread => Ready(q.threads[q.current])
  <2> SUFFICES ASSUME host' = "guest", required' = NoThread
               PROVE  Ready(threads'[current'])
    OBVIOUS
  <2>1. Live(threads'[current'])
    BY DEF IInv, GuestRuns, Live
  <2>2. Ready(threads[current]) /\ current' = current
    BY DEF LockInv, GuestReady
  <2> QED BY <1>1, <2>1, <2>2, SameWorkFacts
<1>6. q.loader.owner \in {loader.owner, NoThread, current, current'}
  OBVIOUS
<1>7. lastId' >= lastId
  BY <1>1
<1> HIDE DEF q
<1> QED BY <1>3, <1>4, <1>5, <1>6, <1>7, PublishLocked

(* Writing one record with the same work leaves everybody's work alone.     *)
LEMMA SameWorkWrite ==
    ASSUME IInv, NEW t \in Threads, NEW r, SameWork(threads[t], r),
           threads' = [threads EXCEPT ![t] = r]
    PROVE  \A u \in Threads : SameWork(threads[u], threads'[u])
BY RecordFacts DEF SameWork

(* An answer to a blocked call opens nothing under the lock.                *)
LEMMA AnswerLocked ==
    ASSUME LockInv, IInv', NEW t \in Threads, Answer(t)
    PROVE  LockInv'
<1> DEFINE r == [threads[t] EXCEPT !.context.call = "answered"]
<1>1. IInv /\ threads[t] \in Record /\ threads[t].context \in Context
  BY RecordFacts DEF Record, LockInv
<1>2. SameWork(threads[t], r)
  BY <1>1 DEF SameWork, Live, Record, Context
<1>3. threads' = [threads EXCEPT ![t] = r] /\ current' = current
      /\ required' = required /\ loader' = loader /\ lastId' = lastId /\ host' = host
  BY DEF Answer
<1> HIDE DEF r
<1> QED BY <1>1, <1>2, <1>3, SameWorkWrite, QuietLocked

(* Suspending a thread opens nothing under the lock.                        *)
LEMMA SuspendThreadLocked ==
    ASSUME LockInv, IInv', NEW t \in Threads, SuspendThread(t)
    PROVE  LockInv'
<1> DEFINE r == [threads[t] EXCEPT !.suspends = @ + 1, !.state = "suspended"]
           n == IF t = current THEN t ELSE required
<1>1. IInv /\ threads[t] \in Record /\ Live(threads[t])
  BY RecordFacts DEF LockInv, SuspendThread
<1>2. SameWork(threads[t], r)
  <2> DEFINE k == threads[t].suspends + 1
  <2>1. r = [threads[t] EXCEPT !.suspends = k, !.state = "suspended"]
    BY <1>1 DEF Record
  <2> HIDE DEF k
  <2> QED BY <1>1, <2>1 DEF SameWork, Record
<1>3. Complete([Plan EXCEPT !.threads[t] = r, !.required = n])
  BY DEF SuspendThread
<1> HIDE DEF r, n
<1>4. threads' = [threads EXCEPT ![t] = r] /\ current' = current /\ required' = n
      /\ loader' = loader /\ lastId' = lastId /\ host' = host
  BY <1>3, CompleteWrite
<1>5. host = "guest" /\ required = NoThread
  BY DEF SuspendThread, Call
<1> QED BY <1>1, <1>2, <1>4, <1>5, SameWorkWrite, QuietLocked

(* What publishing a plan with one new record means for the variables.      *)
LEMMA CompleteRecord ==
    ASSUME NEW t \in Threads, NEW r, Complete([Plan EXCEPT !.threads[t] = r])
    PROVE  /\ threads' = [threads EXCEPT ![t] = r] /\ current' = current
           /\ required' = required /\ loader' = loader /\ lastId' = lastId
           /\ host' = host
BY DEF Complete, Publish, Plan

(* Resuming a thread opens nothing under the lock.                          *)
LEMMA ResumeThreadLocked ==
    ASSUME LockInv, IInv', NEW t \in Threads, ResumeThread(t)
    PROVE  LockInv'
<1>1. IInv /\ threads[t] \in Record /\ Live(threads[t])
  BY RecordFacts DEF LockInv, ResumeThread
<1>2. PICK left, state : Complete([Plan EXCEPT !.threads[t] =
         [threads[t] EXCEPT !.suspends = left, !.state = state]])
  BY DEF ResumeThread
<1> DEFINE r == [threads[t] EXCEPT !.suspends = left, !.state = state]
<1>3. SameWork(threads[t], r)
  BY <1>1 DEF SameWork, Record
<1>4. Complete([Plan EXCEPT !.threads[t] = r])
  BY <1>2
<1> HIDE DEF r
<1>5. /\ threads' = [threads EXCEPT ![t] = r] /\ current' = current
      /\ required' = required /\ loader' = loader /\ lastId' = lastId /\ host' = host
  BY <1>4, CompleteRecord
<1> QED BY <1>1, <1>3, <1>5, SameWorkWrite, QuietLocked

(* A new priority opens nothing under the lock.                             *)
LEMMA SetThreadPriorityLocked ==
    ASSUME LockInv, IInv', NEW t \in Threads, NEW priority \in Priorities,
           SetThreadPriority(t, priority)
    PROVE  LockInv'
<1> DEFINE r == [threads[t] EXCEPT !.priority = priority]
<1>1. IInv /\ threads[t] \in Record /\ Live(threads[t])
  BY RecordFacts DEF LockInv, SetThreadPriority
<1>2. SameWork(threads[t], r)
  BY <1>1 DEF SameWork, Record
<1>3. Complete([Plan EXCEPT !.threads[t] = r])
  BY DEF SetThreadPriority, Plan
<1> HIDE DEF r
<1>4. /\ threads' = [threads EXCEPT ![t] = r] /\ current' = current
      /\ required' = required /\ loader' = loader /\ lastId' = lastId /\ host' = host
  BY <1>3, CompleteRecord
<1> QED BY <1>1, <1>2, <1>4, SameWorkWrite, QuietLocked

(* A terminated thread may leave the lock behind: what is live stays exact. *)
LEMMA TerminateThreadLocked ==
    ASSUME LockInv, IInv', NEW t \in Threads, TerminateThread(t)
    PROVE  LockInv'
<1>1. /\ host = "guest" /\ required = NoThread /\ SoundPlan(Plan)
      /\ Live(Plan.threads[t]) /\ Plan.threads = threads /\ Plan.current = current
      /\ lastId' = lastId /\ Plan.loader = loader /\ t # NoThread
      /\ Plan \in PlanType /\ t \in Threads
  BY NoThreadIsNone DEF TerminateThread, Call, LockInv, IInv, SoundPlan, Plan
<1> DEFINE R == Retired(Plan)
           T == Terminated(Plan, t)
<1>2. /\ \A u \in Threads : ~Live(R.threads[u])
      /\ R.loader = loader /\ R.current = current
  BY <1>1, RetiredSound DEF Retired, PlanType
<1>3. /\ \A u \in Threads : SameWork(threads[u], T.threads[u])
      /\ T.loader = loader /\ T.current = current
  <2>1. ~Live(T.threads[t]) /\ \A u \in Threads \ {t} : T.threads[u] = threads[u]
    BY <1>1, TerminatedSound
  <2>2. T.loader = loader /\ T.current = current
    BY <1>1 DEF Terminated, PlanType
  <2> HIDE DEF T
  <2> QED BY <2>1, <2>2 DEF SameWork
<1>4. \/ Publish(R) /\ host' = "exited"
      \/ Publish([T EXCEPT !.required = t]) /\ host' = "schedule"
      \/ Publish(T) /\ host' = host
  BY DEF TerminateThread
<1>5. T \in PlanType
  BY <1>1, TerminatedSound DEF SoundStep, SoundPlan
<1> HIDE DEF R, T
<1>6. CASE Publish(R) /\ host' = "exited"
  <2>1. \A u \in Threads : SameWork(threads[u], threads'[u])
    BY <1>2, <1>6 DEF Publish, SameWork
  <2>2. current' = current /\ loader' = loader
    BY <1>2, <1>6 DEF Publish
  <2> QED BY <1>1, <1>6, <2>1, <2>2, QuietLocked
<1>7. CASE Publish([T EXCEPT !.required = t]) /\ host' = "schedule"
  <2>1. threads' = T.threads /\ current' = current /\ loader' = loader
    BY <1>3, <1>5, <1>7 DEF Publish, PlanType
  <2> QED BY <1>1, <1>3, <1>7, <2>1, QuietLocked
<1>8. CASE Publish(T) /\ host' = host
  <2>1. threads' = T.threads /\ current' = current /\ loader' = loader
    BY <1>3, <1>8 DEF Publish
  <2> QED BY <1>1, <1>3, <1>8, <2>1, QuietLocked
<1> QED BY <1>4, <1>6, <1>7, <1>8

(* SwitchToThread goes to a live thread and opens nothing.                  *)
LEMMA SwitchToThreadLocked ==
    ASSUME LockInv, IInv', SwitchToThread
    PROVE  LockInv'
<1>1. /\ SoundPlan(Plan) /\ LockPlan(Plan) /\ Plan.threads = threads
      /\ Plan.loader = loader /\ lastId' = lastId
  BY DEF SwitchToThread, Complete, LockInv, IInv, Plan
<1>2. PICK t \in {u \in Threads \ {current} : Eligible(Plan, u)} :
        Publish([Switched(Plan, t) EXCEPT !.required = t])
  BY DEF SwitchToThread, NextThread, Complete
<1>3. /\ t \in Threads /\ t # NoThread /\ Live(Plan.threads[t])
      /\ Plan.threads[t].suspends = 0
  BY <1>2, NoThreadIsNone DEF Eligible, Live
<1> DEFINE moved == Switched(Plan, t)
<1>4. /\ moved \in PlanType /\ moved.current = t /\ moved.loader = loader
      /\ \A u \in Threads : SameWork(threads[u], moved.threads[u])
  BY <1>1, <1>3, SwitchedSound, SwitchedLocked DEF SoundStep, SoundPlan
<1>5. Publish([moved EXCEPT !.required = t])
  BY <1>2
<1> HIDE DEF moved
<1>6. /\ threads' = moved.threads /\ current' = t /\ loader' = loader
      /\ required' = t
  BY <1>4, <1>5 DEF Publish, PlanType
<1> QED BY <1>1, <1>3, <1>4, <1>6, QuietLocked DEF Live

(* A call that blocks opens nothing under the lock.                         *)
LEMMA BlockLocked ==
    ASSUME LockInv, IInv', Block
    PROVE  LockInv'
<1> DEFINE r == [threads[current] EXCEPT !.context.call = "blocked"]
<1>1. /\ IInv /\ host = "guest" /\ required = NoThread /\ current \in Threads
      /\ threads[current] \in Record /\ threads[current].context \in Context
  BY GuestFacts DEF Record, LockInv, Block, Call
<1>2. SameWork(threads[current], r)
  BY <1>1 DEF SameWork, Live, Record, Context
<1>3. threads' = [threads EXCEPT ![current] = r] /\ current' = current
      /\ loader' = loader /\ lastId' = lastId /\ host' = "schedule"
  BY DEF Block
<1> HIDE DEF r
<1> QED BY <1>1, <1>2, <1>3, SameWorkWrite, QuietLocked

(* A new thread has nothing open, and its id is not that of the holder.     *)
LEMMA CreateThreadLocked ==
    ASSUME LockInv, IInv', NEW suspended \in BOOLEAN, CreateThread(suspended)
    PROVE  LockInv'
<1> DEFINE id == lastId + 1
           record == [Absent EXCEPT !.state = IF suspended THEN "suspended" ELSE "runnable",
                                    !.suspends = IF suspended THEN 1 ELSE 0,
                                    !.parked = TRUE]
           dead == {t \in Threads : threads[t].state = "terminated"} \ {current}
           q == [threads |-> threads', current |-> current', required |-> required',
                 loader |-> loader']
<1>1. PICK kept \in SUBSET dead :
        LET here == {t \in Threads : Live(threads[t])} \cup {current} \cup kept IN
        threads' = [t \in Threads |->
            IF t = id THEN record ELSE IF t \in here THEN threads[t] ELSE Absent]
  BY DEF CreateThread
<1>2. /\ id \in Threads /\ lastId' = id /\ host = "guest" /\ required = NoThread
      /\ current' = current /\ required' = required /\ loader' = loader /\ host' = host
  BY DEF CreateThread, Call
<1>3. record.context = Empty /\ record.frames = <<>> /\ record.phase = NoPhase
      /\ record.started = FALSE
  BY DEF Absent
<1>4. ~Live(Absent)
  BY DEF Absent, Live
<1> HIDE DEF record
<1>5. /\ \A u \in Threads \ {id} : SameWork(threads[u], threads'[u])
      /\ threads'[id] = record
  BY <1>1, <1>2, <1>4 DEF SameWork
<1>6. Orderly(record) /\ Held(record) = 0
  BY <1>3 DEF Orderly, Held, Ready, Idle, Empty, NoPhase
<1>7. lastId \in Nat /\ loader.owner \in Nat /\ loader.owner <= lastId /\ loader.owner # id
  <2>1. lastId \in Nat /\ loader.owner \in Threads \cup {NoThread}
    BY NoThreadIsNone DEF LockInv, IInv, TypeOK
  <2>2. loader.owner \in Nat
    BY <2>1, NoThreadIsNone DEF NoThread
  <2> QED BY <2>1, <2>2 DEF LockInv, HoldersIssued
<1>8. /\ Plan \in PlanType /\ LockPlan(Plan) /\ q \in PlanType
  <2>1. Plan \in PlanType /\ LockPlan(Plan)
    BY DEF LockInv, IInv, SoundPlan
  <2>2. q \in PlanType
    BY DEF IInv, TypeOK, PlanType
  <2> QED BY <2>1, <2>2
<1>9. /\ q.loader = Plan.loader /\ q.threads[id] = record
      /\ \A u \in Threads \ {id} : SameWork(Plan.threads[u], q.threads[u])
      /\ Share(q.loader, id) = 0
  BY <1>2, <1>5, <1>7 DEF Plan, Share
<1>10. Publish(q) /\ q.threads = threads' /\ q.current = current /\ q.loader = loader
       /\ q.required = required
  BY <1>2 DEF Publish
<1> HIDE DEF q
<1>11. LockPlan(q)
  <2>1. q.loader.depth >= 0 /\ (q.loader.owner = NoThread <=> q.loader.depth = 0)
    BY <1>8, <1>9 DEF LockPlan
  <2> QED BY <1>2, <1>6, <1>8, <1>9, <2>1, LockWrite
<1>12. Ready(threads'[current])
  <2>1. current \in Threads /\ threads[current].state = "running" /\ IInv
    BY <1>2, GuestFacts DEF LockInv
  <2>2. id > lastId
    BY <1>7
  <2>3. current # id
    BY <1>2, <2>1, <2>2 DEF IInv, IssuedIds
  <2>4. threads'[current] = threads[current]
    BY <1>1, <2>1, <2>3
  <2> QED BY <1>2, <2>4 DEF LockInv, GuestReady
<1>13. lastId' >= lastId
  BY <1>2, <1>7
<1> QED BY <1>2, <1>10, <1>11, <1>12, <1>13, PublishLocked

(* LoadLibrary counts the load it opens, or waits for the lock idle.        *)
LEMMA LoadLibraryLocked ==
    ASSUME LockInv, IInv', LoadLibrary
    PROVE  LockInv'
<1> DEFINE old == threads[current]
<1>1. /\ IInv /\ host = "guest" /\ required = NoThread /\ current \in Threads
      /\ old \in Record /\ old.context \in Context /\ Live(old)
      /\ old.context.call = "none" /\ old.context.loads \in Nat
      /\ old.suspends = 0 /\ old.parked = FALSE
  BY GuestFacts DEF Record, LockInv, LoadLibrary, Call, Context
<1>2. /\ Ready(old) /\ Orderly(old) /\ Plan \in PlanType /\ LockPlan(Plan)
      /\ Held(old) = Share(loader, current) /\ SoundPlan(Plan)
      /\ Plan.threads = threads /\ Plan.loader = loader /\ Plan.current = current
      /\ lastId \in Nat
  <2>1. Plan.threads = threads /\ Plan.loader = loader /\ Plan.current = current
    BY DEF Plan
  <2>2. SoundPlan(Plan) /\ LockPlan(Plan) /\ Ready(old) /\ lastId \in Nat
    BY <1>1, NoThreadIsNone DEF LockInv, IInv, GuestReady, TypeOK
  <2> QED BY <1>1, <2>1, <2>2 DEF SoundPlan, LockPlan
<1>3. CASE LoaderOpen(loader, current)
  <2> DEFINE n == old.context.loads + 1
             r == [old EXCEPT !.context.loads = n]
             q == [Plan EXCEPT !.threads[current] = r]
             a == AcquireLoader(q, current)
  <2>1. Complete(a)
    BY <1>2, <1>3 DEF LoadLibrary, Plan
  <2>2. n \in Nat /\ n = old.context.loads + 1
    BY <1>1
  <2> HIDE DEF n
  <2>3. /\ r \in Record /\ r.state = old.state /\ r.suspends = old.suspends
        /\ r.parked = old.parked /\ r.context.call = "none" /\ r.context.loads = n
        /\ r.frames = old.frames /\ r.phase = old.phase /\ r.started = old.started
        /\ r.leaving = old.leaving
    BY <1>1, <2>2 DEF Record, Context
  <2> HIDE DEF r
  <2>4. Ready(r) /\ Orderly(r) /\ Held(r) = Held(old) + 1
    BY <1>1, <1>2, <2>2, <2>3 DEF Ready, Orderly, Held
  <2>5. SoundPlan(q) /\ q.threads[current] = r /\ q.current = current
    BY <1>1, <1>2, <2>3, PutDetail DEF SoundStep, StaysOn
  <2>6. LockPlan(a) /\ a.loader.owner = current
    BY <1>1, <1>2, <1>3, <2>3, <2>4, <2>5, LockAcquired
  <2>7. a.threads = q.threads /\ a.current = current
    BY <1>1, <2>5, AcquireSound
  <2> HIDE DEF a, q
  <2>8. /\ Publish(a) /\ lastId' = lastId /\ current' = current
        /\ Ready(a.threads[a.current])
    BY <2>1, <2>4, <2>5, <2>7 DEF Complete, Publish
  <2>9. lastId' >= lastId
    BY <1>2, <2>8
  <2> QED BY <2>6, <2>8, <2>9, PublishLocked
<1>4. CASE ~LoaderOpen(loader, current)
  <2> DEFINE r == [old EXCEPT !.context.call = "loader"]
             q == [Plan EXCEPT !.threads[current] = r]
  <2>1. /\ threads' = [threads EXCEPT ![current] = r] /\ host' = "schedule"
        /\ current' = current /\ required' = required /\ loader' = loader
        /\ lastId' = lastId
    BY <1>4 DEF LoadLibrary
  <2>2. /\ r.state = old.state /\ r.context.loads = old.context.loads
        /\ r.frames = old.frames /\ r.phase = old.phase /\ r.started = old.started
        /\ r.leaving = old.leaving /\ r \in Record
    BY <1>1 DEF Record, Context, CallStates
  <2> HIDE DEF r
  <2>3. Ready(r) /\ Orderly(r) /\ Held(r) = Held(old)
    BY <1>2, <2>2 DEF Ready, Orderly, Held
  <2>4. /\ q \in PlanType /\ q.threads[current] = r /\ q.loader = loader
        /\ \A u \in Threads \ {current} : q.threads[u] = threads[u]
        /\ Publish(q)
    <3>1. /\ q \in PlanType /\ q.threads = threads' /\ q.loader = loader
          /\ q.current = current /\ q.required = required
      BY <1>1, <1>2, <2>1, <2>2 DEF PlanType, Plan
    <3>2. Publish(q)
      BY <2>1, <3>1 DEF Publish
    <3>3. /\ threads'[current] = r
          /\ \A u \in Threads \ {current} : threads'[u] = threads[u]
      BY <1>1, <2>1, RecordFacts
    <3> HIDE DEF q
    <3> QED BY <3>1, <3>2, <3>3
  <2> HIDE DEF q
  <2>5. LockPlan(q)
    <3>1. Held(q.threads[current]) = Share(q.loader, current) /\ Orderly(q.threads[current])
      BY <1>2, <2>3, <2>4
    <3>2. \A u \in Threads \ {current} : SameWork(Plan.threads[u], q.threads[u])
      BY <1>2, <2>4 DEF SameWork
    <3>3. q.loader.depth >= 0 /\ (q.loader.owner = NoThread <=> q.loader.depth = 0)
          /\ q.loader = Plan.loader
      BY <1>2, <2>4 DEF LockPlan
    <3> QED BY <1>1, <1>2, <2>4, <3>1, <3>2, <3>3, LockWrite
  <2>6. lastId' >= lastId
    BY <1>2, <2>1
  <2> QED BY <2>1, <2>4, <2>5, <2>6, PublishLocked
<1> QED BY <1>3, <1>4

(* The end of a load releases what it had open.                             *)
LEMMA FinishLoadLocked ==
    ASSUME LockInv, IInv', FinishLoad
    PROVE  LockInv'
<1> DEFINE old == threads[current]
           n == old.context.loads - 1
           r == [old EXCEPT !.context.loads = n]
           q == [Plan EXCEPT !.threads[current] = r]
           a == ReleaseLoader(q)
<1>1. /\ IInv /\ host = "guest" /\ required = NoThread /\ current \in Threads
      /\ old \in Record /\ old.context \in Context /\ Live(old)
      /\ old.context.call = "none" /\ old.context.loads \in Nat
      /\ old.context.loads > 0 /\ old.suspends = 0 /\ old.parked = FALSE
  BY GuestFacts DEF Record, LockInv, FinishLoad, Call, Context
<1>2. /\ Ready(old) /\ Orderly(old) /\ LockPlan(Plan) /\ SoundPlan(Plan)
      /\ Plan.threads = threads /\ Plan.loader = loader /\ Plan.current = current
      /\ lastId \in Nat
  <2>1. Plan.threads = threads /\ Plan.loader = loader /\ Plan.current = current
    BY DEF Plan
  <2>2. SoundPlan(Plan) /\ LockPlan(Plan) /\ Ready(old) /\ lastId \in Nat
    BY <1>1, NoThreadIsNone DEF LockInv, IInv, GuestReady, TypeOK
  <2> QED BY <1>1, <2>1, <2>2 DEF LockPlan
<1>3. Complete(a)
  BY <1>2 DEF FinishLoad, Plan
<1>4. n \in Nat /\ n = old.context.loads - 1
  BY <1>1
<1> HIDE DEF n
<1>5. /\ r \in Record /\ r.state = old.state /\ r.suspends = old.suspends
      /\ r.parked = old.parked /\ r.context.call = "none" /\ r.context.loads = n
      /\ r.frames = old.frames /\ r.phase = old.phase /\ r.started = old.started
      /\ r.leaving = old.leaving
  BY <1>1, <1>4 DEF Record, Context
<1> HIDE DEF r
<1>6. Ready(r) /\ Orderly(r) /\ Held(r) = Held(old) - 1 /\ Held(old) > 0
  BY <1>1, <1>2, <1>4, <1>5 DEF Ready, Orderly, Held
<1>7. /\ SoundPlan(q) /\ q.threads[current] = r /\ q.current = current
      /\ q.loader = loader
      /\ \A u \in Threads \ {current} : q.threads[u] = threads[u]
  <2>1. SoundPlan(q) /\ q.threads[current] = r /\ q.current = current
    BY <1>1, <1>2, <1>5, PutDetail DEF SoundStep, StaysOn
  <2> QED BY <1>2, <2>1 DEF SoundPlan, PlanType
<1>8. \A u \in Threads \ {current} : SameWork(Plan.threads[u], q.threads[u])
  BY <1>2, <1>7 DEF SameWork
<1> HIDE DEF q
<1>9. LockPlan(a) /\ a.loader.owner \in {NoThread, current}
  BY <1>1, <1>2, <1>6, <1>7, <1>8, LockReleased
<1>10. a.threads = q.threads /\ a.current = current
  BY <1>7, ReleaseSound
<1> HIDE DEF a
<1>11. /\ Publish(a) /\ lastId' = lastId /\ current' = current
       /\ Ready(a.threads[a.current])
  BY <1>3, <1>6, <1>7, <1>10 DEF Complete, Publish
<1>12. lastId' >= lastId
  BY <1>2, <1>11
<1> QED BY <1>9, <1>11, <1>12, PublishLocked

(* A callback returns to an idle context, and its phase goes on.            *)
LEMMA ReturnCallbackLocked ==
    ASSUME LockInv, IInv', ReturnCallback
    PROVE  LockInv'
<1> DEFINE old == threads[current]
           frames == old.frames
           under == frames[Len(frames)]
           below == SubSeq(frames, 1, Len(frames) - 1)
           phase == [old.phase EXCEPT !.calls = @ - 1, !.active = FALSE]
           state == IF under.call = "none" THEN "running" ELSE "waiting"
           r == [old EXCEPT !.context = under, !.frames = below,
                            !.state = state, !.phase = phase]
           q == [threads |-> threads', current |-> current', required |-> required',
                 loader |-> loader']
<1>1. /\ host = "guest" /\ required = NoThread /\ frames # <<>>
      /\ old.context.loads = 0 /\ threads' = [threads EXCEPT ![current] = r]
      /\ current' = current /\ required' = required /\ loader' = loader
      /\ lastId' = lastId /\ host' = "schedule"
  BY DEF ReturnCallback
<1>2. /\ IInv /\ current \in Threads /\ old \in Record /\ Live(old)
      /\ frames \in Seq(Context) /\ old.phase \in Lifecycle
      /\ threads \in [Threads -> Record]
  BY <1>1, GuestFacts, RecordFacts DEF Record, LockInv
<1>3. /\ Orderly(old) /\ Held(old) = Share(loader, current) /\ Ready(old)
      /\ Plan \in PlanType /\ LockPlan(Plan) /\ q \in PlanType
      /\ Plan.threads = threads /\ Plan.loader = loader /\ lastId \in Nat
  <2>1. Plan \in PlanType /\ LockPlan(Plan)
    BY DEF LockInv, IInv, SoundPlan
  <2>2. Plan.threads = threads /\ Plan.loader = loader
    BY DEF Plan
  <2>3. q \in PlanType
    BY DEF IInv, TypeOK, PlanType
  <2>4. Ready(old) /\ lastId \in Nat
    BY <1>1, NoThreadIsNone DEF LockInv, IInv, GuestReady, TypeOK
  <2> QED BY <1>2, <2>1, <2>2, <2>3, <2>4 DEF LockPlan
<1>4. old.phase.active /\ old.phase.reason # "none"
  BY <1>1, <1>3 DEF Ready, Orderly, NoPhase
<1>5. /\ Idle(under) /\ \A i \in DOMAIN below : Idle(below[i])
      /\ Len(below) = Len(frames) - 1
  <2> HIDE DEF frames
  <2>1. \A i \in DOMAIN frames : Idle(frames[i])
    BY <1>3 DEF Orderly, frames
  <2>2. /\ Len(frames) \in Nat /\ Len(frames) > 0 /\ DOMAIN frames = 1 .. Len(frames)
    BY <1>1, <1>2, EmptySeq
  <2>3. /\ Len(below) = Len(frames) - 1 /\ DOMAIN below = 1 .. Len(frames) - 1
        /\ \A i \in 1 .. Len(frames) - 1 : below[i] = frames[i]
    BY <1>2, <2>2
  <2> QED BY <2>1, <2>2, <2>3
<1>6. /\ phase.reason = old.phase.reason /\ ~phase.active
      /\ phase.prepared = old.phase.prepared
  BY <1>2 DEF Lifecycle
<1> HIDE DEF under, below, phase, state, frames
<1>7. /\ r.context = under /\ r.frames = below /\ r.phase = phase
      /\ r.started = old.started /\ r.leaving = old.leaving
  BY <1>2 DEF Record
<1> HIDE DEF r
<1>8. Orderly(r)
  <2>1. Len(frames) = 1 => Len(below) = 0
    BY <1>5
  <2>2. old.phase.reason = "attach" => Len(frames) = 1
    BY <1>3, <1>4 DEF Orderly, frames
  <2>3. old.phase.reason # "none" /\ ~old.phase.prepared => old.leaving
    BY <1>3 DEF Orderly
  <2> QED BY <1>4, <1>5, <1>6, <1>7, <2>1, <2>2, <2>3 DEF Orderly
<1>9. Held(r) = Held(old)
  BY <1>1, <1>4, <1>5, <1>6, <1>7 DEF Held, Idle
<1>10. /\ q.threads[current] = r /\ q.loader = loader
       /\ \A u \in Threads \ {current} : q.threads[u] = threads[u]
  BY <1>1, <1>2
<1>11. Publish(q)
  BY DEF Publish
<1> HIDE DEF q
<1>12. LockPlan(q)
  <2>1. Held(q.threads[current]) = Share(q.loader, current) /\ Orderly(q.threads[current])
    BY <1>3, <1>8, <1>9, <1>10
  <2>2. \A u \in Threads \ {current} : SameWork(Plan.threads[u], q.threads[u])
    BY <1>3, <1>10 DEF SameWork
  <2>3. /\ q.loader = Plan.loader /\ q.loader.depth >= 0
        /\ q.loader.owner = NoThread <=> q.loader.depth = 0
    BY <1>3, <1>10 DEF LockPlan
  <2> QED BY <1>2, <1>3, <2>1, <2>2, <2>3, LockWrite
<1>13. lastId' >= lastId
  BY <1>1, <1>3
<1> QED BY <1>1, <1>10, <1>11, <1>12, <1>13, PublishLocked

(* A thread that exits waits for the lock, runs a callback under it, or is  *)
(* gone and has handed the lock on.                                         *)
LEMMA ExitThreadLocked ==
    ASSUME LockInv, IInv', ExitThread
    PROVE  LockInv' /\ HandsOn
<1> DEFINE old == threads[current]
           phase == IF old.phase.reason # "attach" THEN old.phase
                    ELSE [reason |-> "detach", calls |-> 0, active |-> FALSE,
                          prepared |-> FALSE]
           r == [old EXCEPT !.leaving = TRUE, !.context.call = "exit", !.phase = phase]
           asked == [Plan EXCEPT !.threads[current] = r]
           stopped == [asked EXCEPT !.threads[current].state = "waiting"]
           exited == Advanced(asked, current)
<1>1. /\ host = "guest" /\ required = NoThread /\ lastId' = lastId
      /\ old.context.loads = 0
  BY DEF ExitThread, Call
<1>2. /\ IInv /\ current \in Threads /\ old \in Record /\ Live(old)
      /\ old.suspends = 0 /\ old.parked = FALSE /\ old.state = "running"
      /\ old.context \in Context /\ old.phase \in Lifecycle
      /\ old.frames \in Seq(Context)
  BY <1>1, GuestFacts DEF Record, LockInv
<1>3. /\ Orderly(old) /\ SoundPlan(Plan) /\ LockPlan(Plan) /\ Plan \in PlanType
      /\ Plan.threads = threads /\ Plan.loader = loader /\ Plan.current = current
      /\ lastId \in Nat
  <2>1. SoundPlan(Plan) /\ LockPlan(Plan) /\ lastId \in Nat
    BY NoThreadIsNone DEF LockInv, IInv, TypeOK
  <2>2. Plan.threads = threads /\ Plan.loader = loader /\ Plan.current = current
    BY DEF Plan
  <2> QED BY <1>2, <2>1, <2>2 DEF LockPlan, SoundPlan
<1>4. /\ ~LoaderOpen(loader, current) =>
            /\ Publish([stopped EXCEPT !.required = current]) /\ host' = "schedule"
      /\ LoaderOpen(loader, current) =>
            \/ Publish(exited) /\ host' = "exited"
            \/ /\ Live(exited.threads[current])
               /\ Publish(exited) /\ host' = host
            \/ Publish([exited EXCEPT !.required = current]) /\ host' = "schedule"
  BY DEF ExitThread
<1>5. /\ phase \in Lifecycle
      /\ phase.reason = "none" <=> old.phase.reason = "none"
      /\ phase.reason # "attach"
      /\ phase = old.phase \/ (~phase.active /\ phase.reason = "detach")
  BY <1>2 DEF Lifecycle
<1> HIDE DEF phase
<1>6. /\ r \in Record /\ r.state = "running" /\ r.suspends = 0 /\ r.parked = FALSE
      /\ r.leaving = TRUE /\ r.context.call = "exit" /\ r.context.loads = 0
      /\ r.phase = phase /\ r.frames = old.frames /\ r.started = old.started
  <2> DEFINE context == [old.context EXCEPT !.call = "exit"]
  <2>1. context \in Context /\ context.call = "exit" /\ context.loads = 0
    BY <1>1, <1>2 DEF Context, CallStates
  <2>2. r = [old EXCEPT !.leaving = TRUE, !.context = context, !.phase = phase]
    BY <1>2 DEF Record
  <2> HIDE DEF context, r
  <2> QED BY <1>2, <1>5, <2>1, <2>2 DEF Record
<1> HIDE DEF r
<1>7. /\ SoundPlan(asked) /\ asked.current = current /\ asked.loader = loader
      /\ asked.threads[current] = r /\ asked \in PlanType
      /\ \A u \in Threads \ {current} : asked.threads[u] = threads[u]
  <2>1. /\ r.state = Plan.threads[current].state
        /\ r.suspends = Plan.threads[current].suspends
        /\ r.parked = Plan.threads[current].parked
    BY <1>2, <1>3, <1>6
  <2>2. SoundPlan(asked) /\ asked.current = current
    BY <1>2, <1>3, <1>6, <2>1, PutDetail DEF StaysOn, SoundStep
  <2>3. /\ asked.threads[current] = r /\ asked.loader = loader
        /\ \A u \in Threads \ {current} : asked.threads[u] = threads[u]
    BY <1>2, <1>3 DEF PlanType
  <2> QED BY <2>2, <2>3 DEF SoundPlan
<1> HIDE DEF asked
<1>8. Orderly(r) /\ Held(r) = Held(old)
  <2>1. Idle(r.context)
    BY <1>6 DEF Idle
  <2>2. Held(r) = Held(old)
    BY <1>1, <1>5, <1>6 DEF Held
  <2>3. \A i \in DOMAIN r.frames : Idle(r.frames[i])
    BY <1>3, <1>6 DEF Orderly
  <2>4. /\ phase.active => r.frames # <<>>
        /\ phase.reason = "none" => phase = NoPhase /\ r.frames = <<>>
    BY <1>3, <1>5, <1>6 DEF Orderly
  <2> QED BY <1>5, <1>6, <2>1, <2>2, <2>3, <2>4 DEF Orderly
<1>9. LockPlan(asked) /\ \A u \in Threads : Live(threads[u]) => Live(asked.threads[u])
  <2>1. Held(r) = Share(asked.loader, current)
    BY <1>2, <1>3, <1>7, <1>8 DEF LockPlan
  <2>2. \A u \in Threads \ {current} : SameWork(Plan.threads[u], asked.threads[u])
    BY <1>3, <1>7 DEF SameWork
  <2>3. /\ asked.loader = Plan.loader /\ asked.loader.depth >= 0
        /\ asked.loader.owner = NoThread <=> asked.loader.depth = 0
    BY <1>3, <1>7 DEF LockPlan
  <2>4. LockPlan(asked)
    BY <1>2, <1>3, <1>7, <1>8, <2>1, <2>2, <2>3, LockWrite
  <2> QED BY <1>6, <1>7, <2>4 DEF Live
<1>10. lastId' >= lastId
  BY <1>1, <1>3
<1>11. CASE ~LoaderOpen(loader, current)
  <2> DEFINE w == [r EXCEPT !.state = "waiting"]
             q == [stopped EXCEPT !.required = current]
  <2>1. /\ w.context = r.context /\ w.frames = r.frames /\ w.phase = r.phase
        /\ w.started = r.started /\ w.leaving = r.leaving /\ Live(w) /\ w \in Record
    BY <1>6 DEF Record, Live, ThreadState
  <2>2. /\ stopped.threads[current] = w /\ stopped.loader = loader
        /\ stopped.current = current /\ stopped \in PlanType
        /\ \A u \in Threads \ {current} : stopped.threads[u] = asked.threads[u]
    BY <1>2, <1>7, <2>1 DEF PlanType
  <2> HIDE DEF stopped, w
  <2>3. /\ q.threads = stopped.threads /\ q.loader = loader /\ q.current = current
        /\ q \in PlanType
    BY <1>2, <2>2 DEF PlanType
  <2>4. Publish(q) /\ host' = "schedule"
    BY <1>4, <1>11
  <2> HIDE DEF q
  <2>5. ASSUME NEW u \in Threads
        PROVE  /\ SameWork(asked.threads[u], q.threads[u])
               /\ Live(asked.threads[u]) => Live(q.threads[u])
    <3>1. CASE u = current
      BY <1>6, <1>7, <2>1, <2>2, <2>3, <3>1 DEF SameWork, Live
    <3>2. CASE u # current
      BY <2>2, <2>3, <3>2 DEF SameWork
    <3> QED BY <3>1, <3>2
  <2>6. LockPlan(q)
    BY <1>7, <1>9, <2>3, <2>5, LockKept
  <2>7. current' = current
    BY <2>3, <2>4 DEF Publish
  <2>8. LockInv'
    BY <1>10, <2>3, <2>4, <2>6, <2>7, PublishLocked
  <2>9. HandsOn
    BY <1>9, <2>4, <2>5 DEF HandsOn, Publish
  <2> QED BY <2>8, <2>9
<1>12. CASE LoaderOpen(loader, current)
  <2>1. MayAdvance(asked, current) /\ Live(asked.threads[current])
        /\ asked.threads[current].suspends = 0
    BY <1>6, <1>7, <1>12 DEF MayAdvance, Live
  <2>2. /\ LockStep(asked, exited, current)
        /\ Survive(asked, exited) \/ exited.loader.owner = NoThread
        /\ Live(exited.threads[current]) => Ready(exited.threads[current])
    BY <1>2, <1>7, <1>9, <2>1, AdvancedLocked
  <2>3. exited \in PlanType /\ exited.current = current
    BY <1>2, <1>7, <2>1, AdvancedSound DEF SoundStep, SoundPlan, StaysOn
  <2> DEFINE named == [exited EXCEPT !.required = current]
  <2>4. \/ Publish(exited) /\ host' = "exited"
        \/ /\ Live(exited.threads[current])
           /\ Publish(exited) /\ host' = host
        \/ Publish(named) /\ host' = "schedule"
    BY <1>4, <1>12
  <2> HIDE DEF exited
  <2>5. /\ named.threads = exited.threads /\ named.loader = exited.loader
        /\ named.current = current
    BY <2>3 DEF PlanType
  <2> HIDE DEF named
  <2>6. LockPlan(exited) /\ LockPlan(named)
    BY <2>2, <2>5 DEF LockStep, LockPlan
  <2>7. /\ threads' = exited.threads /\ loader' = exited.loader /\ current' = current
    BY <2>3, <2>4, <2>5 DEF Publish
  <2>8. exited.loader.owner \in {loader.owner, NoThread, current, current'}
    BY <1>7, <2>2 DEF LockStep
  <2>9. HandsOn
    BY <1>9, <2>2, <2>7 DEF HandsOn, Survive
  <2>10. CASE Publish(exited) /\ host' = "exited"
    BY <1>10, <2>6, <2>7, <2>8, <2>9, <2>10, PublishLocked
  <2>11. CASE Live(exited.threads[current]) /\ Publish(exited) /\ host' = host
    BY <1>10, <2>2, <2>3, <2>6, <2>7, <2>8, <2>9, <2>11, PublishLocked
  <2>12. CASE Publish(named) /\ host' = "schedule"
    BY <1>10, <2>5, <2>6, <2>7, <2>8, <2>9, <2>12, PublishLocked
  <2> QED BY <2>4, <2>10, <2>11, <2>12
<1> QED BY <1>11, <1>12

-----------------------------------------------------------------------------
(* The theorems. *)

(* The primary thread alone has nothing open.                               *)
LEMMA InitLocked ==
    ASSUME Init
    PROVE  LockInv
<1>1. /\ threads = [t \in Threads |-> IF t = 1 THEN Primary ELSE Absent]
      /\ current = 1 /\ lastId = 1 /\ loader = [owner |-> NoThread, depth |-> 0]
      /\ 1 \in Threads
  BY SchedulerAssumption DEF Init, Threads
<1>2. /\ Primary.context = Empty /\ Primary.frames = <<>> /\ Primary.phase = NoPhase
      /\ Primary.started = TRUE /\ Primary.leaving = FALSE
  BY DEF Primary, Absent
<1>3. Ready(Primary) /\ Orderly(Primary) /\ Held(Primary) = 0
  BY <1>2 DEF Ready, Orderly, Held, Empty, NoPhase
<1>4. ~Live(Absent)
  BY DEF Live, Absent
<1> DEFINE p == Plan
<1>5. p.loader = loader /\ p.threads = threads
  BY DEF Plan
<1> HIDE DEF p
<1>6. LockPlan(p)
  BY <1>1, <1>3, <1>4, <1>5 DEF LockPlan, Share
<1>7. GuestReady
  BY <1>1, <1>3 DEF GuestReady
<1>8. HoldersIssued
  BY <1>1 DEF HoldersIssued, NoThread
<1> QED BY <1>6, <1>7, <1>8, InitSound DEF LockInv, p

(* Every step keeps the lock exact, one case per action of Next, and the    *)
(* steps that may end the running thread hand the lock on.                  *)
LEMMA NextLocked ==
    ASSUME LockInv, [Next]_vars
    PROVE  /\ LockInv'
           /\ Pass \/ ExitThread => HandsOn
<1>0. IInv'
  BY NextSound DEF LockInv
<1>1. CASE UNCHANGED vars
  <2>1. LockInv'
    BY <1>0, <1>1 DEF vars, LockInv, LockPlan, Plan, GuestReady, HoldersIssued
  <2>2. HandsOn
    BY <1>1 DEF vars, HandsOn
  <2> QED BY <2>1, <2>2
<1>2. ASSUME NEW suspended \in BOOLEAN, CreateThread(suspended) PROVE LockInv'
  BY <1>0, <1>2, CreateThreadLocked
<1>3. ASSUME NEW t \in Threads, SuspendThread(t) \/ ResumeThread(t) \/ TerminateThread(t)
      PROVE  LockInv'
  BY <1>0, <1>3, SuspendThreadLocked, ResumeThreadLocked, TerminateThreadLocked
<1>4. ASSUME NEW t \in Threads, NEW priority \in Priorities,
             SetThreadPriority(t, priority)
      PROVE  LockInv'
  BY <1>0, <1>4, SetThreadPriorityLocked
<1>5. SwitchToThread => LockInv'
  BY <1>0, SwitchToThreadLocked
<1>6. Block => LockInv'
  BY <1>0, BlockLocked
<1>7. LoadLibrary \/ FinishLoad => LockInv'
  BY <1>0, LoadLibraryLocked, FinishLoadLocked
<1>8. ReturnCallback => LockInv'
  BY <1>0, ReturnCallbackLocked
<1>9. Pass => LockInv' /\ HandsOn
  BY <1>0, PassLocked
<1>10. ExitThread => LockInv' /\ HandsOn
  BY <1>0, ExitThreadLocked
<1>11. ASSUME NEW t \in Threads, Answer(t) PROVE LockInv'
  BY <1>0, <1>11, AnswerLocked
<1>12. LockInv'
  BY <1>1, <1>2, <1>3, <1>4, <1>5, <1>6, <1>7, <1>8, <1>9, <1>10, <1>11
     DEF Next, Guest
<1> QED BY <1>9, <1>10, <1>12

(* The invariant on which the theorems about the loader lock rest.          *)
THEOREM LockInductive == Spec => []LockInv
<1>1. Init => LockInv
  BY InitLocked
<1>2. LockInv /\ [Next]_vars => LockInv'
  BY NextLocked
<1> QED BY <1>1, <1>2, PTL DEF Spec

(* The loader lock counts what its holder has open, and no other live       *)
(* thread has a load or a notification phase open: acquire_loader_thread    *)
(* and release_loader_thread are always called in pairs.                    *)
THEOREM LoaderIsExact == Spec => []LoaderExact
<1>1. LockInv => LoaderExact
  BY DEF LockInv, LockPlan, Plan, LoaderExact, Held, Share
<1> QED BY <1>1, LockInductive, PTL

(* Guest code runs only in a thread that is running and in no call, and     *)
(* outside of callbacks only in one whose attach callbacks have run.        *)
THEOREM GuestRunsWhereItMay == Spec => []GuestMayRun
<1>1. LockInv => GuestMayRun
  <2> SUFFICES ASSUME LockInv, host = "guest", required = NoThread
               PROVE  /\ threads[current].state = "running"
                      /\ threads[current].context.call = "none"
                      /\ threads[current].frames = <<>> =>
                           threads[current].started /\ threads[current].phase = NoPhase
    BY DEF GuestMayRun
  <2>1. /\ current \in Threads /\ Live(threads[current])
        /\ threads[current].state = "running"
        /\ threads[current].context.call = "none"
    BY GuestFacts DEF LockInv
  <2>2. Ready(threads[current])
    BY DEF LockInv, GuestReady
  <2> DEFINE p == Plan
  <2>3. LockPlan(p) /\ p.threads = threads
    BY DEF LockInv, Plan
  <2> HIDE DEF p
  <2>4. Orderly(threads[current])
    BY <2>1, <2>3 DEF LockPlan
  <2> QED BY <2>1, <2>2, <2>4 DEF Ready, Orderly
<1> QED BY <1>1, LockInductive, PTL

(* The step in which a thread leaves, in ExitThread or in a schedule, hands *)
(* the loader lock on (release_loader_thread after the last detach call).   *)
THEOREM ExitsHandOn == Spec => ExitsReleaseTheLoader
<1>1. LockInv /\ [Next]_vars =>
        [Pass \/ ExitThread => \A t \in Threads :
            Live(threads[t]) /\ ~Live(threads[t])' => loader'.owner # t]_vars
  <2> SUFFICES ASSUME LockInv, [Next]_vars, Pass \/ ExitThread,
                      NEW t \in Threads, Live(threads[t]), ~Live(threads[t])'
               PROVE  loader'.owner # t
    OBVIOUS
  <2>1. HandsOn
    BY NextLocked
  <2>2. ~Live(threads'[t])
    BY DEF Live
  <2> QED BY <2>1, <2>2, NoThreadIsNone DEF HandsOn
<1> QED BY <1>1, LockInductive, PTL DEF Spec, ExitsReleaseTheLoader

-----------------------------------------------------------------------------
(* The calls that threads are in.                                           *)

(* What a live thread can be in: a thread that may be run without further   *)
(* notice is in no call, has its answer, or was woken for the loader lock;  *)
(* a thread with the phase to run next is in no call, if it does not leave; *)
(* and detach callbacks make no call that takes time.                       *)
Fitting(r) ==
    /\ r.state = "runnable" => r.context.call \in {"none", "answered", "loader"}
    /\ r.phase.active => r.context.call # "loader"
    /\ r.phase.active /\ r.phase.reason = "detach" => r.context.call = "none"
    /\ ~r.phase.active /\ ~r.leaving /\ (~r.started \/ r.phase.reason # "none") =>
         r.context.call = "none"
    /\ r.leaving => r.phase.reason # "attach"
    /\ r.phase.reason = "detach" => r.leaving
    /\ r.phase.reason = "attach" =>
         \A i \in DOMAIN r.frames : r.frames[i].call = "none"

CallPlan(p) == \A t \in Threads : Live(p.threads[t]) => Fitting(p.threads[t])

(* The thread has a phase to begin or to go on with.                        *)
Going(r) == ~r.phase.active /\ (r.phase.reason # "none" \/ r.leaving \/ ~r.started)

(* The new record is in the call and the phase of the old one.              *)
SameCall(r, s) ==
    /\ s.context = r.context /\ s.frames = r.frames /\ s.phase = r.phase
    /\ s.started = r.started /\ s.leaving = r.leaving

(* A record in the same call and phase fits as well, if nobody woke it.     *)
LEMMA SameCallFits ==
    ASSUME NEW r, NEW s, Fitting(r), SameCall(r, s),
           s.state = "runnable" => \/ r.state = "runnable"
                                   \/ r.context.call \in {"none", "answered", "loader"}
    PROVE  Fitting(s)
BY DEF Fitting, SameCall

(* What Resumed does to the current thread: nothing but to its call, its    *)
(* loads and its state; and it does not run in a call.                      *)
Returns(p, c) ==
    \/ p.threads[c].context.call \in {"none", "answered"}
    \/ p.threads[c].context.call = "loader" /\ LoaderOpen(p.loader, c)

(* The current thread is in its call still, or the call has returned.       *)
LEMMA ResumedParts ==
    ASSUME NEW p, SoundPlan(p), NEW c, c = p.current, NEW q, q = Resumed(p)
    PROVE  /\ q.current = c
           /\ \A u \in Threads \ {c} : q.threads[u] = p.threads[u]
           /\ q.threads[c].frames = p.threads[c].frames
           /\ q.threads[c].phase = p.threads[c].phase
           /\ q.threads[c].started = p.threads[c].started
           /\ q.threads[c].leaving = p.threads[c].leaving
           /\ q.threads[c].suspends = p.threads[c].suspends
           /\ Live(q.threads[c]) <=> Live(p.threads[c])
           /\ q.threads[c].state = "running" => q.threads[c].context.call = "none"
           /\ Returns(p, c) => q.threads[c].context.call = "none"
           /\ ~Returns(p, c) =>
                /\ q.loader = p.loader
                /\ q.threads[c].context = p.threads[c].context
                /\ q.threads[c].state = IF p.threads[c].state = "running" THEN "waiting"
                                        ELSE p.threads[c].state
<1> DEFINE old == p.threads[c]
           answered == [old EXCEPT !.context.call = "none"]
           loaded == [old EXCEPT !.context = [call |-> "none", loads |-> @.loads + 1]]
           A == [p EXCEPT !.threads[c] = answered]
           L == [p EXCEPT !.threads[c] = loaded]
           r == CallReturned(p)
           Put(state) == [r EXCEPT !.threads[c].state = state]
<1>1. /\ p \in PlanType /\ c \in Threads /\ old \in Record
      /\ old.context \in Context /\ SoundRecord(old, TRUE)
  BY DEF SoundPlan, PlanType, Record
<1>2. /\ r \in PlanType /\ r.current = c
      /\ r.threads[c].state = old.state /\ r.threads[c].suspends = old.suspends
  BY <1>1, CallReturnedSound DEF SoundStep, SoundPlan, StaysOn
<1>3. r = IF old.context.call = "answered" THEN A
          ELSE IF old.context.call = "loader" /\ LoaderOpen(p.loader, c)
               THEN AcquireLoader(L, c) ELSE p
  BY DEF CallReturned
<1>4. /\ \A u \in Threads \ {c} : r.threads[u] = p.threads[u]
      /\ r.threads[c].frames = old.frames
      /\ r.threads[c].phase = old.phase
      /\ r.threads[c].started = old.started
      /\ r.threads[c].leaving = old.leaving
      /\ Returns(p, c) => r.threads[c].context.call = "none"
      /\ ~Returns(p, c) => r = p
  <2>1. CASE old.context.call = "answered"
    <3>1. /\ A.threads[c] = answered
          /\ \A u \in Threads \ {c} : A.threads[u] = p.threads[u]
      BY <1>1 DEF PlanType
    <3>2. /\ answered.frames = old.frames /\ answered.phase = old.phase
          /\ answered.started = old.started /\ answered.leaving = old.leaving
          /\ answered.context.call = "none"
      BY <1>1 DEF Record, Context
    <3> QED BY <1>3, <2>1, <3>1, <3>2 DEF Returns
  <2>2. CASE old.context.call = "loader" /\ LoaderOpen(p.loader, c)
    <3>1. /\ AcquireLoader(L, c).threads[c] = loaded
          /\ \A u \in Threads \ {c} : AcquireLoader(L, c).threads[u] = p.threads[u]
      BY <1>1 DEF PlanType, AcquireLoader
    <3>2. /\ loaded.frames = old.frames /\ loaded.phase = old.phase
          /\ loaded.started = old.started /\ loaded.leaving = old.leaving
          /\ loaded.context.call = "none"
      BY <1>1 DEF Record
    <3>3. r = AcquireLoader(L, c) /\ Returns(p, c)
      BY <1>3, <2>2 DEF Returns
    <3> HIDE DEF r, loaded
    <3> QED BY <3>1, <3>2, <3>3
  <2>3. CASE ~(old.context.call = "answered"
               \/ (old.context.call = "loader" /\ LoaderOpen(p.loader, c)))
    <3>1. r = p
      BY <1>3, <2>3
    <3>2. Returns(p, c) => old.context.call = "none"
      BY <2>3 DEF Returns
    <3> HIDE DEF r
    <3> QED BY <3>1, <3>2
  <2> QED BY <2>1, <2>2, <2>3
<1> HIDE DEF r
<1>5. q = CASE /\ Live(r.threads[c]) /\ r.threads[c].context.call = "none"
               /\ (old.context.call = "loader" \/ r.threads[c].suspends = 0) -> Put("running")
            [] r.threads[c].state = "running" /\ r.threads[c].context.call # "none" ->
                 Put("waiting")
            [] OTHER -> r
  BY <1>2 DEF Resumed, r
<1>6. ASSUME NEW state
      PROVE  /\ Put(state).loader = r.loader /\ Put(state).current = c
             /\ Put(state).threads[c].state = state
             /\ Put(state).threads[c].suspends = r.threads[c].suspends
             /\ SameCall(r.threads[c], Put(state).threads[c])
             /\ \A u \in Threads \ {c} : Put(state).threads[u] = r.threads[u]
  BY <1>1, <1>2 DEF PlanType, Record, SameCall
<1> HIDE DEF Put
<1>7. CASE q = Put("running") /\ Live(r.threads[c]) /\ r.threads[c].context.call = "none"
  <2>1. Returns(p, c)
    BY <1>4, <1>7 DEF Returns
  <2> QED BY <1>2, <1>4, <1>6, <1>7, <2>1 DEF SameCall, Live
<1>8. CASE q = Put("waiting") /\ r.threads[c].state = "running"
           /\ r.threads[c].context.call # "none"
  BY <1>2, <1>4, <1>6, <1>8 DEF SameCall, Live
<1>9. CASE /\ q = r
           /\ ~(r.threads[c].state = "running" /\ r.threads[c].context.call # "none")
  <2>1. ~Returns(p, c) => r.threads[c].state # "running"
    BY <1>4, <1>9 DEF Returns
  <2> QED BY <1>2, <1>4, <1>9, <2>1 DEF Live
<1> QED BY <1>2, <1>5, <1>7, <1>8, <1>9

(* Waking changes states alone, from waiting to runnable.                   *)
LEMMA WokenParts ==
    ASSUME NEW p, SoundPlan(p), NEW q, q = Woken(p)
    PROVE  /\ q.current = p.current /\ q.loader = p.loader /\ q.required = p.required
           /\ \A u \in Threads :
                \/ q.threads[u] = p.threads[u]
                \/ /\ SameCall(p.threads[u], q.threads[u])
                   /\ p.threads[u].state = "waiting" /\ q.threads[u].state = "runnable"
                   /\ SavedReady(p, u) /\ p.threads[u].suspends = 0
<1> DEFINE Wakes(t) == /\ p.threads[t].state = "waiting" /\ p.threads[t].suspends = 0
                       /\ SavedReady(p, t)
<1>1. p \in PlanType
  BY DEF SoundPlan
<1>2. /\ q.current = p.current /\ q.loader = p.loader /\ q.required = p.required
      /\ \A u \in Threads : q.threads[u] = IF Wakes(u) THEN [p.threads[u] EXCEPT !.state = "runnable"]
                                           ELSE p.threads[u]
  BY <1>1 DEF Woken, PlanType
<1>3. ASSUME NEW u \in Threads, Wakes(u)
      PROVE  /\ SameCall(p.threads[u], [p.threads[u] EXCEPT !.state = "runnable"])
             /\ [p.threads[u] EXCEPT !.state = "runnable"].state = "runnable"
  BY <1>1 DEF PlanType, Record, SameCall
<1> QED BY <1>2, <1>3

(* A switch changes what is parked, and the thread that was running may be  *)
(* run again.                                                               *)
LEMMA SwitchedParts ==
    ASSUME NEW p, SoundPlan(p), NEW t \in Threads, NEW q, q = Switched(p, t)
    PROVE  /\ q.current = t /\ q.loader = p.loader
           /\ q.threads[t].state = p.threads[t].state
           /\ \A u \in Threads :
                /\ SameCall(p.threads[u], q.threads[u])
                /\ \/ q.threads[u].state = p.threads[u].state
                   \/ /\ u = p.current /\ p.threads[u].state = "running"
                      /\ q.threads[u].state = "runnable"
<1> DEFINE c == p.current
           left == p.threads[c]
           state == IF left.state = "running" THEN "runnable" ELSE left.state
           Parked == [left EXCEPT !.parked = Live(left), !.state = state]
           entered == [p.threads[t] EXCEPT !.parked = FALSE]
<1>1. p \in PlanType /\ c \in Threads /\ left \in Record /\ p.threads[t] \in Record
  BY DEF SoundPlan, PlanType
<1>2. CASE t = c
  BY <1>2 DEF Switched, SameCall
<1>3. CASE t # c
  <2>1. /\ q.current = t /\ q.loader = p.loader
        /\ q.threads[c] = Parked /\ q.threads[t] = entered
        /\ \A u \in Threads \ {c, t} : q.threads[u] = p.threads[u]
    BY <1>1, <1>3 DEF Switched, PlanType
  <2>2. SameCall(left, Parked) /\ Parked.state = state
    BY <1>1 DEF Record, SameCall
  <2>3. SameCall(p.threads[t], entered) /\ entered.state = p.threads[t].state
    BY <1>1 DEF Record, SameCall
  <2>4. \A u \in Threads : SameCall(p.threads[u], p.threads[u])
    BY DEF SameCall
  <2> HIDE DEF Parked, entered
  <2> QED BY <2>1, <2>2, <2>3, <2>4
<1> QED BY <1>2, <1>3

(* A plan keeps its threads fitting if each record stays, fits by itself,   *)
(* or is of a thread that does not live any longer.                         *)
LEMMA CallWrite ==
    ASSUME NEW p, NEW q, CallPlan(p),
           \A u \in Threads : \/ q.threads[u] = p.threads[u]
                              \/ Live(q.threads[u]) => Fitting(q.threads[u])
    PROVE  CallPlan(q)
BY DEF CallPlan

-----------------------------------------------------------------------------
(* advance_windows_thread_initialization, once more: what becomes of the    *)
(* thread that has a phase to go on with.                                   *)

(* The thread that begins its phase stays in the call it is in.             *)
LEMMA BegunParts ==
    ASSUME NEW p, p \in PlanType, NEW t \in Threads, Fitting(p.threads[t]),
           p.threads[t].phase.reason = "none" => p.threads[t].frames = <<>>,
           Going(p.threads[t]), NEW q, q = Begun(p, t)
    PROVE  /\ q \in PlanType /\ q.current = p.current
           /\ \A u \in Threads \ {t} : q.threads[u] = p.threads[u]
           /\ Fitting(q.threads[t]) /\ Going(q.threads[t])
           /\ q.threads[t].phase.reason # "none"
           /\ q.threads[t].context = p.threads[t].context
           /\ q.threads[t].state = p.threads[t].state
           /\ LastLive(q) <=> LastLive(p)
<1> DEFINE old == p.threads[t]
           reason == IF old.leaving THEN "detach" ELSE "attach"
           phase == [reason |-> reason, calls |-> Callbacks, active |-> FALSE,
                     prepared |-> TRUE]
           r == [old EXCEPT !.phase = phase]
           w == [p EXCEPT !.threads[t] = r]
<1>1. old \in Record /\ old.frames \in Seq(Context) /\ old.phase \in Lifecycle
  BY DEF PlanType, Record
<1>2. phase \in Lifecycle /\ phase.reason = reason /\ ~phase.active
  BY SchedulerAssumption DEF Lifecycle
<1> HIDE DEF phase
<1>3. /\ r \in Record /\ r.phase = phase /\ r.context = old.context
      /\ r.state = old.state /\ r.frames = old.frames
      /\ r.leaving = old.leaving /\ r.started = old.started
  BY <1>1, <1>2 DEF Record
<1>4. \/ old.phase.reason = "none" /\ q = AcquireLoader(w, t)
      \/ old.phase.reason # "none" /\ ~old.phase.prepared /\ q = w
      \/ old.phase.reason # "none" /\ q = p
  BY DEF Begun, Going, phase
<1> HIDE DEF r
<1>5. /\ w \in PlanType /\ AcquireLoader(w, t) \in PlanType
      /\ AcquireLoader(w, t).threads = w.threads
      /\ AcquireLoader(w, t).current = w.current
      /\ w.threads = [p.threads EXCEPT ![t] = r] /\ w.current = p.current
  <2>1. /\ w \in PlanType /\ w.threads = [p.threads EXCEPT ![t] = r]
        /\ w.current = p.current
    BY <1>3 DEF PlanType
  <2> HIDE DEF w
  <2>2. w.loader.depth + 1 \in Int
    BY <2>1 DEF PlanType
  <2>3. [owner |-> t, depth |-> w.loader.depth + 1] \in
          [owner : Threads \cup {NoThread}, depth : Int]
    BY <2>2
  <2>4. AcquireLoader(w, t) = [w EXCEPT !.loader = [owner |-> t, depth |-> w.loader.depth + 1]]
    BY <2>1 DEF AcquireLoader, PlanType
  <2> QED BY <2>1, <2>3, <2>4 DEF PlanType
<1>6. CASE q = p /\ old.phase.reason # "none"
  BY <1>6
<1>7. CASE q \in {w, AcquireLoader(w, t)}
  <2>1. /\ q.threads[t] = r /\ q.current = p.current /\ q \in PlanType
        /\ \A u \in Threads \ {t} : q.threads[u] = p.threads[u]
    <3>1. q.threads = [p.threads EXCEPT ![t] = r] /\ q.current = p.current /\ q \in PlanType
      BY <1>5, <1>7
    <3> QED BY <3>1 DEF PlanType
  <2>2. \A u \in Threads : Live(q.threads[u]) <=> Live(p.threads[u])
    BY <1>3, <2>1 DEF Live
  <2>3. {u \in Threads : Live(q.threads[u])} = {u \in Threads : Live(p.threads[u])}
    BY <2>2
  <2>4. Fitting(r) /\ Going(r) /\ r.phase.reason # "none"
    <3>1. ~old.phase.active
      BY DEF Going
    <3>2. ~old.leaving => old.context.call = "none"
      BY <3>1 DEF Fitting, Going
    <3>3. ~old.leaving => \A i \in DOMAIN r.frames : r.frames[i].call = "none"
      <4>1. CASE old.phase.reason = "none"
        BY <1>3, <4>1
      <4>2. CASE old.phase.reason = "attach"
        BY <1>3, <4>2 DEF Fitting
      <4>3. CASE old.phase.reason = "detach"
        BY <4>3 DEF Fitting
      <4> QED BY <1>1, <4>1, <4>2, <4>3 DEF Lifecycle
    <3> QED BY <1>2, <1>3, <3>2, <3>3 DEF Fitting, Going
  <2> QED BY <1>3, <2>1, <2>3, <2>4 DEF LastLive
<1> QED BY <1>4, <1>6, <1>7

(* The next callback runs.                                                  *)
LEMMA CallbackFits ==
    ASSUME NEW p, p \in PlanType, NEW t \in Threads, Fitting(p.threads[t]),
           Going(p.threads[t]), NEW q, q = CallbackEntered(p, t)
    PROVE  /\ \A u \in Threads \ {t} : q.threads[u] = p.threads[u]
           /\ Fitting(q.threads[t])
           /\ q.threads[t].context.call = "none"
<1> DEFINE old == p.threads[t]
           phase == [old.phase EXCEPT !.active = TRUE]
           frames == Append(old.frames, old.context)
           r == [old EXCEPT !.state = "running", !.context = Empty,
                            !.frames = frames, !.phase = phase]
<1>1. /\ old \in Record /\ old.frames \in Seq(Context) /\ old.phase \in Lifecycle
      /\ old.context \in Context
  BY DEF PlanType, Record
<1>2. phase.active /\ phase.reason = old.phase.reason
  BY <1>1 DEF Lifecycle
<1>3. q.threads[t] = r /\ \A u \in Threads \ {t} : q.threads[u] = p.threads[u]
  BY <1>1 DEF CallbackEntered, PlanType
<1>4. /\ r.state = "running" /\ r.context = Empty /\ r.frames = frames
      /\ r.phase = phase /\ r.started = old.started /\ r.leaving = old.leaving
  BY <1>1 DEF Record
<1>5. old.phase.reason = "attach" => \A i \in DOMAIN frames : frames[i].call = "none"
  <2> SUFFICES ASSUME old.phase.reason = "attach", NEW i \in DOMAIN frames
               PROVE  frames[i].call = "none"
    OBVIOUS
  <2>1. old.context.call = "none"
    BY DEF Fitting, Going
  <2>2. \A k \in DOMAIN old.frames : old.frames[k].call = "none"
    BY DEF Fitting
  <2>3. \/ i \in DOMAIN old.frames /\ frames[i] = old.frames[i]
        \/ frames[i] = old.context
    BY <1>1
  <2> QED BY <2>1, <2>2, <2>3
<1> HIDE DEF r, frames, phase
<1>6. r.context.call = "none"
  BY <1>4 DEF Empty
<1>7. Fitting(r)
  BY <1>2, <1>4, <1>5, <1>6 DEF Fitting, Going
<1> QED BY <1>3, <1>6, <1>7

(* The last callback has returned: the thread is in no call and starts, or  *)
(* it ends, and with the last thread the process does.                      *)
Ended(p, q, t) ==
    \/ \A u \in Threads : ~Live(q.threads[u])
    \/ /\ \A u \in Threads \ {t} : q.threads[u] = p.threads[u]
       /\ ~Live(q.threads[t]) =>
            q.threads[t].state = "terminated" /\ q.threads[t].context = Empty

(* The last callback has returned: the thread runs on, or it is gone.       *)
LEMMA PhaseEndedParts ==
    ASSUME NEW p, p \in PlanType, NEW t \in Threads, Live(p.threads[t]),
           Fitting(p.threads[t]), Going(p.threads[t]), p.threads[t].phase.reason # "none",
           NEW q, q = PhaseEnded(p, t)
    PROVE  /\ Ended(p, q, t)
           /\ Live(q.threads[t]) => /\ Fitting(q.threads[t])
                                    /\ q.threads[t].context.call = "none"
<1> DEFINE old == p.threads[t]
           Cleared(g) == [g EXCEPT !.threads[t].phase = NoPhase,
                                   !.threads[t].leaving = FALSE]
           started == [p EXCEPT !.threads[t].started = TRUE]
           gone == IF LastLive(p) THEN Retired(p) ELSE Terminated(p, t)
<1>1. old \in Record /\ old.phase \in Lifecycle
  BY DEF PlanType, Record
<1>2. ASSUME NEW g, g.threads \in [Threads -> Record]
      PROVE  LET e == ReleaseLoader(Cleared(g)) IN
             /\ \A u \in Threads \ {t} : e.threads[u] = g.threads[u]
             /\ e.threads[t].phase = NoPhase /\ ~e.threads[t].leaving
             /\ e.threads[t].started = g.threads[t].started
             /\ e.threads[t].context = g.threads[t].context
             /\ e.threads[t].frames = g.threads[t].frames
             /\ e.threads[t].state = g.threads[t].state
  BY <1>2 DEF ReleaseLoader, Record
<1>3. q = ReleaseLoader(Cleared(IF old.phase.reason = "attach" THEN started ELSE gone))
  BY DEF PhaseEnded
<1> HIDE DEF Cleared
<1>4. CASE old.phase.reason = "attach"
  <2>1. /\ started.threads \in [Threads -> Record]
        /\ \A u \in Threads \ {t} : started.threads[u] = p.threads[u]
        /\ started.threads[t].started = TRUE
        /\ started.threads[t].context = old.context
        /\ started.threads[t].state = old.state
    BY <1>1 DEF PlanType, Record
  <2> HIDE DEF started
  <2>2. /\ \A u \in Threads \ {t} : q.threads[u] = p.threads[u]
        /\ q.threads[t].phase = NoPhase /\ ~q.threads[t].leaving
        /\ q.threads[t].started = TRUE
        /\ q.threads[t].context = old.context
        /\ q.threads[t].state = old.state
    BY <1>2, <1>3, <1>4, <2>1
  <2>3. old.context.call = "none"
    BY <1>4 DEF Fitting, Going
  <2>4. Fitting(q.threads[t])
    BY <2>2, <2>3 DEF Fitting, NoPhase
  <2>5. Live(q.threads[t])
    BY <2>2 DEF Live
  <2> QED BY <2>2, <2>3, <2>4, <2>5 DEF Ended
<1>5. CASE old.phase.reason = "detach"
  <2>1. CASE LastLive(p)
    <3>1. /\ Retired(p).threads \in [Threads -> Record]
          /\ \A u \in Threads : ~Live(Retired(p).threads[u])
      <4>1. NoPhase \in Lifecycle /\ <<>> \in Seq(Context)
        BY ResetValues
      <4>2. \A u \in Threads : p.threads[u] \in Record
        BY DEF PlanType
      <4>3. Retired(p).threads = [u \in Threads |->
                  IF p.threads[u].state = "absent" THEN p.threads[u]
                  ELSE [p.threads[u] EXCEPT !.state = "terminated", !.parked = FALSE,
                                    !.frames = <<>>, !.phase = NoPhase,
                                    !.leaving = FALSE]]
        BY DEF Retired, PlanType
      <4>4. ASSUME NEW u \in Threads
            PROVE  /\ Retired(p).threads[u] \in Record
                   /\ ~Live(Retired(p).threads[u])
        <5> DEFINE r == [p.threads[u] EXCEPT !.state = "terminated", !.parked = FALSE,
                               !.frames = <<>>, !.phase = NoPhase, !.leaving = FALSE]
        <5>1. r \in Record /\ r.state = "terminated"
          BY <4>1, <4>2 DEF Record, ThreadState
        <5>2. Retired(p).threads[u] = IF p.threads[u].state = "absent"
                                      THEN p.threads[u] ELSE r
          BY <4>3
        <5> HIDE DEF r
        <5> QED BY <4>2, <5>1, <5>2 DEF Live
      <4> QED BY <4>3, <4>4
    <3> PICK g : g = Retired(p)
      OBVIOUS
    <3>2. \A u \in Threads : q.threads[u].state = g.threads[u].state
      BY <1>2, <1>3, <1>5, <2>1, <3>1
    <3>3. \A u \in Threads : ~Live(q.threads[u])
      BY <3>1, <3>2 DEF Live
    <3> QED BY <3>3 DEF Ended
  <2>2. CASE ~LastLive(p)
    <3>1. /\ Terminated(p, t).threads \in [Threads -> Record]
          /\ \A u \in Threads \ {t} : Terminated(p, t).threads[u] = p.threads[u]
          /\ Terminated(p, t).threads[t].state = "terminated"
          /\ Terminated(p, t).threads[t].context = Empty
      BY <1>1, ResetValues DEF Terminated, PlanType, Record, ThreadState
    <3> PICK g : g = Terminated(p, t)
      OBVIOUS
    <3>2. /\ \A u \in Threads \ {t} : q.threads[u] = g.threads[u]
          /\ q.threads[t].state = g.threads[t].state
          /\ q.threads[t].context = g.threads[t].context
      BY <1>2, <1>3, <1>5, <2>2, <3>1
    <3> QED BY <3>1, <3>2 DEF Ended, Live
  <2> QED BY <2>1, <2>2
<1> QED BY <1>1, <1>4, <1>5 DEF Lifecycle

(* A thread with a phase to go on with runs in no call or ends; for any     *)
(* other thread nothing happens.                                            *)
LEMMA AdvancedParts ==
    ASSUME NEW p, p \in PlanType, NEW t \in Threads, Live(p.threads[t]),
           Fitting(p.threads[t]), p.threads[t].phase.reason = "none" => p.threads[t].frames = <<>>,
           NEW q, q = Advanced(p, t)
    PROVE  /\ ~Going(p.threads[t]) => q = p
           /\ Going(p.threads[t]) =>
                /\ Ended(p, q, t)
                /\ Live(q.threads[t]) => /\ Fitting(q.threads[t])
                                         /\ q.threads[t].context.call = "none"
<1> DEFINE b == Begun(p, t)
<1>0. q = IF p.threads[t].phase.active THEN p
          ELSE IF b.threads[t].phase.reason = "none" THEN b
          ELSE IF b.threads[t].phase.calls > 0 THEN CallbackEntered(b, t)
          ELSE PhaseEnded(b, t)
  BY DEF Advanced
<1>1. CASE ~Going(p.threads[t])
  <2>1. CASE p.threads[t].phase.active
    BY <1>0, <1>1, <2>1
  <2>2. CASE ~p.threads[t].phase.active
    <3>1. p.threads[t].phase.reason = "none" /\ ~p.threads[t].leaving /\ p.threads[t].started
      BY <1>1, <2>2 DEF Going
    <3>2. b = p
      BY <3>1 DEF Begun
    <3> HIDE DEF b
    <3> QED BY <1>0, <1>1, <2>2, <3>1, <3>2
  <2> QED BY <1>1, <2>1, <2>2
<1>2. CASE Going(p.threads[t])
  <2>1. /\ b \in PlanType
        /\ \A u \in Threads \ {t} : b.threads[u] = p.threads[u]
        /\ Fitting(b.threads[t]) /\ Going(b.threads[t])
        /\ b.threads[t].phase.reason # "none" /\ Live(b.threads[t])
    BY <1>2, BegunParts DEF Live
  <2>2. q \in {CallbackEntered(b, t), PhaseEnded(b, t)}
    BY <1>0, <1>2, <2>1 DEF Going
  <2> HIDE DEF b
  <2>3. CASE q = CallbackEntered(b, t)
    <3>1. /\ \A u \in Threads \ {t} : q.threads[u] = b.threads[u]
          /\ Fitting(q.threads[t]) /\ q.threads[t].context.call = "none"
          /\ Live(q.threads[t])
      <4>1. Live(q.threads[t])
        BY <2>1, <2>3 DEF CallbackEntered, PlanType, Record, Live
      <4> QED BY <2>1, <2>3, <4>1, CallbackFits
    <3> QED BY <1>2, <2>1, <3>1 DEF Ended
  <2>4. CASE q = PhaseEnded(b, t)
    <3>1. /\ Ended(b, q, t)
          /\ Live(q.threads[t]) => /\ Fitting(q.threads[t])
                                   /\ q.threads[t].context.call = "none"
      BY <2>1, <2>4, PhaseEndedParts
    <3> QED BY <1>2, <2>1, <3>1 DEF Ended
  <2> QED BY <2>2, <2>3, <2>4
<1> QED BY <1>1, <1>2

-----------------------------------------------------------------------------
(* Selection.                                                               *)

(* The order of the numbers, as a set of pairs, has no endless descent.     *)
Less == {ss \in Nat \X Nat : ss[1] < ss[2]}

(* What Distance and the priorities are compared by.                        *)
LEMMA LessIsWellFounded == IsWellFoundedOn(Less, Nat)
BY NatLessThanWellFounded, Zenon DEF OpToRel, Less

(* next_windows_thread finds a thread if there is a candidate.              *)
LEMMA NextThreadExists ==
    ASSUME NEW p, p \in PlanType, NEW C \in SUBSET Threads, C # {}
    PROVE  NextThread(p, p.current, C) # {}
<1> DEFINE Pr(t) == p.threads[t].priority
           Di(t) == Distance(p.current, t)
           Beats(u, t) == Pr(u) > Pr(t) \/ (Pr(u) = Pr(t) /\ Di(u) < Di(t))
           Better(t) == {u \in C : Beats(u, t)}
           N == {Cardinality(Better(t)) : t \in C}
<1>1. \A t \in C : Pr(t) \in Int /\ Di(t) \in Int
  <2> TAKE t \in C
  <2>1. t \in Nat /\ t \in Threads /\ p.current \in Nat /\ MaxThread \in Nat
    BY NoThreadIsNone, SchedulerAssumption DEF PlanType
  <2>2. p.threads[t] \in Record
    BY <2>1 DEF PlanType
  <2>3. Pr(t) \in Int
    BY <2>2 DEF Record
  <2>4. Di(t) \in Int
    BY <2>1 DEF Distance
  <2> QED BY <2>3, <2>4
<1>2. IsFiniteSet(C)
  <2>1. IsFiniteSet(Threads)
    BY SchedulerAssumption, FS_Interval DEF Threads
  <2> QED BY <2>1, FS_Subset
<1>3. \A t \in C : IsFiniteSet(Better(t)) /\ Cardinality(Better(t)) \in Nat
  BY <1>2, FS_Subset, FS_CardinalityType
<1>4. N \subseteq Nat /\ N # {}
  BY <1>3
<1>5. PICK m \in N : \A k \in N : <<k, m>> \notin Less
  BY <1>4, LessIsWellFounded, WFMin
<1>6. PICK t \in C : m = Cardinality(Better(t))
  OBVIOUS
<1>7. ASSUME NEW u \in C, Beats(u, t) PROVE FALSE
  <2>1. Better(u) \subseteq Better(t) /\ u \in Better(t) /\ u \notin Better(u)
    BY <1>1, <1>7
  <2>2. Cardinality(Better(u)) <= Cardinality(Better(t))
    BY <1>3, <2>1, FS_Subset
  <2>3. Cardinality(Better(u)) # Cardinality(Better(t))
    BY <1>3, <2>1, FS_Subset
  <2>4. Cardinality(Better(u)) \in N
    OBVIOUS
  <2>5. Cardinality(Better(u)) \in Nat /\ m \in Nat
    BY <1>3, <1>6
  <2>6. Cardinality(Better(u)) < m
    BY <1>6, <2>2, <2>3, <2>5
  <2>7. <<Cardinality(Better(u)), m>> \in Less
    BY <2>5, <2>6 DEF Less
  <2> QED BY <1>5, <2>4, <2>7
<1>8. \A u \in C : Pr(t) > Pr(u) \/ (Pr(t) = Pr(u) /\ Di(t) <= Di(u))
  BY <1>1, <1>7
<1> QED BY <1>8 DEF NextThread

(* A schedule that selects nobody finds nobody eligible.                    *)
LEMMA NobodySelected ==
    ASSUME NEW p, p \in PlanType, Selected(p) = {}, NEW t \in Threads
    PROVE  ~Eligible(p, t)
<1>1. {u \in Threads : Eligible(p, u)} \in SUBSET Threads
  OBVIOUS
<1> QED BY <1>1, NextThreadExists DEF Selected

-----------------------------------------------------------------------------
(* A pass.                                                                  *)

(* Only the current thread is running, and not in a call.                   *)
Unhindered(p) ==
    p.threads[p.current].state = "running" =>
        p.threads[p.current].context.call = "none"

(* A call that returns leaves its thread in none.                           *)
LEMMA ResumedFits ==
    ASSUME NEW p, SoundPlan(p), CallPlan(p)
    PROVE  CallPlan(Resumed(p)) /\ Unhindered(Resumed(p))
<1> PICK q : q = Resumed(p)
  OBVIOUS
<1> DEFINE c == p.current
<1>1. /\ q.current = c
      /\ \A u \in Threads \ {c} : q.threads[u] = p.threads[u]
      /\ q.threads[c].frames = p.threads[c].frames
      /\ q.threads[c].phase = p.threads[c].phase
      /\ q.threads[c].started = p.threads[c].started
      /\ q.threads[c].leaving = p.threads[c].leaving
      /\ Live(q.threads[c]) <=> Live(p.threads[c])
      /\ q.threads[c].state = "running" => q.threads[c].context.call = "none"
      /\ Returns(p, c) => q.threads[c].context.call = "none"
      /\ ~Returns(p, c) =>
           /\ q.threads[c].context = p.threads[c].context
           /\ q.threads[c].state = IF p.threads[c].state = "running" THEN "waiting"
                                   ELSE p.threads[c].state
  BY ResumedParts
<1>2. c \in Threads
  BY DEF SoundPlan, PlanType
<1>3. ASSUME Live(q.threads[c]) PROVE Fitting(q.threads[c])
  <2>1. Fitting(p.threads[c])
    BY <1>1, <1>2, <1>3 DEF CallPlan
  <2>2. CASE Returns(p, c)
    BY <1>1, <2>1, <2>2 DEF Fitting
  <2>3. CASE ~Returns(p, c)
    BY <1>1, <2>1, <2>3, SameCallFits DEF SameCall
  <2> QED BY <2>2, <2>3
<1>4. CallPlan(q)
  BY <1>1, <1>3, CallWrite
<1> QED BY <1>1, <1>4 DEF Unhindered

(* Threads are woken for an answer, or for the loader lock.                 *)
LEMMA WokenFits ==
    ASSUME NEW p, SoundPlan(p), CallPlan(p), Unhindered(p)
    PROVE  CallPlan(Woken(p)) /\ Unhindered(Woken(p))
<1> PICK q : q = Woken(p)
  OBVIOUS
<1>1. /\ q.current = p.current
      /\ \A u \in Threads :
           \/ q.threads[u] = p.threads[u]
           \/ /\ SameCall(p.threads[u], q.threads[u])
              /\ p.threads[u].state = "waiting" /\ q.threads[u].state = "runnable"
              /\ SavedReady(p, u)
  BY WokenParts
<1>2. ASSUME NEW u \in Threads, q.threads[u] # p.threads[u] PROVE Fitting(q.threads[u])
  <2>1. Fitting(p.threads[u])
    BY <1>1, <1>2 DEF CallPlan, Live
  <2>2. p.threads[u].context.call \in {"none", "answered", "loader"}
    BY <1>1, <1>2 DEF SavedReady
  <2> QED BY <1>1, <1>2, <2>1, <2>2, SameCallFits
<1>3. CallPlan(q)
  BY <1>2, CallWrite
<1>4. p.current \in Threads
  BY DEF SoundPlan, PlanType
<1> QED BY <1>1, <1>3, <1>4 DEF Unhindered

(* A switch changes nobody's call.                                          *)
LEMMA SwitchedFits ==
    ASSUME NEW p, SoundPlan(p), CallPlan(p), Unhindered(p), NEW t \in Threads
    PROVE  CallPlan(Switched(p, t))
<1> PICK q : q = Switched(p, t)
  OBVIOUS
<1>1. \A u \in Threads :
         /\ SameCall(p.threads[u], q.threads[u])
         /\ \/ q.threads[u].state = p.threads[u].state
            \/ /\ u = p.current /\ p.threads[u].state = "running"
               /\ q.threads[u].state = "runnable"
  BY SwitchedParts
<1>2. ASSUME NEW u \in Threads, Live(q.threads[u]) PROVE Fitting(q.threads[u])
  <2>1. Fitting(p.threads[u])
    BY <1>1, <1>2 DEF CallPlan, Live
  <2>2. q.threads[u].state = "runnable" =>
          \/ p.threads[u].state = "runnable"
          \/ p.threads[u].context.call \in {"none", "answered", "loader"}
    BY <1>1 DEF Unhindered
  <2> QED BY <1>1, <2>1, <2>2, SameCallFits
<1> QED BY <1>2 DEF CallPlan

(* The threads that this schedule has no further use for: those that are    *)
(* gone, and those that wait for the loader lock after a pass that ran them *)
(* in vain, or find it open.                                                *)
Spent(p) ==
    {t \in Threads :
        \/ p.threads[t].state = "terminated"
        \/ /\ Live(p.threads[t]) /\ p.threads[t].context.call = "loader"
           /\ (p.threads[t].state = "waiting" \/ LoaderOpen(p.loader, t))}

(* A selected thread that does not run ends, or waits for the lock for      *)
(* which it was woken too early.                                            *)
Outcome(p, q, t) ==
    \/ Live(q.threads[t]) /\ q.threads[t].context.call = "none"
    \/ \A u \in Threads : ~Live(q.threads[u])
    \/ /\ t \notin Spent(p)
       /\ \A u \in Threads \ {t} :
            /\ SameCall(p.threads[u], q.threads[u])
            /\ \/ q.threads[u].state = p.threads[u].state
               \/ p.threads[u].state = "running" /\ q.threads[u].state = "runnable"
       /\ \/ /\ q.threads[t].state = "terminated" /\ q.threads[t].context = Empty
             /\ q.loader.owner = NoThread
          \/ /\ Live(q.threads[t]) /\ q.threads[t].context.call = "loader"
             /\ q.loader = p.loader /\ ~LoaderOpen(q.loader, t)

(* A thread that waits for the lock has no phase to go on with.             *)
LEMMA LoaderCallsReady ==
    ASSUME NEW r, Orderly(r), r.context.call = "loader"
    PROVE  ~Going(r)
BY DEF Orderly, Idle, Ready, Going

(* The thread is selected for what its call or its phase allows.            *)
LEMMA SelectedOutcome ==
    ASSUME NEW p, SoundPlan(p), LockPlan(p), CallPlan(p), Unhindered(p),
           NEW t \in Selected(p),
           NEW q, q = Advanced(Resumed(Switched(p, t)), t)
    PROVE  /\ Outcome(p, q, t) /\ SoundPlan(q) /\ q.current = t
           /\ CallPlan(q)
<1>0. t \in Threads /\ Eligible(p, t)
  BY DEF Selected, NextThread, SoundPlan, PlanType
<1>1. Live(p.threads[t]) /\ p.threads[t].suspends = 0 /\ MayAdvance(p, t)
  BY SelectedEligible, SelectedMayAdvance
<1> PICK m : m = Switched(p, t)
  OBVIOUS
<1> PICK h : h = Resumed(m)
  OBVIOUS
<1>2. /\ SoundPlan(m) /\ m.current = t /\ m.threads[t].suspends = 0
      /\ Live(m.threads[t]) /\ LockPlan(m) /\ CallPlan(m) /\ MayAdvance(m, t)
  BY <1>0, <1>1, SwitchedSound, SwitchedLocked, SwitchedFits DEF SoundStep
<1>3. /\ SoundPlan(h) /\ h.current = t /\ h.threads[t].suspends = 0
      /\ Live(h.threads[t]) /\ LockPlan(h) /\ CallPlan(h) /\ MayAdvance(h, t)
  BY <1>2, ResumedSound, ResumedLocked, ResumedFits DEF SoundStep, StaysOn, LockStep
<1>4. q = Advanced(h, t)
  OBVIOUS
<1>5. /\ SoundPlan(q) /\ q.current = t
      /\ Survive(h, q) \/ q.loader.owner = NoThread
  BY <1>0, <1>3, <1>4, AdvancedSound, AdvancedLocked DEF SoundStep, StaysOn
<1>6. /\ h \in PlanType /\ Fitting(h.threads[t]) /\ Orderly(h.threads[t])
      /\ h.threads[t].phase.reason = "none" => h.threads[t].frames = <<>>
  BY <1>0, <1>3 DEF SoundPlan, CallPlan, LockPlan, Orderly
<1>7. /\ ~Going(h.threads[t]) => q = h
      /\ Going(h.threads[t]) =>
           /\ Ended(h, q, t)
           /\ Live(q.threads[t]) => /\ Fitting(q.threads[t])
                                    /\ q.threads[t].context.call = "none"
  BY <1>0, <1>3, <1>4, <1>6, AdvancedParts
<1>8. CallPlan(q)
  <2>1. CASE ~Going(h.threads[t])
    BY <1>3, <1>7, <2>1
  <2>2. CASE Going(h.threads[t])
    BY <1>3, <1>7, <2>2 DEF CallPlan, Ended
  <2> QED BY <2>1, <2>2
<1>9. /\ m.threads[t].state = p.threads[t].state /\ m.loader = p.loader
      /\ \A u \in Threads :
           /\ SameCall(p.threads[u], m.threads[u])
           /\ \/ m.threads[u].state = p.threads[u].state
              \/ p.threads[u].state = "running" /\ m.threads[u].state = "runnable"
  BY <1>0, SwitchedParts
<1>10. /\ \A u \in Threads \ {t} : h.threads[u] = m.threads[u]
       /\ h.threads[t].phase = m.threads[t].phase
       /\ h.threads[t].started = m.threads[t].started
       /\ h.threads[t].leaving = m.threads[t].leaving
       /\ Returns(m, t) => h.threads[t].context.call = "none"
       /\ ~Returns(m, t) =>
            /\ h.loader = m.loader
            /\ h.threads[t].context = m.threads[t].context
  BY <1>2, ResumedParts
<1>11. Going(h.threads[t]) <=> Going(p.threads[t])
  BY <1>0, <1>9, <1>10 DEF Going, SameCall
<1>12. CASE Going(h.threads[t])
  <2>1. ASSUME ~Live(q.threads[t]), \E u \in Threads : Live(q.threads[u])
        PROVE  /\ q.threads[t].state = "terminated" /\ q.threads[t].context = Empty
               /\ q.loader.owner = NoThread
               /\ \A u \in Threads \ {t} : q.threads[u] = h.threads[u]
    BY <1>0, <1>3, <1>5, <1>7, <1>12, <2>1 DEF Ended, Survive
  <2>2. t \notin Spent(p)
    <3>1. Orderly(p.threads[t])
      BY <1>0, <1>1 DEF LockPlan
    <3>2. p.threads[t].context.call # "loader"
      BY <1>11, <1>12, <3>1, LoaderCallsReady
    <3> QED BY <1>1, <3>2 DEF Spent, Live
  <2> QED BY <1>5, <1>7, <1>8, <1>9, <1>10, <1>12, <2>1, <2>2 DEF Outcome
<1>13. CASE ~Going(h.threads[t]) /\ h.threads[t].context.call # "none"
  <2>1. ~Returns(m, t)
    BY <1>10, <1>13
  <2>2. /\ p.threads[t].context = h.threads[t].context
        /\ p.threads[t].phase = h.threads[t].phase
        /\ p.threads[t].leaving = h.threads[t].leaving
    BY <1>0, <1>9, <1>10, <2>1 DEF SameCall
  <2>3. /\ p.threads[t].context.call \notin {"none", "answered"}
        /\ ~(p.threads[t].context.call = "loader" /\ LoaderOpen(p.loader, t))
    BY <1>0, <1>9, <2>1 DEF Returns, SameCall
  <2>4. Fitting(p.threads[t])
    BY <1>0, <1>1 DEF CallPlan
  <2>5. p.threads[t].state # "running"
    BY <1>0, <2>3 DEF Unhindered, SoundPlan, SoundRecord
  <2>6. p.threads[t].state # "waiting"
    <3>1. ~SavedReady(p, t)
      BY <2>3 DEF SavedReady
    <3>2. ~p.threads[t].leaving
      <4>1. p.threads[t].phase.reason \in {"none", "attach", "detach"}
        BY <1>0 DEF SoundPlan, PlanType, Record, Lifecycle
      <4>2. p.threads[t].leaving => p.threads[t].phase.active
        BY <1>13, <2>2 DEF Going
      <4>3. p.threads[t].phase.active => p.threads[t].phase.reason # "none"
        <5>1. Orderly(p.threads[t])
          BY <1>0, <1>1 DEF LockPlan
        <5> QED BY <5>1 DEF Orderly, NoPhase
      <4> QED BY <2>3, <2>4, <4>1, <4>2, <4>3 DEF Fitting
    <3>3. ~(p.threads[t].phase.reason # "none" /\ ~p.threads[t].phase.active)
      BY <1>13, <2>2 DEF Going
    <3> QED BY <1>0, <3>1, <3>2, <3>3 DEF Eligible
  <2>7. p.threads[t].state = "runnable" /\ p.threads[t].context.call = "loader"
    BY <1>0, <2>3, <2>4, <2>5, <2>6 DEF Eligible, Fitting
  <2>8. ~LoaderOpen(p.loader, t) /\ t \notin Spent(p)
    BY <2>3, <2>7 DEF Spent
  <2> QED BY <1>3, <1>5, <1>7, <1>8, <1>9, <1>10, <1>13, <2>1, <2>2, <2>7, <2>8
          DEF Outcome
<1>14. CASE ~Going(h.threads[t]) /\ h.threads[t].context.call = "none"
  BY <1>3, <1>5, <1>7, <1>8, <1>14 DEF Outcome
<1> QED BY <1>12, <1>13, <1>14

-----------------------------------------------------------------------------
(* The passes of one schedule are counted by the threads it has spent.      *)

(* Between two passes the current thread is gone, or waits for the lock.    *)
Stuck(p) ==
    LET r == p.threads[p.current] IN
    \/ ~Live(r) /\ r.context.call = "none"
    \/ /\ r.context.call = "loader" /\ r.state = "waiting"
       /\ ~LoaderOpen(p.loader, p.current)

Between == passes > 0 => host = "schedule" /\ Stuck(Plan)

NobodyRuns == \A t \in Threads : ~(threads[t].state = "runnable" /\ Eligible(Plan, t))

WaitInv ==
    /\ LockInv
    /\ CallPlan(Plan)
    /\ Between
    /\ passes <= Cardinality(Spent(Plan))
    /\ host = "waiting" => NobodyRuns

(* The next pass finds no call of the current thread to return from.        *)
LEMMA StuckResumes ==
    ASSUME NEW p, Stuck(p)
    PROVE  Resumed(p) = p
<1>1. CallReturned(p) = p
  BY DEF Stuck, CallReturned
<1> QED BY <1>1 DEF Stuck, Resumed, Live

(* Waking threads spends none less: they find the lock open.                *)
LEMMA SpentWoken ==
    ASSUME NEW p, SoundPlan(p)
    PROVE  Spent(p) \subseteq Spent(Woken(p))
<1> PICK q : q = Woken(p)
  OBVIOUS
<1>1. /\ q.loader = p.loader
      /\ \A u \in Threads :
           \/ q.threads[u] = p.threads[u]
           \/ /\ SameCall(p.threads[u], q.threads[u])
              /\ p.threads[u].state = "waiting" /\ q.threads[u].state = "runnable"
              /\ SavedReady(p, u)
  BY WokenParts
<1> SUFFICES ASSUME NEW u \in Spent(p) PROVE u \in Spent(q)
  OBVIOUS
<1>2. CASE q.threads[u] = p.threads[u]
  BY <1>1, <1>2 DEF Spent
<1>3. CASE q.threads[u] # p.threads[u]
  BY <1>1, <1>3 DEF Spent, SavedReady, SameCall, Live
<1> QED BY <1>2, <1>3

(* The threads of a process are finitely many.                              *)
LEMMA SpentFinite ==
    ASSUME NEW p
    PROVE  /\ IsFiniteSet(Threads) /\ IsFiniteSet(Spent(p))
           /\ Cardinality(Spent(p)) \in Nat
<1>1. IsFiniteSet(Threads)
  BY SchedulerAssumption, FS_Interval DEF Threads
<1>2. Spent(p) \subseteq Threads
  BY DEF Spent
<1> QED BY <1>1, <1>2, FS_Subset, FS_CardinalityType

(* The pass that did not run the selected thread leaves q, in the end.      *)
Left(q, t) == IF Live(q.threads[t]) THEN [q EXCEPT !.threads[t].state = "waiting"] ELSE q

(* A pass that runs nobody spends the thread it selected.                   *)
LEMMA SpentGrows ==
    ASSUME NEW p, NEW t \in Threads, NEW q, SoundPlan(q), q.current = t, Outcome(p, q, t),
           ~(Live(q.threads[t]) /\ q.threads[t].context.call = "none"),
           NEW x \in Threads, Live(q.threads[x]), CallPlan(q),
           NEW last, last = Left(q, t)
    PROVE  /\ t \notin Spent(p)
           /\ Spent(p) \cup {t} \subseteq Spent(last)
           /\ Stuck(last)
<1>1. /\ t \notin Spent(p)
      /\ \A u \in Threads \ {t} :
           /\ SameCall(p.threads[u], q.threads[u])
           /\ \/ q.threads[u].state = p.threads[u].state
              \/ p.threads[u].state = "running" /\ q.threads[u].state = "runnable"
      /\ \/ /\ q.threads[t].state = "terminated" /\ q.threads[t].context = Empty
            /\ q.loader.owner = NoThread
         \/ /\ Live(q.threads[t]) /\ q.threads[t].context.call = "loader"
            /\ q.loader = p.loader /\ ~LoaderOpen(q.loader, t)
  BY DEF Outcome
<1>2. /\ last.loader = q.loader /\ last.current = t
      /\ \A u \in Threads \ {t} : last.threads[u] = q.threads[u]
      /\ last.threads[t].context = q.threads[t].context
      /\ last.threads[t].state = IF Live(q.threads[t]) THEN "waiting"
                                 ELSE q.threads[t].state
  BY DEF Left, SoundPlan, PlanType, Record
<1>3. ASSUME NEW u \in Spent(p)
      PROVE  u \in Spent(last)
  <2>1. /\ u \in Threads \ {t} /\ SameCall(p.threads[u], last.threads[u])
        /\ \/ last.threads[u].state = p.threads[u].state
           \/ p.threads[u].state = "running" /\ last.threads[u].state = "runnable"
    BY <1>1, <1>2, <1>3 DEF Spent
  <2>2. LoaderOpen(p.loader, u) => LoaderOpen(last.loader, u)
    BY <1>1, <1>2 DEF LoaderOpen
  <2> QED BY <1>3, <2>1, <2>2 DEF Spent, SameCall, Live
<1>4. t \in Spent(last) /\ Stuck(last)
  BY <1>1, <1>2 DEF Spent, Stuck, Live, Empty
<1> QED BY <1>1, <1>3, <1>4

(* The state a pass gives to its thread fits the call that it is in.        *)
LEMMA LeftFits ==
    ASSUME NEW q, SoundPlan(q), NEW t \in Threads, CallPlan(q),
           NEW state \in {"running", "waiting"},
           NEW last, last = IF Live(q.threads[t])
                            THEN [q EXCEPT !.threads[t].state = state] ELSE q
    PROVE  CallPlan(last)
<1>1. CASE Live(q.threads[t])
  <2>1. /\ \A u \in Threads \ {t} : last.threads[u] = q.threads[u]
        /\ SameCall(q.threads[t], last.threads[t])
        /\ last.threads[t].state # "runnable"
    BY <1>1 DEF SoundPlan, PlanType, Record, SameCall
  <2>2. Fitting(q.threads[t])
    BY <1>1 DEF CallPlan
  <2>3. Fitting(last.threads[t])
    BY <2>1, <2>2, SameCallFits
  <2>4. \A u \in Threads : \/ last.threads[u] = q.threads[u]
                           \/ Live(last.threads[u]) => Fitting(last.threads[u])
    BY <2>1, <2>3
  <2> QED BY <2>4, CallWrite
<1>2. CASE ~Live(q.threads[t])
  BY <1>2
<1> QED BY <1>1, <1>2

(* The plan of a pass, when it is published.                                *)
LEMMA PassPublished ==
    ASSUME NEW q \in PlanType, NEW result, NEW n, PassOver(q, result, n)
    PROVE  /\ threads' = q.threads /\ current' = q.current /\ loader' = q.loader
           /\ host' = result /\ passes' = n
           /\ CallPlan(q) => CallPlan(Plan)'
           /\ Spent(Plan)' = Spent(q)
           /\ Stuck(q) => Stuck(Plan)'
           /\ (\A t \in Threads : ~Eligible(q, t)) => NobodyRuns'
<1>1. /\ threads' = q.threads /\ current' = q.current /\ loader' = q.loader
      /\ host' = result /\ passes' = n
  BY DEF PassOver, Publish, PlanType
<1>2. /\ Plan'.threads = q.threads /\ Plan'.current = q.current /\ Plan'.loader = q.loader
  BY <1>1 DEF Plan
<1>3. CallPlan(q) => CallPlan(Plan)'
  BY <1>2 DEF CallPlan
<1>4. Spent(Plan)' = Spent(q)
  BY <1>2 DEF Spent
<1>5. Stuck(q) => Stuck(Plan)'
  BY <1>2 DEF Stuck
<1>6. (\A t \in Threads : ~Eligible(q, t)) => NobodyRuns'
  BY <1>2 DEF NobodyRuns, Eligible, SavedReady
<1> QED BY <1>1, <1>3, <1>4, <1>5, <1>6

(* One pass of the loop keeps the count.                                    *)
LEMMA PassWaits ==
    ASSUME WaitInv, LockInv', Pass
    PROVE  WaitInv'
<1> DEFINE moved == Resumed(Plan)
<1> PICK before : before = Woken(moved)
  OBVIOUS
<1>1. /\ SoundPlan(Plan) /\ LockPlan(Plan) /\ CallPlan(Plan) /\ Plan.threads = threads
      /\ passes \in Nat
  BY DEF WaitInv, LockInv, IInv, TypeOK, Plan
<1>2. /\ SoundStep(Plan, moved) /\ SoundPlan(moved) /\ LockPlan(moved)
      /\ CallPlan(moved) /\ Unhindered(moved)
  BY <1>1, ResumedSound, ResumedLocked, ResumedFits DEF SoundStep, LockStep
<1>3. /\ SoundStep(Plan, before) /\ SoundPlan(before) /\ LockPlan(before)
      /\ CallPlan(before) /\ Unhindered(before) /\ before \in PlanType
  <2> HIDE DEF moved
  <2> QED BY <1>2, WokenSound, WokenLocked, WokenFits DEF SoundStep, LockStep, SoundPlan
<1>4. passes > 0 => Spent(Plan) \subseteq Spent(before)
  <2>1. passes > 0 => moved = Plan
    BY StuckResumes DEF WaitInv, Between
  <2> HIDE DEF moved
  <2> QED BY <1>1, <2>1, SpentWoken
<1> DEFINE S == IF passes = 0 THEN {} ELSE Spent(Plan)
<1>5. /\ S \subseteq Spent(before) /\ IsFiniteSet(S) /\ Cardinality(S) \in Nat
      /\ passes <= Cardinality(S) /\ S \subseteq {u \in Threads : threads[u].state # "absent"}
  <2>1. CASE passes = 0
    BY <2>1, FS_EmptySet
  <2>2. CASE passes # 0
    <3>1. /\ S = Spent(Plan) /\ passes > 0 /\ passes <= Cardinality(Spent(Plan))
          /\ IsFiniteSet(Spent(Plan)) /\ Cardinality(Spent(Plan)) \in Nat
      BY <1>1, <2>2, SpentFinite DEF WaitInv
    <3>2. Spent(Plan) \subseteq {u \in Threads : threads[u].state # "absent"}
      BY <1>1 DEF Spent, Live
    <3> HIDE DEF S
    <3> QED BY <1>4, <3>1, <3>2
  <2> QED BY <2>1, <2>2
<1> HIDE DEF S
<1>6. ASSUME CallPlan(Plan)', Between', passes' = 0 \/ passes' <= Cardinality(Spent(Plan)'),
             host' = "waiting" => NobodyRuns'
      PROVE  WaitInv'
  <2>1. passes' = 0 => passes' <= Cardinality(Spent(Plan)')
    BY SpentFinite
  <2> QED BY <1>6, <2>1 DEF WaitInv
<1>7. CASE Selected(before) = {} /\ PassOver(before, NothingRan(before), 0)
  <2>1. \A t \in Threads : ~Eligible(before, t)
    BY <1>3, <1>7, NobodySelected
  <2>2. CallPlan(Plan)' /\ NobodyRuns' /\ passes' = 0
    BY <1>3, <1>7, <2>1, PassPublished
  <2> QED BY <1>6, <2>2 DEF Between
<1>8. ASSUME NEW t \in Selected(before),
             Ran(Advanced(Resumed(Switched(before, t)), t), t)
      PROVE  WaitInv'
  <2> PICK after : after = Advanced(Resumed(Switched(before, t)), t)
    OBVIOUS
  <2>1. /\ t \in Threads /\ Live(before.threads[t])
        /\ Outcome(before, after, t) /\ SoundPlan(after) /\ after.current = t
        /\ CallPlan(after)
    BY <1>3, SelectedEligible, SelectedOutcome
  <2> DEFINE runs == Live(after.threads[t]) /\ after.threads[t].context.call = "none"
             state == IF runs THEN "running" ELSE "waiting"
             again == MorePasses /\ NothingRan(after) # "exited"
  <2> PICK last : last = IF Live(after.threads[t])
                         THEN [after EXCEPT !.threads[t].state = state] ELSE after
    OBVIOUS
  <2>2. \/ runs /\ PassOver(last, "guest", 0)
        \/ ~runs /\ again /\ PassOver(last, "schedule", passes + 1)
        \/ ~runs /\ ~again /\ PassOver(last, NothingRan(after), 0)
    BY <1>8 DEF Ran
  <2>3. CallPlan(last) /\ last \in PlanType
    <3>1. state \in {"running", "waiting"}
      OBVIOUS
    <3> HIDE DEF state
    <3>2. CallPlan(last)
      BY <2>1, <3>1, LeftFits
    <3>3. last \in PlanType
      <4>1. after \in PlanType /\ after.threads[t] \in Record
        BY <2>1 DEF SoundPlan, PlanType
      <4>2. state \in ThreadState
        BY <3>1 DEF ThreadState
      <4>3. [after.threads[t] EXCEPT !.state = state] \in Record
        BY <4>1, <4>2 DEF Record
      <4> QED BY <2>1, <4>1, <4>3 DEF PlanType
    <3> QED BY <3>2, <3>3
  <2>4. ASSUME ~runs, NothingRan(after) # "exited"
        PROVE  /\ Spent(before) \cup {t} \subseteq Spent(last) /\ Stuck(last)
               /\ Cardinality(S \cup {t}) = Cardinality(S) + 1
    <3>1. PICK x \in Threads : Live(after.threads[x])
      BY <2>4 DEF NothingRan
    <3>2. last = Left(after, t)
      BY <2>4 DEF Left
    <3>3. /\ t \notin Spent(before) /\ Spent(before) \cup {t} \subseteq Spent(last)
          /\ Stuck(last)
      BY <2>1, <2>4, <3>1, <3>2, SpentGrows
    <3>4. t \notin S
      BY <1>5, <3>3
    <3> QED BY <1>5, <3>3, <3>4, FS_AddElement
  <2>5. CASE runs /\ PassOver(last, "guest", 0)
    <3>1. CallPlan(Plan)' /\ passes' = 0 /\ host' = "guest"
      BY <2>3, <2>5, PassPublished
    <3> QED BY <1>6, <3>1 DEF Between
  <2>6. CASE ~runs /\ again /\ PassOver(last, "schedule", passes + 1)
    <3>1. /\ CallPlan(Plan)' /\ passes' = passes + 1 /\ host' = "schedule"
          /\ Spent(Plan)' = Spent(last) /\ (Stuck(last) => Stuck(Plan)')
      BY <2>3, <2>6, PassPublished
    <3>2. /\ Spent(before) \cup {t} \subseteq Spent(last) /\ Stuck(last)
          /\ Cardinality(S \cup {t}) = Cardinality(S) + 1
      BY <2>4, <2>6
    <3>3. S \cup {t} \subseteq Spent(last)
      BY <1>5, <3>2
    <3>4. Cardinality(S \cup {t}) <= Cardinality(Spent(last))
      BY <3>3, SpentFinite, FS_Subset
    <3>5. Cardinality(Spent(last)) \in Nat
      BY SpentFinite
    <3>6. passes + 1 <= Cardinality(Spent(last))
      BY <1>1, <1>5, <3>2, <3>4, <3>5
    <3>7. Between' /\ passes' <= Cardinality(Spent(Plan)')
      BY <3>1, <3>2, <3>6 DEF Between
    <3> QED BY <1>6, <3>1, <3>7
  <2>7. CASE ~runs /\ ~again /\ PassOver(last, NothingRan(after), 0)
    <3>1. CallPlan(Plan)' /\ passes' = 0 /\ host' = NothingRan(after)
      BY <2>3, <2>7, PassPublished
    <3>2. NothingRan(after) = "exited"
      <4> SUFFICES ASSUME NothingRan(after) # "exited" PROVE FALSE
        OBVIOUS
      <4> DEFINE here == {u \in Threads : threads[u].state # "absent"}
      <4>1. ~(passes < Cardinality(here))
        BY <2>7 DEF MorePasses
      <4>2. t \in here
        BY <1>1, <1>3, <2>1 DEF SoundStep, Live
      <4>3. IsFiniteSet(here) /\ Cardinality(here) \in Nat
        BY SpentFinite, FS_Subset, FS_CardinalityType
      <4>4. Cardinality(S \cup {t}) <= Cardinality(here)
        BY <1>5, <4>2, <4>3, FS_Subset
      <4>5. Cardinality(S \cup {t}) = Cardinality(S) + 1
        BY <2>4, <2>7
      <4> HIDE DEF here
      <4> QED BY <1>1, <1>5, <4>1, <4>3, <4>4, <4>5
    <3> QED BY <1>6, <3>1, <3>2 DEF Between
  <2> QED BY <2>2, <2>5, <2>6, <2>7
<1> QED BY <1>7, <1>8 DEF Pass

-----------------------------------------------------------------------------
(* The guest's calls, between two schedules.                                *)

(* The host is in the guest only between two schedules.                     *)
LEMMA GuestIsBetween ==
    ASSUME WaitInv, host = "guest"
    PROVE  passes = 0
BY DEF WaitInv, Between, LockInv, IInv, TypeOK

(* A guest's call does not count as a pass, and does not end a schedule.    *)
LEMMA GuestWaits ==
    ASSUME WaitInv, LockInv', host = "guest", passes' = passes, host' # "waiting",
           CallPlan(Plan)'
    PROVE  WaitInv'
<1>1. passes' = 0
  BY GuestIsBetween
<1>2. passes' <= Cardinality(Spent(Plan)')
  BY <1>1, SpentFinite
<1> QED BY <1>1, <1>2 DEF WaitInv, Between

(* A step that writes only records that fit leaves all of them fitting.     *)
LEMMA CallsKept ==
    ASSUME WaitInv,
           \A u \in Threads : \/ threads'[u] = threads[u]
                              \/ Live(threads'[u]) => Fitting(threads'[u])
    PROVE  CallPlan(Plan)'
<1>1. CallPlan(Plan)
  BY DEF WaitInv
<1> QED BY <1>1 DEF CallPlan, Plan

(* The step writes one record.                                              *)
LEMMA CallKept ==
    ASSUME WaitInv, NEW t \in Threads, NEW r, threads' = [threads EXCEPT ![t] = r],
           Live(r) => Fitting(r)
    PROVE  CallPlan(Plan)'
<1>1. threads \in [Threads -> Record]
  BY DEF WaitInv, LockInv, IInv, TypeOK
<1>2. \A u \in Threads : \/ threads'[u] = threads[u]
                         \/ Live(threads'[u]) => Fitting(threads'[u])
  BY <1>1
<1> QED BY <1>2, CallsKept

(* What is known of a record.                                               *)
LEMMA LiveFits ==
    ASSUME WaitInv, NEW t \in Threads, Live(threads[t])
    PROVE  /\ Fitting(threads[t]) /\ Orderly(threads[t]) /\ threads[t] \in Record
           /\ threads[t].context \in Context /\ threads[t].phase \in Lifecycle
           /\ threads[t].frames \in Seq(Context)
           /\ SoundRecord(threads[t], t = current)
           /\ Held(threads[t]) = Share(loader, t)
<1>1. CallPlan(Plan) /\ LockPlan(Plan) /\ IInv
  BY DEF WaitInv, LockInv
<1>2. Fitting(threads[t])
  BY <1>1 DEF CallPlan, Plan
<1>3. Orderly(threads[t]) /\ Held(threads[t]) = Share(loader, t)
  BY <1>1 DEF LockPlan, Plan
<1>4. threads[t] \in Record /\ SoundRecord(threads[t], t = current)
  BY <1>1, RecordFacts
<1> QED BY <1>2, <1>3, <1>4 DEF Record

(* The thread that calls.                                                   *)
LEMMA CallerFits ==
    ASSUME WaitInv, host = "guest", required = NoThread
    PROVE  /\ current \in Threads /\ Live(threads[current])
           /\ threads[current].state = "running"
           /\ threads[current].context.call = "none"
           /\ Ready(threads[current])
           /\ passes = 0
BY GuestFacts, GuestIsBetween DEF WaitInv, LockInv, GuestReady

(* A new thread is in no call.                                              *)
LEMMA CreateThreadCalls ==
    ASSUME WaitInv, NEW suspended \in BOOLEAN, CreateThread(suspended)
    PROVE  CallPlan(Plan)'
<1> DEFINE id == lastId + 1
           record == [Absent EXCEPT !.state = IF suspended THEN "suspended" ELSE "runnable",
                                    !.suspends = IF suspended THEN 1 ELSE 0,
                                    !.parked = TRUE]
           dead == {t \in Threads : threads[t].state = "terminated"} \ {current}
<1>1. PICK kept \in SUBSET dead :
        LET here == {t \in Threads : Live(threads[t])} \cup {current} \cup kept IN
        threads' = [t \in Threads |->
            IF t = id THEN record ELSE IF t \in here THEN threads[t] ELSE Absent]
  BY DEF CreateThread
<1>2. Fitting(record) /\ ~Live(Absent)
  BY DEF Fitting, Live, Absent, Empty, NoPhase
<1> HIDE DEF record
<1>3. \A u \in Threads : \/ threads'[u] = threads[u]
                         \/ Live(threads'[u]) => Fitting(threads'[u])
  BY <1>1, <1>2
<1> QED BY <1>3, CallsKept

(* A suspended thread stays in the call it is in.                           *)
LEMMA SuspendThreadCalls ==
    ASSUME WaitInv, NEW t \in Threads, SuspendThread(t)
    PROVE  CallPlan(Plan)' /\ host' = host /\ passes' = passes
<1> DEFINE k == threads[t].suspends + 1
           r == [threads[t] EXCEPT !.suspends = k, !.state = "suspended"]
           n == IF t = current THEN t ELSE required
<1>1. Fitting(threads[t]) /\ threads[t] \in Record
  BY LiveFits DEF SuspendThread
<1>2. Complete([Plan EXCEPT !.threads[t] = r, !.required = n])
  BY <1>1 DEF SuspendThread, Record
<1> HIDE DEF k, n
<1>3. Fitting(r)
  <2>1. SameCall(threads[t], r) /\ r.state = "suspended"
    BY <1>1 DEF SameCall, Record
  <2> HIDE DEF r
  <2> QED BY <1>1, <2>1, SameCallFits
<1> HIDE DEF r
<1>4. threads' = [threads EXCEPT ![t] = r] /\ host' = host /\ passes' = passes
  BY <1>2, CompleteWrite
<1> QED BY <1>3, <1>4, CallKept

(* A parked thread in a call goes on waiting when it is resumed.            *)
LEMMA ResumeThreadCalls ==
    ASSUME WaitInv, NEW t \in Threads, ResumeThread(t)
    PROVE  CallPlan(Plan)' /\ host' = host /\ passes' = passes
<1> DEFINE old == threads[t]
           left == IF old.suspends = 0 THEN 0 ELSE old.suspends - 1
           woken == IF old.parked /\ old.context.call # "none" THEN "waiting" ELSE "runnable"
           state == IF left # 0 THEN "suspended"
                    ELSE IF old.suspends # 0 THEN woken ELSE old.state
           r == [old EXCEPT !.suspends = left, !.state = state]
<1>1. /\ Fitting(old) /\ old \in Record /\ Live(old)
      /\ SoundRecord(old, t = current)
  BY LiveFits DEF ResumeThread
<1>2. Complete([Plan EXCEPT !.threads[t] = r])
  BY DEF ResumeThread
<1>3. state = "runnable" => old.state = "runnable" \/ old.context.call = "none"
  BY <1>1 DEF SoundRecord
<1> HIDE DEF left, state
<1>4. SameCall(old, r) /\ r.state = state
  BY <1>1 DEF SameCall, Record
<1> HIDE DEF r, old
<1>5. Fitting(r)
  BY <1>1, <1>3, <1>4, SameCallFits
<1>6. threads' = [threads EXCEPT ![t] = r] /\ host' = host /\ passes' = passes
  BY <1>2 DEF Complete, Publish, Plan
<1> QED BY <1>5, <1>6, CallKept

(* A new priority changes nobody's call.                                    *)
LEMMA SetThreadPriorityCalls ==
    ASSUME WaitInv, NEW t \in Threads, NEW priority, SetThreadPriority(t, priority)
    PROVE  CallPlan(Plan)' /\ host' = host /\ passes' = passes
<1> DEFINE r == [threads[t] EXCEPT !.priority = priority]
<1>1. Fitting(threads[t]) /\ threads[t] \in Record
  BY LiveFits DEF SetThreadPriority
<1>2. Fitting(r)
  <2>1. SameCall(threads[t], r) /\ r.state = threads[t].state
    BY <1>1 DEF SameCall, Record
  <2> HIDE DEF r
  <2> QED BY <1>1, <2>1, SameCallFits
<1>3. Complete([Plan EXCEPT !.threads[t] = r])
  BY DEF SetThreadPriority, Plan
<1> HIDE DEF r
<1>4. threads' = [threads EXCEPT ![t] = r] /\ host' = host /\ passes' = passes
  BY <1>3 DEF Complete, Publish, Plan
<1> QED BY <1>2, <1>4, CallKept

(* The thread that yields is in no call.                                    *)
LEMMA SwitchToThreadCalls ==
    ASSUME WaitInv, SwitchToThread
    PROVE  CallPlan(Plan)' /\ host' = host /\ passes' = passes
<1> PICK p : p = Plan
  OBVIOUS
<1>1. /\ SoundPlan(p) /\ CallPlan(p) /\ Unhindered(p)
  <2>1. threads[current].context.call = "none"
    BY CallerFits DEF SwitchToThread, Call
  <2>2. p.threads = threads /\ p.current = current
    BY DEF Plan
  <2> QED BY <2>1, <2>2 DEF WaitInv, LockInv, IInv, Unhindered
<1>2. PICK t \in {u \in Threads \ {current} : Eligible(Plan, u)} :
        Complete([Switched(Plan, t) EXCEPT !.required = t])
  BY DEF SwitchToThread, NextThread
<1>3. /\ t \in Threads /\ Live(p.threads[t]) /\ p.threads[t].suspends = 0
  BY <1>2 DEF Eligible, Live
<1> PICK q : q = Switched(p, t)
  OBVIOUS
<1>4. CallPlan(q) /\ q \in PlanType
  BY <1>1, <1>3, SwitchedFits, SwitchedSound DEF SoundStep, SoundPlan
<1>5. threads' = q.threads /\ host' = host /\ passes' = passes
  BY <1>2, <1>4 DEF Complete, Publish, PlanType
<1> QED BY <1>4, <1>5 DEF CallPlan, Plan

(* Only detach callbacks are outside of the class of programs.              *)
LEMMA BlockCalls ==
    ASSUME WaitInv, Block, "BlockInDetach" \notin Calls
    PROVE  CallPlan(Plan)' /\ passes' = passes /\ host = "guest" /\ host' = "schedule"
<1> DEFINE old == threads[current]
           r == [old EXCEPT !.context.call = "blocked"]
<1>1. /\ host = "guest" /\ required = NoThread /\ old.phase.reason # "detach"
  BY DEF Block, Call
<1>2. /\ current \in Threads /\ Live(old) /\ old.state = "running" /\ Ready(old)
      /\ Fitting(old) /\ old \in Record /\ old.context \in Context
  BY <1>1, CallerFits, LiveFits
<1>3. /\ r.state = "running" /\ r.context.call = "blocked" /\ r.phase = old.phase
      /\ r.frames = old.frames /\ r.started = old.started /\ r.leaving = old.leaving
  BY <1>2 DEF Record, Context
<1>4. /\ threads' = [threads EXCEPT ![current] = r] /\ passes' = passes
      /\ host' = "schedule"
  BY DEF Block
<1> HIDE DEF r
<1>5. Fitting(r)
  BY <1>1, <1>2, <1>3 DEF Fitting, Ready
<1> QED BY <1>1, <1>2, <1>4, <1>5, CallKept

(* A LoadLibrary that waits is not made in a callback: the phase holds the  *)
(* lock.                                                                    *)
LEMMA LoadLibraryCalls ==
    ASSUME WaitInv, LoadLibrary
    PROVE  /\ CallPlan(Plan)' /\ passes' = passes /\ host = "guest"
           /\ host' \in {"guest", "schedule"}
<1> DEFINE old == threads[current]
<1>1. /\ host = "guest" /\ required = NoThread
  BY DEF LoadLibrary, Call
<1>2. /\ current \in Threads /\ Live(old) /\ old.state = "running" /\ Ready(old)
      /\ old.context.call = "none"
      /\ Fitting(old) /\ old \in Record /\ old.context \in Context /\ Orderly(old)
      /\ Held(old) = Share(loader, current) /\ old.context.loads \in Nat
  BY <1>1, CallerFits, LiveFits DEF Context
<1>3. CASE LoaderOpen(loader, current)
  <2> DEFINE n == old.context.loads + 1
             r == [old EXCEPT !.context.loads = n]
  <2>1. Complete(AcquireLoader([Plan EXCEPT !.threads[current] = r], current))
    BY <1>2, <1>3 DEF LoadLibrary, Plan
  <2> HIDE DEF n
  <2>2. /\ r.state = old.state /\ r.context.call = "none" /\ r.phase = old.phase
        /\ r.frames = old.frames /\ r.started = old.started /\ r.leaving = old.leaving
    BY <1>2 DEF Record, Context
  <2> HIDE DEF r
  <2>3. Fitting(r)
    BY <1>2, <2>2 DEF Fitting
  <2>4. /\ threads' = [threads EXCEPT ![current] = r] /\ host' = host
        /\ passes' = passes
    BY <2>1 DEF Complete, Publish, AcquireLoader, Plan
  <2> QED BY <1>1, <1>2, <2>3, <2>4, CallKept
<1>4. CASE ~LoaderOpen(loader, current)
  <2> DEFINE r == [old EXCEPT !.context.call = "loader"]
  <2>1. /\ threads' = [threads EXCEPT ![current] = r] /\ passes' = passes
        /\ host' = "schedule"
    BY <1>4 DEF LoadLibrary
  <2>2. /\ r.state = "running" /\ r.context.call = "loader" /\ r.phase = old.phase
        /\ r.frames = old.frames /\ r.started = old.started /\ r.leaving = old.leaving
    BY <1>2 DEF Record, Context
  <2>3. old.phase.reason = "none"
    <3>1. Held(old) = 0
      BY <1>2, <1>4 DEF LoaderOpen, Share
    <3> QED BY <1>2, <3>1 DEF Held
  <2>4. ~old.phase.active /\ old.started /\ ~old.leaving
    BY <1>2, <2>3 DEF Orderly, NoPhase, Ready
  <2> HIDE DEF r
  <2>5. Fitting(r)
    BY <1>2, <2>2, <2>3, <2>4 DEF Fitting
  <2> QED BY <1>1, <1>2, <2>1, <2>5, CallKept
<1> QED BY <1>3, <1>4

(* The load that ends changes nobody's call.                                *)
LEMMA FinishLoadCalls ==
    ASSUME WaitInv, FinishLoad
    PROVE  CallPlan(Plan)' /\ host' = host /\ passes' = passes
<1> DEFINE old == threads[current]
           n == old.context.loads - 1
           r == [old EXCEPT !.context.loads = n]
<1>1. /\ host = "guest" /\ required = NoThread
      /\ Complete(ReleaseLoader([Plan EXCEPT !.threads[current] = r]))
  BY DEF FinishLoad, Call, Plan
<1>2. /\ current \in Threads /\ Fitting(old) /\ old \in Record /\ old.context \in Context
  BY <1>1, CallerFits, LiveFits
<1> HIDE DEF n
<1>3. /\ r.state = old.state /\ r.context.call = old.context.call /\ r.phase = old.phase
      /\ r.frames = old.frames /\ r.started = old.started /\ r.leaving = old.leaving
  BY <1>2 DEF Record, Context
<1> HIDE DEF r
<1>4. Fitting(r)
  BY <1>2, <1>3 DEF Fitting
<1>5. /\ threads' = [threads EXCEPT ![current] = r] /\ host' = host /\ passes' = passes
  BY <1>1 DEF Complete, Publish, ReleaseLoader, Plan
<1> QED BY <1>2, <1>4, <1>5, CallKept

(* The call under an attach callback is none: the phase came first.         *)
LEMMA ReturnCallbackCalls ==
    ASSUME WaitInv, ReturnCallback
    PROVE  CallPlan(Plan)' /\ passes' = passes /\ host = "guest" /\ host' = "schedule"
<1> DEFINE old == threads[current]
           under == old.frames[Len(old.frames)]
           below == SubSeq(old.frames, 1, Len(old.frames) - 1)
           calls == old.phase.calls - 1
           phase == [old.phase EXCEPT !.calls = calls, !.active = FALSE]
           state == IF under.call = "none" THEN "running" ELSE "waiting"
           r == [old EXCEPT !.context = under, !.frames = below,
                            !.state = state, !.phase = phase]
<1>1. /\ host = "guest" /\ required = NoThread /\ old.frames # <<>>
      /\ threads' = [threads EXCEPT ![current] = r]
      /\ passes' = passes /\ host' = "schedule"
  BY DEF ReturnCallback
<1>2. /\ current \in Threads /\ Live(old) /\ Fitting(old) /\ Orderly(old)
      /\ old \in Record /\ old.phase \in Lifecycle /\ old.frames \in Seq(Context)
  BY <1>1, CallerFits, LiveFits
<1> DEFINE last == Len(old.frames)
<1>3. /\ last \in DOMAIN old.frames
      /\ \A i \in DOMAIN below : i \in DOMAIN old.frames /\ below[i] = old.frames[i]
  BY <1>1, <1>2
<1>4. /\ old.phase.reason = "attach" => under.call = "none"
      /\ old.phase.reason = "attach" => \A i \in DOMAIN below : below[i].call = "none"
  BY <1>2, <1>3 DEF Fitting
<1>5. old.phase.reason \in {"attach", "detach"}
  BY <1>1, <1>2 DEF Orderly, Lifecycle
<1>6. phase.reason = old.phase.reason /\ phase.active = FALSE
  BY <1>2 DEF Lifecycle
<1> HIDE DEF under, below, state, phase
<1>7. /\ r.context = under /\ r.frames = below /\ r.state = state /\ r.phase = phase
      /\ r.started = old.started /\ r.leaving = old.leaving
  BY <1>2 DEF Record
<1> HIDE DEF r
<1>8. state # "runnable"
  BY DEF state
<1>9. Fitting(r)
  BY <1>2, <1>4, <1>5, <1>6, <1>7, <1>8 DEF Fitting
<1> QED BY <1>1, <1>2, <1>9, CallKept

(* The thread that leaves is in the call until its callbacks run.           *)
LEMMA ExitThreadCalls ==
    ASSUME WaitInv, ExitThread, "ExitInDetach" \notin Calls
    PROVE  /\ CallPlan(Plan)' /\ passes' = passes /\ host = "guest"
           /\ host' \in {"guest", "schedule", "exited"}
<1> DEFINE old == threads[current]
           phase == IF old.phase.reason # "attach" THEN old.phase
                    ELSE [reason |-> "detach", calls |-> 0, active |-> FALSE,
                          prepared |-> FALSE]
           r == [old EXCEPT !.leaving = TRUE, !.context.call = "exit", !.phase = phase]
           asked == [Plan EXCEPT !.threads[current] = r]
           stopped == [asked EXCEPT !.threads[current].state = "waiting"]
           exited == Advanced(asked, current)
<1>1. /\ host = "guest" /\ required = NoThread /\ passes' = passes
      /\ old.phase.reason # "detach"
  BY DEF ExitThread, Call
<1>2. /\ current \in Threads /\ Live(old) /\ old.state = "running" /\ Fitting(old)
      /\ Orderly(old) /\ old \in Record /\ old.context \in Context
      /\ old.phase \in Lifecycle /\ old.suspends = 0
  <2>1. old.suspends = 0
    BY <1>1, GuestFacts DEF WaitInv, LockInv
  <2> QED BY <1>1, <2>1, CallerFits, LiveFits
<1>3. /\ Plan \in PlanType /\ Plan.threads = threads /\ Plan.current = current
      /\ SoundPlan(Plan)
  BY DEF WaitInv, LockInv, IInv, SoundPlan, Plan
<1>4. /\ ~LoaderOpen(loader, current) =>
            /\ Publish([stopped EXCEPT !.required = current]) /\ host' = "schedule"
      /\ LoaderOpen(loader, current) =>
            \/ Publish(exited) /\ host' \in {"exited", host}
            \/ Publish([exited EXCEPT !.required = current]) /\ host' = "schedule"
  BY DEF ExitThread
<1>5. /\ phase \in Lifecycle /\ phase.active = FALSE /\ phase.reason # "attach"
      /\ phase.reason = "none" => old.phase.reason = "none"
  BY <1>1, <1>2 DEF Lifecycle, Orderly, NoPhase
<1> HIDE DEF phase
<1>6. /\ r \in Record /\ r.state = "running" /\ r.leaving = TRUE
      /\ r.phase = phase /\ r.frames = old.frames
      /\ r.suspends = 0 /\ r.parked = old.parked
  <2> DEFINE context == [old.context EXCEPT !.call = "exit"]
  <2>1. context \in Context
    BY <1>2 DEF Context, CallStates
  <2>2. r = [old EXCEPT !.leaving = TRUE, !.context = context, !.phase = phase]
    BY <1>2 DEF Record
  <2> HIDE DEF context, r
  <2> QED BY <1>2, <1>5, <2>1, <2>2 DEF Record
<1> HIDE DEF r
<1>7. Fitting(r) /\ Live(r) /\ (r.phase.reason = "none" => r.frames = <<>>) /\ Going(r)
  BY <1>2, <1>5, <1>6 DEF Fitting, Live, Orderly, Going
<1>8. /\ asked \in PlanType /\ asked.threads[current] = r
      /\ \A u \in Threads \ {current} : asked.threads[u] = threads[u]
  BY <1>2, <1>3, <1>6 DEF PlanType
<1>9. CASE ~LoaderOpen(loader, current)
  <2>1. threads' = [asked.threads EXCEPT ![current].state = "waiting"]
    BY <1>4, <1>8, <1>9 DEF Publish, PlanType
  <2>2. /\ SameCall(r, threads'[current]) /\ threads'[current].state = "waiting"
        /\ \A u \in Threads \ {current} : threads'[u] = threads[u]
    BY <1>2, <1>6, <1>8, <2>1 DEF SameCall, Record, PlanType
  <2>3. Fitting(threads'[current])
    BY <1>7, <2>2, SameCallFits
  <2>4. \A u \in Threads : \/ threads'[u] = threads[u]
                           \/ Live(threads'[u]) => Fitting(threads'[u])
    BY <2>2, <2>3
  <2> QED BY <1>1, <1>4, <1>9, <2>4, CallsKept
<1> PICK q : q = exited
  OBVIOUS
<1> HIDE DEF asked
<1>10. CASE LoaderOpen(loader, current)
  <2>1. Ended(asked, q, current) /\ (Live(q.threads[current]) => Fitting(q.threads[current]))
    BY <1>2, <1>7, <1>8, AdvancedParts
  <2>2. \A u \in Threads : \/ q.threads[u] = threads[u]
                           \/ Live(q.threads[u]) => Fitting(q.threads[u])
    BY <1>8, <2>1 DEF Ended
  <2>3. threads' = q.threads /\ host' \in {"exited", host, "schedule"}
    <3>1. \/ Publish(q) /\ host' \in {"exited", host}
          \/ Publish([q EXCEPT !.required = current]) /\ host' = "schedule"
      BY <1>4, <1>10
    <3>2. SoundPlan(asked) /\ asked.current = current
      BY <1>2, <1>3, <1>6, PutDetail DEF StaysOn, SoundStep, asked
    <3>3. q \in PlanType
      BY <1>2, <1>6, <1>7, <1>8, <3>2, AdvancedSound DEF SoundStep, SoundPlan
    <3> QED BY <3>1, <3>3 DEF Publish, PlanType
  <2>4. \A u \in Threads : \/ threads'[u] = threads[u]
                           \/ Live(threads'[u]) => Fitting(threads'[u])
    BY <2>2, <2>3
  <2> QED BY <1>1, <2>3, <2>4, CallsKept
<1> QED BY <1>9, <1>10

(* The thread that is terminated is in no call any more.                    *)
LEMMA TerminateThreadCalls ==
    ASSUME WaitInv, NEW t \in Threads, TerminateThread(t)
    PROVE  /\ CallPlan(Plan)' /\ passes' = passes /\ host = "guest"
           /\ host' \in {"guest", "schedule", "exited"}
<1>1. /\ host = "guest" /\ SoundPlan(Plan) /\ Live(Plan.threads[t])
      /\ Plan.threads = threads /\ passes' = passes
  BY DEF TerminateThread, Call, WaitInv, LockInv, IInv, Plan
<1> PICK R : R = Retired(Plan)
  OBVIOUS
<1> PICK T : T = Terminated(Plan, t)
  OBVIOUS
<1>2. /\ \A u \in Threads : ~Live(R.threads[u])
      /\ T \in PlanType /\ ~Live(T.threads[t])
      /\ \A u \in Threads \ {t} : T.threads[u] = threads[u]
  BY <1>1, RetiredSound, TerminatedSound DEF SoundStep, SoundPlan
<1>3. \/ Publish(R) /\ host' = "exited"
      \/ Publish([T EXCEPT !.required = t]) /\ host' = "schedule"
      \/ Publish(T) /\ host' = host
  BY DEF TerminateThread
<1>4. threads' \in {R.threads, T.threads} /\ host' \in {"guest", "schedule", "exited"}
  BY <1>1, <1>2, <1>3 DEF Publish, PlanType
<1>5. \A u \in Threads : \/ threads'[u] = threads[u]
                         \/ Live(threads'[u]) => Fitting(threads'[u])
  BY <1>2, <1>4
<1> QED BY <1>1, <1>4, <1>5, CallsKept

(* An answer to a blocked call comes too late for the schedule that is over *)
(* and makes no thread runnable.                                            *)
LEMMA AnswerWaits ==
    ASSUME WaitInv, LockInv', NEW t \in Threads, Answer(t)
    PROVE  WaitInv'
<1> DEFINE r == [threads[t] EXCEPT !.context.call = "answered"]
<1>1. /\ threads' = [threads EXCEPT ![t] = r] /\ loader' = loader /\ host' = host
      /\ passes = 0 /\ passes' = 0 /\ threads[t].context.call = "blocked"
  BY DEF Answer
<1>2. /\ threads[t] \in Record /\ threads[t].context \in Context
      /\ threads \in [Threads -> Record]
  BY RecordFacts DEF WaitInv, LockInv, Record
<1>3. /\ r.state = threads[t].state /\ r.context.call = "answered"
      /\ r.phase = threads[t].phase /\ r.frames = threads[t].frames
      /\ r.started = threads[t].started /\ r.leaving = threads[t].leaving
  BY <1>2 DEF Record, Context
<1> HIDE DEF r
<1>4. Live(threads[t]) => Fitting(threads[t])
  BY LiveFits
<1>5. Live(r) => Fitting(r)
  BY <1>1, <1>3, <1>4 DEF Fitting, Live
<1>6. r.state # "runnable"
  BY <1>1, <1>3, <1>4 DEF Fitting, Live
<1>7. NobodyRuns => NobodyRuns'
  <2> SUFFICES ASSUME NEW u \in Threads, threads'[u].state = "runnable", Eligible(Plan, u)'
               PROVE  threads[u].state = "runnable" /\ Eligible(Plan, u)
    BY DEF NobodyRuns
  <2>1. threads'[u] = threads[u]
    BY <1>1, <1>2, <1>6
  <2> QED BY <1>1, <2>1 DEF Eligible, SavedReady, Plan
<1>8. CallPlan(Plan)'
  BY <1>1, <1>5, CallKept
<1>9. passes' <= Cardinality(Spent(Plan)')
  BY <1>1, SpentFinite
<1> QED BY <1>1, <1>7, <1>8, <1>9 DEF WaitInv, Between

(* The primary thread runs, in no call.                                     *)
LEMMA InitWaits ==
    ASSUME Init
    PROVE  WaitInv
<1>1. Fitting(Primary) /\ ~Live(Absent)
  BY DEF Fitting, Primary, Absent, Live, Empty, NoPhase
<1>2. CallPlan(Plan)
  BY <1>1 DEF CallPlan, Plan, Init
<1>3. 0 <= Cardinality(Spent(Plan))
  BY SpentFinite
<1> QED BY <1>2, <1>3, InitLocked DEF WaitInv, Between, Init

(* What a program may do in its detach callbacks: nothing that takes time,  *)
(* and no second exit.                                                      *)
QuickDetach == Calls \cap {"BlockInDetach", "ExitInDetach"} = {}

(* Every step keeps the invariant, one case per action of Next.             *)
LEMMA NextWaits ==
    ASSUME QuickDetach, WaitInv, [Next]_vars
    PROVE  WaitInv'
<1>0. LockInv'
  BY NextLocked DEF WaitInv
<1>1. CASE UNCHANGED vars
  BY <1>0, <1>1 DEF vars, WaitInv, CallPlan, Plan, Between, Stuck, NobodyRuns, Spent,
                    Eligible, SavedReady
<1>2. ASSUME CallPlan(Plan)', passes' = passes, host = "guest",
             host' \in {"guest", "schedule", "exited"}
      PROVE  WaitInv'
  BY <1>0, <1>2, GuestWaits
<1>3. ASSUME NEW suspended \in BOOLEAN, CreateThread(suspended) PROVE WaitInv'
  <2>1. host = "guest" /\ host' = host /\ passes' = passes
    BY <1>3 DEF CreateThread, Call
  <2> QED BY <1>2, <1>3, <2>1, CreateThreadCalls
<1>4. ASSUME NEW t \in Threads, SuspendThread(t) \/ ResumeThread(t) PROVE WaitInv'
  <2>1. host = "guest"
    BY <1>4 DEF SuspendThread, ResumeThread, Call
  <2> QED BY <1>2, <1>4, <2>1, SuspendThreadCalls, ResumeThreadCalls
<1>5. ASSUME NEW t \in Threads, TerminateThread(t) PROVE WaitInv'
  BY <1>2, <1>5, TerminateThreadCalls
<1>6. ASSUME NEW t \in Threads, NEW priority \in Priorities,
             SetThreadPriority(t, priority)
      PROVE  WaitInv'
  <2>1. host = "guest"
    BY <1>6 DEF SetThreadPriority, Call
  <2> QED BY <1>2, <1>6, <2>1, SetThreadPriorityCalls
<1>7. ASSUME SwitchToThread PROVE WaitInv'
  <2>1. host = "guest"
    BY <1>7 DEF SwitchToThread, Call
  <2> QED BY <1>2, <1>7, <2>1, SwitchToThreadCalls
<1>8. ASSUME Block PROVE WaitInv'
  BY <1>2, <1>8, BlockCalls DEF QuickDetach
<1>9. ASSUME LoadLibrary PROVE WaitInv'
  BY <1>2, <1>9, LoadLibraryCalls
<1>10. ASSUME FinishLoad PROVE WaitInv'
  <2>1. host = "guest"
    BY <1>10 DEF FinishLoad, Call
  <2> QED BY <1>2, <1>10, <2>1, FinishLoadCalls
<1>11. ASSUME ReturnCallback PROVE WaitInv'
  BY <1>2, <1>11, ReturnCallbackCalls
<1>12. ASSUME ExitThread PROVE WaitInv'
  BY <1>2, <1>12, ExitThreadCalls DEF QuickDetach
<1>13. ASSUME Pass PROVE WaitInv'
  BY <1>0, <1>13, PassWaits
<1>14. ASSUME NEW t \in Threads, Answer(t) PROVE WaitInv'
  BY <1>0, <1>14, AnswerWaits
<1> QED BY <1>1, <1>3, <1>4, <1>5, <1>6, <1>7, <1>8, <1>9, <1>10, <1>11, <1>12,
           <1>13, <1>14 DEF Next, Guest

(* A schedule that reports that there is nothing but waiting is right: its  *)
(* loop makes one pass per thread and one more (0 ..= threads.len()), and   *)
(* that is enough for every thread that could run to be found, whatever the *)
(* passes end, open or find taken, unless a detach callback blocks or exits *)
(* again.                                                                   *)
THEOREM WaitingIsTruthful ==
    ASSUME QuickDetach PROVE Spec => WaitingMeansNobodyCanRun
<1>1. Init => WaitInv
  BY InitWaits
<1>2. WaitInv /\ [Next]_vars => WaitInv'
  BY NextWaits
<1>3. WaitInv' => (host' = "waiting" => \A t \in Threads :
          ~(threads[t].state = "runnable" /\ Eligible(Plan, t))')
  BY DEF WaitInv, NobodyRuns
<1>4. WaitInv /\ [Next]_vars =>
        [host' = "waiting" => \A t \in Threads :
            ~(threads[t].state = "runnable" /\ Eligible(Plan, t))']_vars
  BY <1>2, <1>3
<1> QED BY <1>1, <1>2, <1>4, PTL DEF Spec, WaitingMeansNobodyCanRun
=============================================================================
