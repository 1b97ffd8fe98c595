-------------------------- MODULE DispatcherProofs --------------------------
(***************************************************************************)
(* Proofs about Dispatcher.  The modules of the dispatcher are large, so   *)
(* is the argument; it has these layers:                                   *)
(*                                                                         *)
(*   - what resolve_waiters does to a plan: the recursion over wait ids is *)
(*     reasoned about by its least counterexample;                         *)
(*   - handles and the objects they name (ObjectInv);                      *)
(*   - plans that may be committed (SoundPlan), and that each projection   *)
(*     of the code keeps them so;                                          *)
(*   - waits and the calls that wait for them (WaitInv);                   *)
(*   - callbacks and the three lists that know of them (QueueInv);         *)
(*   - what a step may do to results, and that it leaves every undecided   *)
(*     wait settled and its handles open (Steady, NInv);                   *)
(*   - one lemma for every operation: it keeps IInv, the conjunction, and  *)
(*     is steady;                                                          *)
(*   - what calls say of callbacks (TruthInv);                             *)
(*   - whom a pass serves and what it takes for them (Ledger, Served), and *)
(*     that every step serves its waits so (Serves);                       *)
(*   - the theorems.                                                       *)
(***************************************************************************)
EXTENDS Dispatcher, FiniteSetTheorems, SequenceTheorems, WellFoundedInduction, TLAPS

(* The order of the numbers, as a set of pairs.                            *)
Less == {ss \in Nat \X Nat : ss[1] < ss[2]}

(* The order of the numbers has no endless descent.                        *)
LEMMA LessIsWellFounded == IsWellFoundedOn(Less, Nat)
  BY NatLessThanWellFounded, Zenon DEF OpToRel, Less

(* A set of numbers that is not empty has a least one.                     *)
LEMMA LeastNumber ==
    ASSUME NEW S, S \subseteq Nat, S # {}
    PROVE  \E m \in S : \A k \in S : m <= k
<1>1. PICK m \in S : \A k \in S : <<k, m>> \notin Less
  BY LessIsWellFounded, WFMin
<1>2. ASSUME NEW k \in S PROVE m <= k
  <2>1. ~(k < m)
    BY <1>1 DEF Less
  <2> QED  BY <2>1
<1> QED  BY <1>2

(* The plans of a resolution that has looked at the waits up to n.         *)
Passes(f, p, n, t) ==
    f = [id \in 0 .. n |-> IF id = 0 THEN p ELSE ResolveOne(f[id - 1], id, t)]

(* There are such plans, wait by wait.                                     *)
LEMMA PassesExist ==
    ASSUME NEW p, NEW t, NEW n \in Nat
    PROVE  \E f : Passes(f, p, n, t)
<1> DEFINE Bad == {k \in Nat : ~ \E f : Passes(f, p, k, t)}
<1>1. SUFFICES ASSUME Bad # {} PROVE FALSE
  OBVIOUS
<1>2. PICK m \in Bad : \A k \in Bad : m <= k
  BY <1>1, LeastNumber
<1>3. CASE m = 0
  <2>1. Passes([id \in 0 .. 0 |-> p], p, 0, t)
    BY DEF Passes
  <2> QED  BY <1>2, <1>3, <2>1
<1>4. CASE m # 0
  <2>1. m - 1 \in Nat /\ m - 1 \notin Bad
    BY <1>2, <1>4
  <2>2. PICK f : Passes(f, p, m - 1, t)
    BY <2>1
  <2> DEFINE g == [id \in 0 .. m |-> IF id = m THEN ResolveOne(f[m - 1], m, t) ELSE f[id]]
  <2>3. \A id \in 0 .. m : g[id] = IF id = 0 THEN p ELSE ResolveOne(g[id - 1], id, t)
    <3>1. ASSUME NEW id \in 0 .. m PROVE g[id] = IF id = 0 THEN p ELSE ResolveOne(g[id - 1], id, t)
      <4>1. CASE id = m
        BY <4>1, <1>4, <2>1
      <4>2. CASE id # m
        <5>1. id \in 0 .. (m - 1) /\ (id # 0 => id - 1 \in 0 .. (m - 1) /\ id - 1 # m /\ id - 1 \in 0 .. m)
          BY <4>2, <2>1, <1>2
        <5>2. f[id] = IF id = 0 THEN p ELSE ResolveOne(f[id - 1], id, t)
          BY <5>1, <2>2 DEF Passes
        <5> QED  BY <4>2, <5>1, <5>2
      <4> QED  BY <4>1, <4>2
    <3> QED  BY <3>1
  <2>4. Passes(g, p, m, t)
    BY <2>3 DEF Passes
  <2> QED  BY <1>2, <2>4
<1> QED  BY <1>3, <1>4

(* What holds of a plan and is kept by the decision of each wait holds     *)
(* after the pass over all waits: G[id] are the plans that may be reached  *)
(* when wait id has been looked at.                                        *)
LEMMA ResolveInduction ==
    ASSUME NEW p, NEW t, NEW last \in Nat, NEW G, p \in G[0],
           \A id \in 1 .. last : \A q \in G[id - 1] : ResolveOne(q, id, t) \in G[id]
    PROVE  ResolveWaiters(p, last, t) \in G[last]
<1> DEFINE f == CHOOSE f : Passes(f, p, last, t)
<1>1. Passes(f, p, last, t)
  BY PassesExist
<1>2. ResolveWaiters(p, last, t) = f[last]
  BY DEF ResolveWaiters, Passes
<1> HIDE DEF f
<1>3. /\ f[0] = p
      /\ \A id \in 1 .. last : f[id] = ResolveOne(f[id - 1], id, t)
  <2>1. \A id \in 0 .. last : f[id] = IF id = 0 THEN p ELSE ResolveOne(f[id - 1], id, t)
    BY <1>1 DEF Passes
  <2>2. 0 \in 0 .. last /\ \A id \in 1 .. last : id \in 0 .. last /\ id # 0
    OBVIOUS
  <2> QED  BY <2>1, <2>2
<1> DEFINE Bad == {k \in 0 .. last : f[k] \notin G[k]}
<1>4. Bad = {}
  <2>1. SUFFICES ASSUME Bad # {} PROVE FALSE
    OBVIOUS
  <2>2. PICK m \in Bad : \A k \in Bad : m <= k
    <3>1. Bad \subseteq Nat
      OBVIOUS
    <3> QED  BY <2>1, <3>1, LeastNumber
  <2>3. m # 0
    BY <2>2, <1>3
  <2>4. m \in 1 .. last /\ m - 1 \in 0 .. last /\ m - 1 \notin Bad
    BY <2>2, <2>3
  <2>5. f[m] \in G[m]
    BY <2>4, <1>3
  <2> QED  BY <2>2, <2>5
<1> QED  BY <1>2, <1>4

(* The kind of an object follows from its type.                            *)
LEMMA Kinds ==
    ASSUME NEW o \in ObjectKind
    PROVE  /\ o.type \in {"free", "event", "mutex", "semaphore", "thread", "timer"}
           /\ o.type = "free" => o = Free
           /\ o.type = "event" => o \in EventKind
           /\ o.type = "mutex" => o \in MutexKind
           /\ o.type = "semaphore" => o \in SemaphoreKind
           /\ o.type = "thread" => o \in ThreadKind
           /\ o.type = "timer" => o \in TimerKind
<1>1. CASE o = Free
  BY <1>1 DEF Free
<1>2. CASE o \in EventKind
  BY <1>2 DEF EventKind
<1>3. CASE o \in MutexKind
  BY <1>3 DEF MutexKind
<1>4. CASE o \in SemaphoreKind
  BY <1>4 DEF SemaphoreKind
<1>5. CASE o \in ThreadKind
  BY <1>5 DEF ThreadKind
<1>6. CASE o \in TimerKind
  BY <1>6 DEF TimerKind
<1> QED  BY <1>1, <1>2, <1>3, <1>4, <1>5, <1>6 DEF ObjectKind

(* What the parts of a mutex and of a timer are, and how they are put      *)
(* together.                                                               *)
LEMMA MutexParts ==
    /\ \A o \in MutexKind : /\ o.type = "mutex" /\ o.owner \in Threads \cup {NoThread}
                            /\ o.depth \in Nat /\ o.abandoned \in BOOLEAN
    /\ \A owner \in Threads \cup {NoThread}, depth \in Nat, abandoned \in BOOLEAN :
           [type |-> "mutex", owner |-> owner, depth |-> depth, abandoned |-> abandoned]
               \in MutexKind
    /\ \A o \in MutexKind : o \in ObjectKind
  BY DEF MutexKind, ObjectKind

(* What a wait takes of an object.                                         *)
LEMMA ConsumeKind ==
    ASSUME NEW o \in ObjectKind, NEW t \in Threads,
           o.type = "semaphore" => o.count # 0
    PROVE  /\ Consume(o, t) \in ObjectKind /\ Consume(o, t).type = o.type
           /\ o.type = "mutex" =>
                 /\ Consume(o, t).owner = t /\ Consume(o, t).depth = o.depth + 1
                 /\ Consume(o, t).abandoned = FALSE
           /\ o.type = "semaphore" => /\ Consume(o, t).count = o.count - 1
                                      /\ Consume(o, t).maximum = o.maximum
           /\ o.type \notin {"mutex", "semaphore"} => Consume(o, t) = o
<1>1. CASE o.type = "mutex"
  <2>1. o \in MutexKind
    BY <1>1, Kinds
  <2>2. Consume(o, t) = [o EXCEPT !.owner = t, !.depth = @ + 1, !.abandoned = FALSE]
    BY <1>1 DEF Consume
  <2>3. Consume(o, t) = [type |-> "mutex", owner |-> t, depth |-> o.depth + 1, abandoned |-> FALSE]
    BY <2>1, <2>2 DEF MutexKind
  <2>4. Consume(o, t) \in MutexKind
    BY <2>1, <2>3 DEF MutexKind
  <2> QED  BY <1>1, <2>3, <2>4 DEF ObjectKind
<1>2. CASE o.type = "semaphore"
  <2>1. o \in SemaphoreKind
    BY <1>2, Kinds
  <2>2. Consume(o, t) = [o EXCEPT !.count = @ - 1]
    BY <1>2 DEF Consume
  <2>3. Consume(o, t) = [type |-> "semaphore", count |-> o.count - 1, maximum |-> o.maximum]
    BY <2>1, <2>2 DEF SemaphoreKind
  <2>4. Consume(o, t) \in SemaphoreKind
    BY <2>1, <2>3, <1>2 DEF SemaphoreKind
  <2> QED  BY <1>2, <2>3, <2>4 DEF ObjectKind
<1>3. CASE o.type \notin {"mutex", "semaphore"}
  <2>1. Consume(o, t) = o
    BY <1>3 DEF Consume
  <2> QED  BY <1>3, <2>1
<1> QED  BY <1>1, <1>2, <1>3

-----------------------------------------------------------------------------
(* Plans.                                                                  *)

(* The plans whose table has the waits D.                                  *)
Plans(D) == [objects : [Slots -> ObjectKind], signaled : SUBSET Slots, waits : [D -> WaitRecord]]

(* A wait names as many slots as handles, and no more than 64.             *)
Fits(w) == DOMAIN w.slots = DOMAIN w.handles /\ Len(w.slots) <= 64

(* The parts of a wait.                                                    *)
LEMMA WaitParts ==
    ASSUME NEW w \in WaitRecord
    PROVE  /\ w.thread \in Threads /\ w.handles \in Seq(Nat) /\ w.slots \in Seq(Slots)
           /\ w.mode \in {"any", "all", "sleep"} /\ w.deadline \in Nat \cup {Never}
           /\ w.alertable \in BOOLEAN /\ w.result \in Results
           /\ DOMAIN w.slots \subseteq Nat /\ DOMAIN w.slots = 1 .. Len(w.slots)
           /\ Len(w.slots) \in Nat
           /\ \A i \in DOMAIN w.slots : w.slots[i] \in Slots
  BY DEF WaitRecord

(* A satisfied wait for any object finds the first one that is ready.      *)
LEMMA FirstReadyIsReady ==
    ASSUME NEW p, NEW w \in WaitRecord, w.mode = "any", Satisfied(p, w)
    PROVE  /\ FirstReady(p, w) \in DOMAIN w.slots
           /\ Ready(p, w.slots[FirstReady(p, w)], w.thread)
           /\ \A j \in 1 .. (FirstReady(p, w) - 1) : ~Ready(p, w.slots[j], w.thread)
<1> DEFINE S == {i \in DOMAIN w.slots : Ready(p, w.slots[i], w.thread)}
<1>1. S \subseteq Nat
  BY WaitParts
<1>2. S # {}
  BY DEF Satisfied
<1>3. PICK m \in S : \A k \in S : m <= k
  BY <1>1, <1>2, LeastNumber
<1>4. m \in DOMAIN w.slots /\ Ready(p, w.slots[m], w.thread)
  BY <1>3
<1>5. ASSUME NEW j \in 1 .. (m - 1) PROVE ~Ready(p, w.slots[j], w.thread)
  <2>1. m \in Nat /\ m <= Len(w.slots) /\ DOMAIN w.slots = 1 .. Len(w.slots) /\ Len(w.slots) \in Nat
    BY <1>4, WaitParts
  <2>2. j \in DOMAIN w.slots /\ ~(m <= j)
    BY <2>1
  <2> QED  BY <2>2, <1>3
<1>6. \E i \in DOMAIN w.slots : /\ Ready(p, w.slots[i], w.thread)
                                /\ \A j \in 1 .. (i - 1) : ~Ready(p, w.slots[j], w.thread)
  BY <1>4, <1>5
<1> QED  BY <1>6 DEF FirstReady

(* A satisfied wait takes objects that are ready, all it names or one.     *)
LEMMA TakenAreReady ==
    ASSUME NEW p, NEW w \in WaitRecord, Satisfied(p, w)
    PROVE  /\ w.mode \in {"any", "all"}
           /\ Selected(p, w) \subseteq DOMAIN w.slots
           /\ Taken(p, w) \subseteq Slots
           /\ \A s \in Taken(p, w) : Ready(p, s, w.thread)
           /\ w.mode = "any" => FirstReady(p, w) \in DOMAIN w.slots
<1>1. w.mode \in {"any", "all"}
  BY WaitParts DEF Satisfied
<1>2. CASE w.mode = "any"
  <2>1. FirstReady(p, w) \in DOMAIN w.slots /\ Ready(p, w.slots[FirstReady(p, w)], w.thread)
    BY <1>2, FirstReadyIsReady
  <2>2. Selected(p, w) = {FirstReady(p, w)}
    BY <1>2 DEF Selected
  <2> QED  BY <1>1, <2>1, <2>2, WaitParts DEF Taken
<1>3. CASE w.mode = "all"
  <2>1. \A i \in DOMAIN w.slots : Ready(p, w.slots[i], w.thread)
    BY <1>3 DEF Satisfied
  <2>2. Selected(p, w) = DOMAIN w.slots
    BY <1>3 DEF Selected
  <2> QED  BY <1>1, <1>3, <2>1, <2>2, WaitParts DEF Taken
<1> QED  BY <1>1, <1>2, <1>3

(* The answer of a satisfied wait is a number that Windows returns.        *)
LEMMA GrantIsResult ==
    ASSUME NEW p, NEW w \in WaitRecord, Fits(w), Satisfied(p, w)
    PROVE  GrantResult(p, w) \in 0 .. 63 \cup Abandoned .. (Abandoned + 63)
<1> DEFINE A == {i \in Selected(p, w) : /\ p.objects[w.slots[i]].type = "mutex"
                                        /\ p.objects[w.slots[i]].abandoned}
           F == CHOOSE i \in A : \A j \in A : i <= j
<1>1. A \subseteq 1 .. 64 /\ A \subseteq Nat
  <2>1. A \subseteq DOMAIN w.slots
    BY TakenAreReady
  <2>2. DOMAIN w.slots = 1 .. Len(w.slots) /\ Len(w.slots) \in Nat /\ Len(w.slots) <= 64
    BY WaitParts DEF Fits
  <2>3. \A n \in Nat : n <= 64 => 1 .. n \subseteq 1 .. 64 /\ 1 .. 64 \subseteq Nat
    OBVIOUS
  <2>4. DOMAIN w.slots \subseteq 1 .. 64 /\ 1 .. 64 \subseteq Nat
    BY <2>2, <2>3
  <2> HIDE DEF A
  <2> QED  BY <2>1, <2>4
<1>2. CASE A # {}
  <2>1. \E i \in A : \A j \in A : i <= j
    BY <1>1, <1>2, LeastNumber
  <2>2. F \in A
    BY <2>1
  <2>3. F \in 1 .. 64
    BY <2>2, <1>1
  <2>4. GrantResult(p, w) = Abandoned + F - 1
    BY <1>2 DEF GrantResult
  <2> HIDE DEF F
  <2> QED  BY <2>3, <2>4 DEF Abandoned
<1>3. CASE A = {} /\ w.mode = "all"
  <2>1. GrantResult(p, w) = 0
    BY <1>3 DEF GrantResult
  <2> QED  BY <2>1
<1>4. CASE A = {} /\ w.mode # "all"
  <2>1. w.mode = "any"
    BY <1>4, TakenAreReady
  <2>2. FirstReady(p, w) \in 1 .. Len(w.slots) /\ Len(w.slots) \in Nat /\ Len(w.slots) <= 64
    BY <2>1, TakenAreReady, WaitParts DEF Fits
  <2>3. GrantResult(p, w) = FirstReady(p, w) - 1
    BY <1>4 DEF GrantResult
  <2>4. \A n \in Nat : \A i \in 1 .. n : n <= 64 => i - 1 \in 0 .. 63
    OBVIOUS
  <2>5. FirstReady(p, w) - 1 \in 0 .. 63
    BY <2>2, <2>4
  <2> QED  BY <2>3, <2>5
<1> QED  BY <1>2, <1>3, <1>4

(* What a decision leaves of a wait: everything but its result.            *)
SameWait(v, w) ==
    /\ v.thread = w.thread /\ v.handles = w.handles /\ v.slots = w.slots
    /\ v.mode = w.mode /\ v.deadline = w.deadline /\ v.alertable = w.alertable

(* Plan q is plan p after some of its undecided waits were decided.        *)
Decides(v, w) ==
    \/ w.result = v.result
    \/ v.result = Pending /\ w.result \notin {Pending, WaitFailed, IoCompletion}
SameObject(o, r) ==
    /\ r.type = o.type
    /\ o.type \notin {"mutex", "semaphore"} => r = o
Resolved(p, q, D) ==
    /\ q \in Plans(D)
    /\ \A k \in D : SameWait(p.waits[k], q.waits[k]) /\ Decides(p.waits[k], q.waits[k])
    /\ \A s \in Slots : SameObject(p.objects[s], q.objects[s])
    /\ q.signaled \subseteq p.signaled

(* The encodings of the mutexes of a plan agree, and L are the threads     *)
(* that may own one.                                                       *)
MutexSound(o, set, L) ==
    /\ o.owner = NoThread <=> o.depth = 0
    /\ o.owner = NoThread <=> set
    /\ o.owner # NoThread => o.owner \in L
    /\ o.abandoned => o.owner = NoThread
Mutexes(p, L) ==
    \A s \in Slots : p.objects[s].type = "mutex" => MutexSound(p.objects[s], s \in p.signaled, L)

(* The waits D are those of threads in L, and of a size that Windows has.  *)
WaitsFit(W, D, L) == \A k \in D : Fits(W[k]) /\ W[k].thread \in L

(* What is in a plan.                                                      *)
LEMMA PlanParts ==
    ASSUME NEW D, NEW p \in Plans(D)
    PROVE  /\ p.objects \in [Slots -> ObjectKind] /\ p.signaled \subseteq Slots
           /\ p.waits \in [D -> WaitRecord] /\ DOMAIN p.waits = D
           /\ \A s \in Slots : p.objects[s] \in ObjectKind
           /\ \A k \in D : p.waits[k] \in WaitRecord
  BY DEF Plans

(* A wait with another result.                                             *)
LEMMA WithResult ==
    ASSUME NEW w \in WaitRecord, NEW r \in Results
    PROVE  /\ [w EXCEPT !.result = r] \in WaitRecord
           /\ SameWait(w, [w EXCEPT !.result = r]) /\ [w EXCEPT !.result = r].result = r
<1>1. [w EXCEPT !.result = r] =
        [thread |-> w.thread, handles |-> w.handles, slots |-> w.slots, mode |-> w.mode,
         deadline |-> w.deadline, alertable |-> w.alertable, result |-> r]
  BY DEF WaitRecord
<1>2. /\ w.thread \in Threads /\ w.handles \in Seq(Nat) /\ w.slots \in Seq(Slots)
      /\ w.mode \in {"any", "all", "sleep"} /\ w.deadline \in Nat \cup {Never}
      /\ w.alertable \in BOOLEAN
  BY DEF WaitRecord
<1> DEFINE v == [w EXCEPT !.result = r]
<1>3. v \in WaitRecord
  BY <1>1, <1>2 DEF WaitRecord
<1>4. SameWait(w, v) /\ v.result = r
  BY <1>1 DEF SameWait
<1> QED  BY <1>3, <1>4

(* The effects of the operators on a plan, part by part.                   *)
LEMMA CompleteParts ==
    ASSUME NEW D, NEW p \in Plans(D), NEW id \in D, NEW r \in Results
    PROVE  /\ Complete(p, id, r) \in Plans(D)
           /\ Complete(p, id, r).objects = p.objects /\ Complete(p, id, r).signaled = p.signaled
           /\ \A k \in D \ {id} : Complete(p, id, r).waits[k] = p.waits[k]
           /\ SameWait(p.waits[id], Complete(p, id, r).waits[id])
           /\ Complete(p, id, r).waits[id].result = r
<1>1. Complete(p, id, r) = [objects |-> p.objects, signaled |-> p.signaled,
                            waits |-> [p.waits EXCEPT ![id].result = r]]
  BY DEF Complete, Plans
<1> DEFINE W == [p.waits EXCEPT ![id].result = r]
<1>2. /\ W \in [D -> WaitRecord] /\ \A k \in D \ {id} : W[k] = p.waits[k]
      /\ SameWait(p.waits[id], W[id]) /\ W[id].result = r
  <2>1. \A k \in D : p.waits[k] \in WaitRecord
    BY PlanParts
  <2>2. \A k \in D : W[k] = IF k = id THEN [p.waits[id] EXCEPT !.result = r] ELSE p.waits[k]
    BY PlanParts
  <2>3. \A k \in D : W[k] \in WaitRecord
    BY <2>1, <2>2, WithResult
  <2>4. W \in [D -> WaitRecord]
    BY <2>3, PlanParts
  <2> HIDE DEF W
  <2>5. SameWait(p.waits[id], W[id]) /\ W[id].result = r
    <3>1. W[id] = [p.waits[id] EXCEPT !.result = r] /\ p.waits[id] \in WaitRecord
      BY <2>1, <2>2
    <3> QED  BY ONLY <3>1, WithResult, r \in Results
  <2> QED  BY <2>2, <2>4, <2>5
<1> HIDE DEF W
<1>3. /\ Complete(p, id, r).objects = p.objects /\ Complete(p, id, r).signaled = p.signaled
      /\ Complete(p, id, r).waits = W
  BY <1>1 DEF W
<1>4. Complete(p, id, r) \in Plans(D)
  BY <1>1, <1>2, PlanParts DEF Plans, W
<1> QED  BY <1>2, <1>3, <1>4

(* A grant, part by part: the objects it takes are consumed, the others    *)
(* stay.                                                                   *)
LEMMA TakeParts ==
    ASSUME NEW D, NEW p \in Plans(D), NEW w \in WaitRecord, Satisfied(p, w)
    PROVE  /\ TakeObjects(p, w) \in Plans(D)
           /\ TakeObjects(p, w).waits = p.waits
           /\ TakeObjects(p, w).signaled \subseteq p.signaled
           /\ \A s \in Slots :
                  /\ TakeObjects(p, w).objects[s] =
                        IF s \in Taken(p, w) THEN Consume(p.objects[s], w.thread) ELSE p.objects[s]
                  /\ s \notin Taken(p, w) =>
                        (s \in TakeObjects(p, w).signaled <=> s \in p.signaled)
                  /\ s \in Taken(p, w) /\ p.objects[s].type = "mutex" =>
                        s \notin TakeObjects(p, w).signaled
<1> DEFINE O == [s \in Slots |-> IF s \in Taken(p, w) THEN Consume(p.objects[s], w.thread)
                                                     ELSE p.objects[s]]
           B == {s \in p.signaled : \/ s \notin Taken(p, w)
                                    \/ p.objects[s].type = "thread"
                                    \/ StaysSignaled(p.objects[s])}
<1>1. TakeObjects(p, w) = [objects |-> O, signaled |-> B, waits |-> p.waits]
  <2>1. TakeObjects(p, w) = [p EXCEPT !.objects = O, !.signaled = B]
    BY DEF TakeObjects
  <2> HIDE DEF O, B
  <2> QED  BY <2>1 DEF Plans
<1>2. ASSUME NEW s \in Slots PROVE O[s] \in ObjectKind
  <2>1. p.objects[s] \in ObjectKind /\ w.thread \in Threads
    BY PlanParts, WaitParts
  <2>2. CASE s \in Taken(p, w)
    <3>1. Ready(p, s, w.thread)
      BY <2>2, TakenAreReady
    <3>2. p.objects[s].type = "semaphore" => p.objects[s].count # 0
      BY <3>1 DEF Ready
    <3>3. Consume(p.objects[s], w.thread) \in ObjectKind
      BY <2>1, <3>2, ConsumeKind
    <3> QED  BY <2>2, <3>3
  <2>3. CASE s \notin Taken(p, w)
    BY <2>1, <2>3
  <2> QED  BY <2>2, <2>3
<1>3. O \in [Slots -> ObjectKind] /\ B \subseteq p.signaled /\ B \subseteq Slots
  BY <1>2, PlanParts
<1>4. ASSUME NEW s \in Slots
      PROVE  /\ s \notin Taken(p, w) => (s \in B <=> s \in p.signaled)
             /\ s \in Taken(p, w) /\ p.objects[s].type = "mutex" => s \notin B
  BY DEF StaysSignaled
<1>5. \A s \in Slots : O[s] = IF s \in Taken(p, w) THEN Consume(p.objects[s], w.thread) ELSE p.objects[s]
  OBVIOUS
<1> HIDE DEF O, B
<1> QED  BY <1>1, <1>3, <1>4, <1>5, PlanParts DEF Plans

(* Expiry and grants answer with numbers that Windows returns.             *)
LEMMA AnswersAreResults ==
    /\ \A mode : ExpiryResult(mode) \in Results \ {Pending, WaitFailed, IoCompletion}
    /\ \A r \in 0 .. 63 \cup Abandoned .. (Abandoned + 63) :
           r \in Results \ {Pending, WaitFailed, IoCompletion}
<1>1. \A r \in 0 .. 63 \cup Abandoned .. (Abandoned + 63) :
           r \in Results \ {Pending, WaitFailed, IoCompletion}
  BY DEF Results, Pending, WaitFailed, IoCompletion, Abandoned
<1>2. \A mode : ExpiryResult(mode) \in {0, WaitTimeout}
  BY DEF ExpiryResult
<1>3. {0, WaitTimeout} \subseteq Results \ {Pending, WaitFailed, IoCompletion}
  BY DEF Results, Pending, WaitFailed, IoCompletion, WaitTimeout
<1> QED  BY <1>1, <1>2, <1>3

(* How resolve_waiters decides one wait.                                   *)
LEMMA ResolveOneCases ==
    ASSUME NEW D, NEW p \in Plans(D), NEW id, NEW t, \A k \in D : Fits(p.waits[k])
    PROVE  \/ /\ ResolveOne(p, id, t) = p
              /\ id \in D /\ p.waits[id].result = Pending =>
                     ~Satisfied(p, p.waits[id]) /\ ~Expired(p.waits[id], t)
           \/ /\ id \in D /\ p.waits[id].result = Pending
              /\ \E r \in Results \ {Pending, WaitFailed, IoCompletion} :
                     \/ ResolveOne(p, id, t) = Complete(p, id, r)
                     \/ /\ Satisfied(p, p.waits[id])
                        /\ ResolveOne(p, id, t) = Complete(TakeObjects(p, p.waits[id]), id, r)
<1>1. CASE id \notin D \/ (id \in D /\ p.waits[id].result # Pending)
  BY <1>1, PlanParts DEF ResolveOne
<1>2. CASE id \in D /\ p.waits[id].result = Pending
  <2> DEFINE w == p.waits[id]
  <2>1. w \in WaitRecord /\ Fits(w)
    BY <1>2, PlanParts
  <2>2. id \in DOMAIN p.waits
    BY <1>2, PlanParts
  <2>3. CASE Expired(w, t)
    <3>1. ResolveOne(p, id, t) = Complete(p, id, ExpiryResult(w.mode))
      BY <1>2, <2>2, <2>3 DEF ResolveOne
    <3>2. ExpiryResult(w.mode) \in Results \ {Pending, WaitFailed, IoCompletion}
      BY AnswersAreResults
    <3> QED  BY <1>2, <3>1, <3>2
  <2>4. CASE ~Expired(w, t) /\ Satisfied(p, w)
    <3>1. ResolveOne(p, id, t) = Complete(TakeObjects(p, w), id, GrantResult(p, w))
      BY <1>2, <2>2, <2>4 DEF ResolveOne
    <3>2. GrantResult(p, w) \in Results \ {Pending, WaitFailed, IoCompletion}
      BY <2>1, <2>4, GrantIsResult, AnswersAreResults
    <3> QED  BY <1>2, <2>4, <3>1, <3>2
  <2>5. CASE ~Expired(w, t) /\ ~Satisfied(p, w)
    BY <1>2, <2>2, <2>5 DEF ResolveOne
  <2> QED  BY <2>3, <2>4, <2>5
<1> QED  BY <1>1, <1>2

(* Resolution is reflexive and transitive.                                 *)
LEMMA ResolvedSame ==
    ASSUME NEW D, NEW p \in Plans(D)
    PROVE  Resolved(p, p, D)
  BY DEF Resolved, SameWait, Decides, SameObject

(* Two resolutions in a row are one.                                       *)
LEMMA ResolvedTwice ==
    ASSUME NEW D, NEW p, NEW q, NEW r, Resolved(p, q, D), Resolved(q, r, D)
    PROVE  Resolved(p, r, D)
<1>1. ASSUME NEW k \in D
      PROVE  SameWait(p.waits[k], r.waits[k]) /\ Decides(p.waits[k], r.waits[k])
  <2>1. /\ SameWait(p.waits[k], q.waits[k]) /\ Decides(p.waits[k], q.waits[k])
        /\ SameWait(q.waits[k], r.waits[k]) /\ Decides(q.waits[k], r.waits[k])
    BY DEF Resolved
  <2>2. SameWait(p.waits[k], r.waits[k])
    BY <2>1 DEF SameWait
  <2>3. Decides(p.waits[k], r.waits[k])
    BY <2>1 DEF Decides
  <2> QED  BY <2>2, <2>3
<1>2. ASSUME NEW s \in Slots PROVE SameObject(p.objects[s], r.objects[s])
  BY DEF Resolved, SameObject
<1>3. r \in Plans(D) /\ r.signaled \subseteq p.signaled
  BY DEF Resolved
<1> QED  BY <1>1, <1>2, <1>3 DEF Resolved

(* A decided wait keeps every other wait and the kinds of all objects.     *)
LEMMA CompleteResolves ==
    ASSUME NEW D, NEW p \in Plans(D), NEW id \in D, p.waits[id].result = Pending,
           NEW r \in Results \ {Pending, WaitFailed, IoCompletion}
    PROVE  Resolved(p, Complete(p, id, r), D)
<1> DEFINE q == Complete(p, id, r)
<1>1. /\ q \in Plans(D) /\ q.objects = p.objects /\ q.signaled = p.signaled
      /\ \A k \in D \ {id} : q.waits[k] = p.waits[k]
      /\ SameWait(p.waits[id], q.waits[id]) /\ q.waits[id].result = r
  BY CompleteParts
<1> HIDE DEF q
<1>2. ASSUME NEW k \in D PROVE SameWait(p.waits[k], q.waits[k]) /\ Decides(p.waits[k], q.waits[k])
  <2>1. CASE k = id
    BY <1>1, <2>1 DEF Decides
  <2>2. CASE k # id
    BY <1>1, <2>2 DEF SameWait, Decides
  <2> QED  BY <2>1, <2>2
<1>3. \A s \in Slots : SameObject(p.objects[s], q.objects[s])
  BY <1>1 DEF SameObject
<1>4. Resolved(p, q, D)
  BY <1>1, <1>2, <1>3 DEF Resolved
<1> QED  BY <1>4 DEF q

(* What a grant makes of an object it takes.                               *)
LEMMA TakenObject ==
    ASSUME NEW D, NEW p \in Plans(D), NEW w \in WaitRecord, Satisfied(p, w),
           NEW s \in Taken(p, w)
    PROVE  /\ s \in Slots /\ Ready(p, s, w.thread) /\ w.thread \in Threads
           /\ TakeObjects(p, w).objects[s] \in ObjectKind
           /\ TakeObjects(p, w).objects[s].type = p.objects[s].type
           /\ p.objects[s].type = "mutex" =>
                 /\ p.objects[s].depth \in Nat
                 /\ TakeObjects(p, w).objects[s].owner = w.thread
                 /\ TakeObjects(p, w).objects[s].depth = p.objects[s].depth + 1
                 /\ TakeObjects(p, w).objects[s].abandoned = FALSE
           /\ p.objects[s].type = "semaphore" =>
                 /\ p.objects[s].count \in Nat \ {0}
                 /\ TakeObjects(p, w).objects[s].count = p.objects[s].count - 1
                 /\ TakeObjects(p, w).objects[s].maximum = p.objects[s].maximum
           /\ p.objects[s].type \notin {"mutex", "semaphore"} =>
                 TakeObjects(p, w).objects[s] = p.objects[s]
<1>1. s \in Slots /\ Ready(p, s, w.thread)
  BY TakenAreReady
<1>2. PICK o \in ObjectKind : o = p.objects[s]
  BY <1>1, PlanParts
<1>3. PICK u \in Threads : u = w.thread
  BY WaitParts
<1>4. PICK r : r = TakeObjects(p, w).objects[s]
  OBVIOUS
<1>5. r = Consume(o, u)
  BY <1>1, <1>2, <1>3, <1>4, TakeParts
<1>6. o.type = "semaphore" => o.count # 0
  BY <1>1, <1>2 DEF Ready
<1>7. o.type = "mutex" => o.depth \in Nat
  BY Kinds, MutexParts
<1>8. o.type = "semaphore" => o.count \in Nat
  BY Kinds DEF SemaphoreKind
<1>9. /\ r \in ObjectKind /\ r.type = o.type
      /\ o.type = "mutex" => r.owner = u /\ r.depth = o.depth + 1 /\ r.abandoned = FALSE
      /\ o.type = "semaphore" => r.count = o.count - 1 /\ r.maximum = o.maximum
      /\ o.type \notin {"mutex", "semaphore"} => r = o
  BY <1>5, <1>6, ConsumeKind
<1> QED  BY <1>1, <1>2, <1>3, <1>4, <1>6, <1>7, <1>8, <1>9

(* What a grant does to the objects is a resolution of the plan.           *)
LEMMA TakeResolves ==
    ASSUME NEW D, NEW p \in Plans(D), NEW w \in WaitRecord, Satisfied(p, w)
    PROVE  Resolved(p, TakeObjects(p, w), D)
<1> DEFINE q == TakeObjects(p, w)
<1>1. /\ q \in Plans(D) /\ q.waits = p.waits /\ q.signaled \subseteq p.signaled
      /\ \A s \in Slots : q.objects[s] = IF s \in Taken(p, w) THEN Consume(p.objects[s], w.thread)
                                                              ELSE p.objects[s]
  BY TakeParts
<1> HIDE DEF q
<1>2. ASSUME NEW s \in Slots PROVE SameObject(p.objects[s], q.objects[s])
  <2>1. CASE s \in Taken(p, w)
    BY <2>1, TakenObject, ZenonT(60) DEF SameObject, q
  <2>2. CASE s \notin Taken(p, w)
    BY <1>1, <2>2 DEF SameObject
  <2> QED  BY <2>1, <2>2
<1>3. \A k \in D : SameWait(p.waits[k], q.waits[k]) /\ Decides(p.waits[k], q.waits[k])
  BY <1>1 DEF SameWait, Decides
<1>4. Resolved(p, q, D)
  BY <1>1, <1>2, <1>3 DEF Resolved
<1> QED  BY <1>4 DEF q

(* A grant keeps the encodings of the mutexes in agreement.                *)
LEMMA TakeMutexes ==
    ASSUME NEW D, NEW p \in Plans(D), NEW w \in WaitRecord, Satisfied(p, w),
           NEW L, w.thread \in L, Mutexes(p, L)
    PROVE  Mutexes(TakeObjects(p, w), L)
<1> DEFINE q == TakeObjects(p, w)
<1>1. \A s \in Slots :
         /\ q.objects[s] = IF s \in Taken(p, w) THEN Consume(p.objects[s], w.thread)
                                                ELSE p.objects[s]
         /\ s \notin Taken(p, w) => (s \in q.signaled <=> s \in p.signaled)
         /\ s \in Taken(p, w) /\ p.objects[s].type = "mutex" => s \notin q.signaled
  BY TakeParts
<1> HIDE DEF q
<1>2. ASSUME NEW s \in Slots, q.objects[s].type = "mutex"
      PROVE  MutexSound(q.objects[s], s \in q.signaled, L)
  <2>1. CASE s \in Taken(p, w)
    <3>1. p.objects[s].type = "mutex"
      BY <1>2, <2>1, TakenObject, ZenonT(60) DEF q
    <3>0. /\ w.thread \in Threads
          /\ p.objects[s].type = "mutex" =>
                /\ p.objects[s].depth \in Nat
                /\ TakeObjects(p, w).objects[s].owner = w.thread
                /\ TakeObjects(p, w).objects[s].depth = p.objects[s].depth + 1
                /\ TakeObjects(p, w).objects[s].abandoned = FALSE
      BY ONLY <2>1, TakenObject, ZenonT(60), p \in Plans(D), w \in WaitRecord, Satisfied(p, w)
    <3>2. /\ q.objects[s].owner = w.thread /\ q.objects[s].depth = p.objects[s].depth + 1
          /\ q.objects[s].abandoned = FALSE
          /\ p.objects[s].depth \in Nat /\ w.thread # NoThread
      BY <3>0, <3>1, NoThreadAssumption DEF q
    <3>3. s \notin q.signaled
      BY <1>1, <2>1, <3>1
    <3>4. q.objects[s].depth # 0
      BY <3>2
    <3> QED  BY <3>2, <3>3, <3>4 DEF MutexSound
  <2>2. CASE s \notin Taken(p, w)
    <3>1. q.objects[s] = p.objects[s] /\ (s \in q.signaled <=> s \in p.signaled)
      BY <1>1, <2>2
    <3>2. MutexSound(p.objects[s], s \in p.signaled, L)
      BY <1>2, <3>1 DEF Mutexes
    <3> QED  BY <3>1, <3>2 DEF MutexSound
  <2> QED  BY <2>1, <2>2
<1>3. Mutexes(q, L)
  BY <1>2 DEF Mutexes
<1> QED  BY <1>3 DEF q

(* Deciding one wait.                                                      *)
LEMMA ResolveOneResolves ==
    ASSUME NEW D, NEW p \in Plans(D), NEW id, NEW t, NEW L,
           WaitsFit(p.waits, D, L), Mutexes(p, L)
    PROVE  Resolved(p, ResolveOne(p, id, t), D) /\ Mutexes(ResolveOne(p, id, t), L)
<1>1. \A k \in D : Fits(p.waits[k]) /\ p.waits[k].thread \in L /\ p.waits[k] \in WaitRecord
  BY PlanParts DEF WaitsFit
<1>2. CASE ResolveOne(p, id, t) = p
  BY <1>2, ResolvedSame
<1>3. ASSUME id \in D, p.waits[id].result = Pending,
             NEW r \in Results \ {Pending, WaitFailed, IoCompletion},
             ResolveOne(p, id, t) = Complete(p, id, r)
      PROVE  Resolved(p, ResolveOne(p, id, t), D) /\ Mutexes(ResolveOne(p, id, t), L)
  <2>1. Resolved(p, Complete(p, id, r), D)
    BY <1>3, CompleteResolves
  <2>2. Complete(p, id, r).objects = p.objects /\ Complete(p, id, r).signaled = p.signaled
    BY <1>3, CompleteParts
  <2>3. Mutexes(Complete(p, id, r), L)
    BY <2>2 DEF Mutexes
  <2> QED  BY <1>3, <2>1, <2>3
<1>4. ASSUME id \in D, p.waits[id].result = Pending, Satisfied(p, p.waits[id]),
             NEW r \in Results \ {Pending, WaitFailed, IoCompletion},
             ResolveOne(p, id, t) = Complete(TakeObjects(p, p.waits[id]), id, r)
      PROVE  Resolved(p, ResolveOne(p, id, t), D) /\ Mutexes(ResolveOne(p, id, t), L)
  <2> DEFINE q == TakeObjects(p, p.waits[id])
  <2>1. Resolved(p, q, D) /\ q \in Plans(D) /\ q.waits = p.waits /\ Mutexes(q, L)
    BY <1>1, <1>4, TakeResolves, TakeParts, TakeMutexes
  <2> HIDE DEF q
  <2>2. Resolved(q, Complete(q, id, r), D)
    BY <1>4, <2>1, CompleteResolves
  <2>3. Complete(q, id, r).objects = q.objects /\ Complete(q, id, r).signaled = q.signaled
    BY <1>4, <2>1, CompleteParts
  <2>4. Mutexes(Complete(q, id, r), L)
    BY <2>1, <2>3 DEF Mutexes
  <2>5. Resolved(p, Complete(q, id, r), D)
    BY <2>1, <2>2, ResolvedTwice
  <2> QED  BY <1>4, <2>4, <2>5 DEF q
<1> QED  BY <1>1, <1>2, <1>3, <1>4, ResolveOneCases

(* The waits keep their sizes and threads.                                 *)
LEMMA FitsResolved ==
    ASSUME NEW D, NEW L, NEW p, NEW q, Resolved(p, q, D), WaitsFit(p.waits, D, L)
    PROVE  WaitsFit(q.waits, D, L)
  BY DEF Resolved, WaitsFit, SameWait, Fits

(* Deciding all of them.                                                   *)
LEMMA ResolveWaitersResolves ==
    ASSUME NEW D, NEW p \in Plans(D), NEW last \in Nat, NEW t, NEW L,
           WaitsFit(p.waits, D, L), Mutexes(p, L)
    PROVE  /\ Resolved(p, ResolveWaiters(p, last, t), D)
           /\ Mutexes(ResolveWaiters(p, last, t), L)
<1> DEFINE H == {q \in Plans(D) : Resolved(p, q, D) /\ Mutexes(q, L)}
           G == [id \in 0 .. last |-> H]
<1>1. p \in H
  BY ResolvedSame
<1>2. ASSUME NEW id \in 1 .. last, NEW q \in H PROVE ResolveOne(q, id, t) \in H
  <2>1. q \in Plans(D) /\ Resolved(p, q, D) /\ Mutexes(q, L) /\ WaitsFit(q.waits, D, L)
    BY FitsResolved
  <2>2. Resolved(q, ResolveOne(q, id, t), D) /\ Mutexes(ResolveOne(q, id, t), L)
    BY <2>1, ResolveOneResolves
  <2>3. Resolved(p, ResolveOne(q, id, t), D)
    BY <2>1, <2>2, ResolvedTwice
  <2>4. ResolveOne(q, id, t) \in Plans(D)
    BY <2>3 DEF Resolved
  <2> QED  BY <2>2, <2>3, <2>4
<1> HIDE DEF H
<1>3. \A id \in 0 .. last : G[id] = H
  OBVIOUS
<1>4. /\ 0 \in 0 .. last /\ last \in 0 .. last
      /\ \A id \in 1 .. last : id \in 0 .. last /\ id - 1 \in 0 .. last
  OBVIOUS
<1> HIDE DEF G
<1>5. p \in G[0] /\ \A id \in 1 .. last : \A q \in G[id - 1] : ResolveOne(q, id, t) \in G[id]
  BY <1>1, <1>2, <1>3, <1>4
<1>6. ResolveWaiters(p, last, t) \in G[last]
  BY <1>5, ResolveInduction
<1>7. ResolveWaiters(p, last, t) \in H
  BY <1>3, <1>4, <1>6
<1> QED  BY <1>7 DEF H

(* Plan q offers thread u nothing that plan p does not.                    *)
NotReadier(p, q, u) == \A s \in Slots : Ready(q, s, u) => Ready(p, s, u)

(* Of the waits D of one thread at most one is undecided.                  *)
LoneWaits(W, D) ==
    \A j, k \in D :
        W[j].result = Pending /\ W[k].result = Pending /\ W[j].thread = W[k].thread => j = k

(* Wait k is decided, or there is nothing to decide it yet.                *)
Settled(p, k, t) ==
    p.waits[k].result = Pending => ~Satisfied(p, p.waits[k]) /\ ~Expired(p.waits[k], t)

(* A grant leaves nothing more to the other threads.                       *)
LEMMA TakeNotReadier ==
    ASSUME NEW D, NEW p \in Plans(D), NEW w \in WaitRecord, Satisfied(p, w),
           NEW u, u # w.thread
    PROVE  NotReadier(p, TakeObjects(p, w), u)
<1> DEFINE q == TakeObjects(p, w)
<1>1. ASSUME NEW s \in Slots, Ready(q, s, u) PROVE Ready(p, s, u)
  <2>1. q.signaled \subseteq p.signaled
    BY TakeParts
  <2>2. CASE s \in Taken(p, w)
    <3>1. /\ q.objects[s].type = p.objects[s].type /\ w.thread \in Threads
          /\ p.objects[s].type = "mutex" => q.objects[s].owner = w.thread
          /\ p.objects[s].type = "semaphore" => p.objects[s].count \in Nat \ {0}
          /\ p.objects[s].type \notin {"mutex", "semaphore"} => q.objects[s] = p.objects[s]
      BY <2>2, TakenObject, ZenonT(60)
    <3>2. w.thread # NoThread
      BY <3>1, NoThreadAssumption
    <3> HIDE DEF q
    <3> QED  BY <1>1, <2>1, <3>1, <3>2 DEF Ready
  <2>3. CASE s \notin Taken(p, w)
    <3>1. q.objects[s] = p.objects[s]
      BY <2>3, TakeParts
    <3> HIDE DEF q
    <3> QED  BY <1>1, <2>1, <3>1 DEF Ready
  <2> QED  BY <2>2, <2>3
<1> QED  BY <1>1 DEF NotReadier

(* What satisfies a wait later would have satisfied it before.             *)
LEMMA NotMoreSatisfied ==
    ASSUME NEW p, NEW q, NEW v \in WaitRecord, NEW w \in WaitRecord, SameWait(v, w),
           NotReadier(p, q, w.thread), Satisfied(q, w)
    PROVE  Satisfied(p, v)
<1>1. /\ v.slots = w.slots /\ v.mode = w.mode /\ v.thread = w.thread
      /\ v.mode \in {"any", "all", "sleep"}
      /\ \A i \in DOMAIN v.slots : v.slots[i] \in Slots
  BY WaitParts DEF SameWait
<1>2. CASE v.mode = "any"
  <2>1. PICK i \in DOMAIN w.slots : Ready(q, w.slots[i], w.thread)
    BY <1>1, <1>2 DEF Satisfied
  <2>2. Ready(p, v.slots[i], v.thread) /\ i \in DOMAIN v.slots
    BY <1>1, <2>1 DEF NotReadier
  <2> QED  BY <1>2, <2>2 DEF Satisfied
<1>3. CASE v.mode = "all"
  <2>1. \A i \in DOMAIN w.slots : Ready(q, w.slots[i], w.thread)
    BY <1>1, <1>3 DEF Satisfied
  <2>2. \A i \in DOMAIN v.slots : Ready(p, v.slots[i], v.thread)
    BY <1>1, <2>1 DEF NotReadier
  <2> QED  BY <1>3, <2>2 DEF Satisfied
<1>4. CASE v.mode = "sleep"
  BY <1>1, <1>4 DEF Satisfied
<1> QED  BY <1>1, <1>2, <1>3, <1>4

(* A settled wait stays settled.                                           *)
LEMMA StaysSettled ==
    ASSUME NEW p, NEW q, NEW k, NEW t, p.waits[k] \in WaitRecord, q.waits[k] \in WaitRecord,
           SameWait(p.waits[k], q.waits[k]),
           q.waits[k].result = Pending =>
               p.waits[k].result = Pending /\ NotReadier(p, q, q.waits[k].thread),
           Settled(p, k, t)
    PROVE  Settled(q, k, t)
<1>1. CASE q.waits[k].result # Pending
  BY <1>1 DEF Settled
<1>2. CASE q.waits[k].result = Pending
  <2>1. ~Satisfied(p, p.waits[k]) /\ ~Expired(p.waits[k], t)
    BY <1>2 DEF Settled
  <2>2. ~Satisfied(q, q.waits[k])
    BY <1>2, <2>1, NotMoreSatisfied
  <2>3. ~Expired(q.waits[k], t)
    BY <2>1 DEF Expired, SameWait
  <2> QED  BY <2>2, <2>3 DEF Settled
<1> QED  BY <1>1, <1>2

(* Deciding a wait settles it and keeps the others settled.                *)
LEMMA ResolveOneSettles ==
    ASSUME NEW D, NEW p \in Plans(D), NEW id, NEW t, \A k \in D : Fits(p.waits[k]),
           LoneWaits(p.waits, D)
    PROVE  /\ id \in D => Settled(ResolveOne(p, id, t), id, t)
           /\ \A k \in D : Settled(p, k, t) => Settled(ResolveOne(p, id, t), k, t)
           /\ LoneWaits(ResolveOne(p, id, t).waits, D)
<1>1. CASE /\ ResolveOne(p, id, t) = p
           /\ id \in D /\ p.waits[id].result = Pending =>
                  ~Satisfied(p, p.waits[id]) /\ ~Expired(p.waits[id], t)
  BY <1>1 DEF Settled
<1>2. ASSUME id \in D, p.waits[id].result = Pending,
             NEW r \in Results \ {Pending, WaitFailed, IoCompletion}, NEW q \in Plans(D),
             q.waits = p.waits,
             \A u : u # p.waits[id].thread => NotReadier(p, q, u),
             ResolveOne(p, id, t) = Complete(q, id, r)
      PROVE  /\ Settled(ResolveOne(p, id, t), id, t)
             /\ \A k \in D : Settled(p, k, t) => Settled(ResolveOne(p, id, t), k, t)
             /\ LoneWaits(ResolveOne(p, id, t).waits, D)
  <2> DEFINE c == Complete(q, id, r)
  <2>1. /\ c \in Plans(D) /\ c.objects = q.objects /\ c.signaled = q.signaled
        /\ \A k \in D \ {id} : c.waits[k] = p.waits[k]
        /\ c.waits[id].result # Pending
    BY <1>2, CompleteParts
  <2> HIDE DEF c
  <2>2. Settled(c, id, t)
    BY <2>1 DEF Settled
  <2>3. ASSUME NEW k \in D, Settled(p, k, t), k # id PROVE Settled(c, k, t)
    <3>1. c.waits[k] = p.waits[k] /\ p.waits[k] \in WaitRecord
      BY <2>1, <2>3, PlanParts
    <3>2. ASSUME c.waits[k].result = Pending PROVE NotReadier(p, c, c.waits[k].thread)
      <4>1. p.waits[k].thread # p.waits[id].thread
        BY <1>2, <2>3, <3>1, <3>2 DEF LoneWaits
      <4>2. NotReadier(p, q, p.waits[k].thread)
        BY <1>2, <4>1
      <4> QED  BY <2>1, <3>1, <4>2 DEF NotReadier, Ready
    <3>3. SameWait(p.waits[k], c.waits[k])
      BY <3>1 DEF SameWait
    <3> QED  BY <2>3, <3>1, <3>2, <3>3, StaysSettled
  <2>4. LoneWaits(c.waits, D)
    <3>1. ASSUME NEW j \in D, NEW k \in D, c.waits[j].result = Pending, c.waits[k].result = Pending,
                 c.waits[j].thread = c.waits[k].thread
          PROVE  j = k
      <4>1. j # id /\ k # id
        BY <2>1, <3>1
      <4>2. c.waits[j] = p.waits[j] /\ c.waits[k] = p.waits[k]
        BY <2>1, <4>1
      <4> QED  BY <3>1, <4>2 DEF LoneWaits
    <3> QED  BY <3>1 DEF LoneWaits
  <2>5. \A k \in D : Settled(p, k, t) => Settled(c, k, t)
    BY <2>2, <2>3
  <2> QED  BY <1>2, <2>2, <2>4, <2>5 DEF c
<1>3. ASSUME id \in D, p.waits[id].result = Pending,
             NEW r \in Results \ {Pending, WaitFailed, IoCompletion},
             ResolveOne(p, id, t) = Complete(p, id, r)
      PROVE  /\ Settled(ResolveOne(p, id, t), id, t)
             /\ \A k \in D : Settled(p, k, t) => Settled(ResolveOne(p, id, t), k, t)
             /\ LoneWaits(ResolveOne(p, id, t).waits, D)
  <2>1. \A u : NotReadier(p, p, u)
    BY DEF NotReadier
  <2> QED  BY <1>2, <1>3, <2>1
<1>4. ASSUME id \in D, p.waits[id].result = Pending, Satisfied(p, p.waits[id]),
             NEW r \in Results \ {Pending, WaitFailed, IoCompletion},
             ResolveOne(p, id, t) = Complete(TakeObjects(p, p.waits[id]), id, r)
      PROVE  /\ Settled(ResolveOne(p, id, t), id, t)
             /\ \A k \in D : Settled(p, k, t) => Settled(ResolveOne(p, id, t), k, t)
             /\ LoneWaits(ResolveOne(p, id, t).waits, D)
  <2> DEFINE q == TakeObjects(p, p.waits[id])
  <2>1. p.waits[id] \in WaitRecord
    BY <1>4, PlanParts
  <2>2. q \in Plans(D) /\ q.waits = p.waits
    BY <1>4, <2>1, TakeParts
  <2>3. \A u : u # p.waits[id].thread => NotReadier(p, q, u)
    BY <1>4, <2>1, TakeNotReadier
  <2>4. ResolveOne(p, id, t) = Complete(q, id, r)
    BY <1>4
  <2> HIDE DEF q
  <2> QED  BY <1>2, <1>4, <2>2, <2>3, <2>4
<1> QED  BY <1>1, <1>3, <1>4, ResolveOneCases

(* After the pass every wait is settled.                                   *)
LEMMA ResolveWaitersSettles ==
    ASSUME NEW last \in Nat, NEW D, D \subseteq 1 .. last, NEW p \in Plans(D), NEW t, NEW L,
           WaitsFit(p.waits, D, L), Mutexes(p, L), LoneWaits(p.waits, D)
    PROVE  /\ \A k \in D : Settled(ResolveWaiters(p, last, t), k, t)
           /\ LoneWaits(ResolveWaiters(p, last, t).waits, D)
<1> DEFINE H(n) == {q \in Plans(D) : /\ WaitsFit(q.waits, D, L) /\ Mutexes(q, L)
                                     /\ LoneWaits(q.waits, D)
                                     /\ \A k \in D : k <= n => Settled(q, k, t)}
           G == [id \in 0 .. last |-> H(id)]
<1>1. p \in H(0)
  <2>1. \A k \in D : ~(k <= 0)
    OBVIOUS
  <2> QED  BY <2>1
<1>2. ASSUME NEW id \in 1 .. last, NEW q \in H(id - 1) PROVE ResolveOne(q, id, t) \in H(id)
  <2>1. /\ q \in Plans(D) /\ WaitsFit(q.waits, D, L) /\ Mutexes(q, L) /\ LoneWaits(q.waits, D)
        /\ \A k \in D : k <= id - 1 => Settled(q, k, t)
    BY <1>2
  <2>2. \A k \in D : Fits(q.waits[k])
    BY <2>1 DEF WaitsFit
  <2> DEFINE r == ResolveOne(q, id, t)
  <2>3. Resolved(q, r, D) /\ Mutexes(r, L)
    BY <2>1, ResolveOneResolves
  <2>4. r \in Plans(D) /\ WaitsFit(r.waits, D, L)
    BY <2>1, <2>3, FitsResolved DEF Resolved
  <2>5. /\ id \in D => Settled(r, id, t) /\ LoneWaits(r.waits, D)
        /\ \A k \in D : Settled(q, k, t) => Settled(r, k, t)
        /\ LoneWaits(r.waits, D)
    BY <2>1, <2>2, ResolveOneSettles
  <2> HIDE DEF r
  <2>6. ASSUME NEW k \in D, k <= id PROVE Settled(r, k, t)
    <3>1. k = id \/ k <= id - 1
      BY <2>6
    <3> QED  BY <2>1, <2>5, <3>1
  <2>7. r \in H(id)
    BY <2>3, <2>4, <2>5, <2>6
  <2> QED  BY <2>7 DEF r
<1> HIDE DEF H
<1>3. \A id \in 0 .. last : G[id] = H(id)
  OBVIOUS
<1>4. /\ 0 \in 0 .. last /\ last \in 0 .. last
      /\ \A id \in 1 .. last : id \in 0 .. last /\ id - 1 \in 0 .. last
  OBVIOUS
<1> HIDE DEF G
<1>5. p \in G[0] /\ \A id \in 1 .. last : \A q \in G[id - 1] : ResolveOne(q, id, t) \in G[id]
  BY <1>1, <1>2, <1>3, <1>4
<1>6. ResolveWaiters(p, last, t) \in G[last]
  BY <1>5, ResolveInduction
<1>7. ResolveWaiters(p, last, t) \in H(last)
  BY <1>3, <1>4, <1>6
<1>8. \A k \in D : k <= last
  OBVIOUS
<1> QED  BY <1>7, <1>8 DEF H

-----------------------------------------------------------------------------
(* Objects and handles.                                                    *)

(* The open handles of a slot.                                             *)
Names(s) == {h \in DOMAIN handles : handles[h] = s}

HandlesTyped ==
    /\ refs \in [Slots -> Nat]
    /\ nextHandle \in Nat
    /\ DOMAIN handles \subseteq 1 .. nextHandle
    /\ handles \in [DOMAIN handles -> Slots]

HandlesCounted == \A s \in Slots : refs[s] = Cardinality(Names(s))

(* What holds of the object o of a slot, and of the signal bit of the slot, *)
(* where the threads L live and handles up to n were issued.               *)
ObjectSound(o, set, L, n) ==
    /\ o.type = "free" => ~set
    /\ o.type = "mutex" => MutexSound(o, set, L)
    /\ o.type = "thread" => (o.thread \notin L => o.terminated)
    /\ o.type = "timer" => /\ o.id \in 1 .. n
                           /\ o.queued => o.callback
                           /\ o.callback => o.thread # NoThread
                           /\ o.callback /\ o.thread \notin L => o.due = Never

ObjectsSound(p, L, n) ==
    \A s \in Slots : ObjectSound(p.objects[s], s \in p.signaled, L, n)

(* No two timers have the same id.                                         *)
TimersDiffer(p) ==
    \A r, s \in Slots :
        (r # s /\ p.objects[r].type = "timer" /\ p.objects[s].type = "timer")
            => p.objects[r].id # p.objects[s].id

(* A slot with a handle has an object, and one without needs a reason.     *)
SlotsUsed ==
    \A s \in Slots : /\ refs[s] # 0 => objects[s].type # "free"
                     /\ ~Reclaimable(objects[s], refs[s])

ObjectsTyped == objects \in [Slots -> ObjectKind] /\ signaled \subseteq Slots

ObjectInv ==
    /\ ObjectsTyped /\ HandlesTyped /\ HandlesCounted /\ SlotsUsed
    /\ ObjectsSound(Plan, live, nextHandle) /\ TimersDiffer(Plan)

(* The open handles of a slot are finitely many.                           *)
LEMMA NamesFinite ==
    ASSUME HandlesTyped, NEW s
    PROVE  /\ IsFiniteSet(Names(s)) /\ Cardinality(Names(s)) \in Nat
           /\ nextHandle + 1 \notin Names(s)
           /\ Names(s) # {} => Cardinality(Names(s)) # 0
<1>1. Names(s) \subseteq 1 .. nextHandle
  BY DEF Names, HandlesTyped
<1>2. IsFiniteSet(1 .. nextHandle)
  BY FS_Interval DEF HandlesTyped
<1>3. IsFiniteSet(Names(s))
  BY <1>1, <1>2, FS_Subset
<1>4. Cardinality(Names(s)) \in Nat
  BY <1>3, FS_CardinalityType
<1>5. nextHandle + 1 \notin 1 .. nextHandle
  BY DEF HandlesTyped
<1>6. Names(s) # {} => Cardinality(Names(s)) # 0
  BY <1>3, FS_EmptySet
<1> QED  BY <1>1, <1>3, <1>4, <1>5, <1>6

(* An open handle counts in its slot.                                      *)
LEMMA OpenHandleCounts ==
    ASSUME HandlesTyped, HandlesCounted, NEW h \in DOMAIN handles
    PROVE  handles[h] \in Slots /\ refs[handles[h]] # 0 /\ refs[handles[h]] \in Nat
<1>1. handles[h] \in Slots
  BY DEF HandlesTyped
<1>2. h \in Names(handles[h])
  BY DEF Names
<1>3. refs[handles[h]] = Cardinality(Names(handles[h]))
  BY <1>1 DEF HandlesCounted
<1> QED  BY <1>1, <1>2, <1>3, NamesFinite

(* Opening a handle.                                                       *)
LEMMA OpenHandleKeeps ==
    ASSUME HandlesTyped, HandlesCounted, NEW s \in Slots, OpenHandle(s)
    PROVE  /\ HandlesTyped' /\ HandlesCounted'
           /\ nextHandle' = nextHandle + 1
           /\ refs'[s] # 0 /\ \A r \in Slots \ {s} : refs'[r] = refs[r]
           /\ DOMAIN handles \subseteq DOMAIN handles'
           /\ \A h \in DOMAIN handles : handles'[h] = handles[h]
<1>1. /\ nextHandle' = nextHandle + 1 /\ nextHandle \in Nat
      /\ handles' = [h \in DOMAIN handles \cup {nextHandle + 1} |->
                        IF h = nextHandle + 1 THEN s ELSE handles[h]]
      /\ refs' = [refs EXCEPT ![s] = @ + 1]
  BY DEF OpenHandle, HandlesTyped
<1>2. DOMAIN handles \subseteq 1 .. nextHandle /\ nextHandle + 1 \notin DOMAIN handles
  BY <1>1 DEF HandlesTyped
<1>3. DOMAIN handles' = DOMAIN handles \cup {nextHandle + 1}
  BY <1>1
<1>4. /\ \A h \in DOMAIN handles : handles'[h] = handles[h]
      /\ handles'[nextHandle + 1] = s
  BY <1>1, <1>2
<1>5. /\ \A r \in Slots : refs'[r] = IF r = s THEN refs[s] + 1 ELSE refs[r]
      /\ refs' \in [Slots -> Nat]
  BY <1>1 DEF HandlesTyped
<1>6. HandlesTyped'
  <2>1. \A h \in DOMAIN handles' : handles'[h] \in Slots
    BY <1>3, <1>4 DEF HandlesTyped
  <2>2. handles' \in [DOMAIN handles' -> Slots]
    BY <1>1, <2>1
  <2>3. DOMAIN handles' \subseteq 1 .. nextHandle'
    BY <1>1, <1>2, <1>3
  <2> QED  BY <1>1, <1>5, <2>2, <2>3 DEF HandlesTyped
<1>7. ASSUME NEW r \in Slots PROVE refs'[r] = Cardinality(Names(r)')
  <2>1. refs[r] = Cardinality(Names(r))
    BY DEF HandlesCounted
  <2>2. CASE r = s
    <3>1. Names(s)' = Names(s) \cup {nextHandle + 1}
      BY <1>3, <1>4 DEF Names
    <3>2. Cardinality(Names(s) \cup {nextHandle + 1}) = Cardinality(Names(s)) + 1
      BY NamesFinite, FS_AddElement
    <3> QED  BY <1>5, <2>1, <2>2, <3>1, <3>2
  <2>3. CASE r # s
    <3>1. Names(r)' = Names(r)
      BY <1>3, <1>4, <2>3 DEF Names
    <3> QED  BY <1>5, <2>1, <2>3, <3>1
  <2> QED  BY <2>2, <2>3
<1>8. HandlesCounted'
  BY <1>7 DEF HandlesCounted
<1>9. refs'[s] # 0
  <2>1. refs[s] \in Nat
    BY DEF HandlesTyped
  <2> QED  BY <1>5, <2>1
<1> QED  BY <1>1, <1>3, <1>4, <1>5, <1>6, <1>8, <1>9

(* Closing a handle.                                                       *)
LEMMA CloseHandleKeeps ==
    ASSUME HandlesTyped, HandlesCounted, NEW h \in DOMAIN handles,
           refs' = [refs EXCEPT ![handles[h]] = @ - 1],
           handles' = [k \in DOMAIN handles \ {h} |-> handles[k]],
           nextHandle' = nextHandle
    PROVE  HandlesTyped' /\ HandlesCounted'
<1>0. PICK s \in Slots : s = handles[h]
  BY OpenHandleCounts
<1>1. refs[s] \in Nat /\ refs[s] # 0
  BY <1>0, OpenHandleCounts
<1>2. /\ DOMAIN handles' = DOMAIN handles \ {h}
      /\ \A k \in DOMAIN handles \ {h} : handles'[k] = handles[k]
  OBVIOUS
<1>3. /\ \A r \in Slots : refs'[r] = IF r = s THEN refs[s] - 1 ELSE refs[r]
      /\ refs' \in [Slots -> Nat]
  BY <1>0, <1>1 DEF HandlesTyped
<1>4. HandlesTyped'
  <2>1. handles' \in [DOMAIN handles' -> Slots]
    BY <1>2 DEF HandlesTyped
  <2> QED  BY <1>2, <1>3, <2>1 DEF HandlesTyped
<1>5. ASSUME NEW r \in Slots PROVE refs'[r] = Cardinality(Names(r)')
  <2>1. refs[r] = Cardinality(Names(r))
    BY DEF HandlesCounted
  <2>2. CASE r = s
    <3>1. Names(s)' = Names(s) \ {h} /\ h \in Names(s)
      BY <1>0, <1>2 DEF Names
    <3>2. Cardinality(Names(s) \ {h}) = Cardinality(Names(s)) - 1
      BY <3>1, NamesFinite, FS_RemoveElement
    <3> QED  BY <1>3, <2>1, <2>2, <3>1, <3>2
  <2>3. CASE r # s
    <3>1. Names(r)' = Names(r)
      BY <1>0, <1>2, <2>3 DEF Names
    <3> QED  BY <1>3, <2>1, <2>3, <3>1
  <2> QED  BY <2>2, <2>3
<1>6. HandlesCounted'
  BY <1>5 DEF HandlesCounted
<1> QED  BY <1>4, <1>6

(* Exchanging a handle for a new one of the same slot.                     *)
LEMMA MoveHandleKeeps ==
    ASSUME HandlesTyped, HandlesCounted, NEW h \in DOMAIN handles,
           nextHandle' = nextHandle + 1, UNCHANGED refs,
           handles' = [k \in (DOMAIN handles \ {h}) \cup {nextHandle + 1} |->
                          IF k = nextHandle + 1 THEN handles[h] ELSE handles[k]]
    PROVE  HandlesTyped' /\ HandlesCounted'
<1>0. PICK s \in Slots : s = handles[h]
  BY OpenHandleCounts
<1>1. PICK n \in Nat : n = nextHandle + 1 /\ nextHandle \in Nat /\ n \notin DOMAIN handles
  BY DEF HandlesTyped
<1>2. /\ DOMAIN handles' = (DOMAIN handles \ {h}) \cup {n}
      /\ \A k \in DOMAIN handles \ {h} : handles'[k] = handles[k]
      /\ handles'[n] = s
  BY <1>0, <1>1
<1>3. HandlesTyped'
  <2>1. \A k \in DOMAIN handles' : handles'[k] \in Slots
    BY <1>1, <1>2 DEF HandlesTyped
  <2>2. handles' \in [DOMAIN handles' -> Slots]
    BY <2>1
  <2>3. DOMAIN handles' \subseteq 1 .. nextHandle'
    BY <1>1, <1>2 DEF HandlesTyped
  <2> QED  BY <1>1, <2>2, <2>3 DEF HandlesTyped
<1>4. ASSUME NEW r \in Slots PROVE refs'[r] = Cardinality(Names(r)')
  <2>1. refs[r] = Cardinality(Names(r))
    BY DEF HandlesCounted
  <2>2. CASE r = s
    <3>1. Names(s)' = (Names(s) \ {h}) \cup {n} /\ h \in Names(s) /\ n \notin Names(s)
      BY <1>0, <1>1, <1>2 DEF Names
    <3>2. IsFiniteSet(Names(s)) /\ Cardinality(Names(s)) \in Nat
      BY NamesFinite
    <3>3. /\ Cardinality(Names(s) \ {h}) = Cardinality(Names(s)) - 1
          /\ IsFiniteSet(Names(s) \ {h}) /\ n \notin Names(s) \ {h}
      BY <3>1, <3>2, FS_RemoveElement
    <3>4. Cardinality((Names(s) \ {h}) \cup {n}) = Cardinality(Names(s) \ {h}) + 1
      BY <3>3, FS_AddElement
    <3> QED  BY <2>1, <2>2, <3>1, <3>2, <3>3, <3>4
  <2>3. CASE r # s
    <3>1. Names(r)' = Names(r)
      BY <1>0, <1>1, <1>2, <2>3 DEF Names
    <3> QED  BY <2>1, <3>1
  <2> QED  BY <2>2, <2>3
<1>5. HandlesCounted'
  BY <1>4 DEF HandlesCounted
<1> QED  BY <1>3, <1>5

(* A plan for the table of waits D and the living threads L that can be    *)
(* committed: no slot has changed its kind.                                *)
SoundPlan(p, D, L) ==
    /\ p \in Plans(D)
    /\ \A s \in Slots : p.objects[s].type = objects[s].type
    /\ ObjectsSound(p, L, nextHandle) /\ TimersDiffer(p)
    /\ WaitsFit(p.waits, D, L)

(* The mutexes of a sound plan agree.                                      *)
LEMMA SoundMutexes ==
    ASSUME NEW D, NEW L, NEW p, SoundPlan(p, D, L)
    PROVE  p \in Plans(D) /\ Mutexes(p, L) /\ WaitsFit(p.waits, D, L)
  BY DEF SoundPlan, Mutexes, ObjectsSound, ObjectSound

(* Deciding waits keeps a plan sound.                                      *)
LEMMA SoundResolved ==
    ASSUME NEW D, NEW L, NEW p, NEW q, SoundPlan(p, D, L), Resolved(p, q, D), Mutexes(q, L)
    PROVE  SoundPlan(q, D, L)
<1>1. WaitsFit(q.waits, D, L)
  BY FitsResolved DEF SoundPlan
<1>2. q \in Plans(D) /\ p \in Plans(D)
  BY DEF Resolved, SoundPlan
<1>3. \A s \in Slots : SameObject(p.objects[s], q.objects[s])
  BY DEF Resolved
<1>4. \A s \in Slots : q.objects[s].type = objects[s].type
  BY <1>3 DEF SameObject, SoundPlan
<1>5. ASSUME NEW s \in Slots PROVE ObjectSound(q.objects[s], s \in q.signaled, L, nextHandle)
  <2>1. ObjectSound(p.objects[s], s \in p.signaled, L, nextHandle)
    BY DEF SoundPlan, ObjectsSound
  <2>2. s \in q.signaled => s \in p.signaled
    BY DEF Resolved
  <2>3. SameObject(p.objects[s], q.objects[s])
    BY <1>3
  <2>4. q.objects[s].type = "mutex" => MutexSound(q.objects[s], s \in q.signaled, L)
    BY DEF Mutexes
  <2> QED  BY <2>1, <2>2, <2>3, <2>4 DEF ObjectSound, SameObject
<1>6. TimersDiffer(q)
  <2>1. TimersDiffer(p)
    BY DEF SoundPlan
  <2> QED  BY <1>3, <2>1 DEF SameObject, TimersDiffer
<1> QED  BY <1>1, <1>2, <1>4, <1>5, <1>6 DEF SoundPlan, ObjectsSound

(* resolve_waiters keeps a plan sound, whatever waits it decides.          *)
LEMMA SoundWaiters ==
    ASSUME NEW D, NEW L, NEW p, SoundPlan(p, D, L), NEW last \in Nat, NEW t
    PROVE  /\ SoundPlan(ResolveWaiters(p, last, t), D, L)
           /\ Resolved(p, ResolveWaiters(p, last, t), D)
  BY SoundMutexes, ResolveWaitersResolves, SoundResolved

(* Writing one object, and its signal bit, keeps a plan sound.             *)
LEMMA SoundPut ==
    ASSUME NEW D, NEW L, NEW p, SoundPlan(p, D, L), NEW s \in Slots, NEW o \in ObjectKind,
           NEW B \in SUBSET Slots, B \ {s} = p.signaled \ {s},
           o.type = objects[s].type, ObjectSound(o, s \in B, L, nextHandle),
           o.type = "timer" => o.id = p.objects[s].id,
           NEW q, q = [objects |-> [p.objects EXCEPT ![s] = o], signaled |-> B,
                       waits |-> p.waits]
    PROVE  SoundPlan(q, D, L)
<1>1. p \in Plans(D)
  BY DEF SoundPlan
<1>2. /\ q.signaled = B /\ q.waits = p.waits
      /\ \A r \in Slots : q.objects[r] = IF r = s THEN o ELSE p.objects[r]
  BY <1>1, PlanParts
<1>3. q \in Plans(D)
  BY <1>1, PlanParts DEF Plans
<1>4. \A r \in Slots : q.objects[r].type = objects[r].type
  BY <1>2 DEF SoundPlan
<1>5. ASSUME NEW r \in Slots PROVE ObjectSound(q.objects[r], r \in q.signaled, L, nextHandle)
  <2>1. CASE r = s
    BY <1>2, <2>1
  <2>2. CASE r # s
    <3>1. q.objects[r] = p.objects[r] /\ (r \in q.signaled <=> r \in p.signaled)
      BY <1>2, <2>2
    <3>2. ObjectSound(p.objects[r], r \in p.signaled, L, nextHandle)
      BY DEF SoundPlan, ObjectsSound
    <3> QED  BY <3>1, <3>2 DEF ObjectSound, MutexSound
  <2> QED  BY <2>1, <2>2
<1>6. TimersDiffer(q)
  <2>1. TimersDiffer(p) /\ p.objects[s].type = objects[s].type
    BY DEF SoundPlan
  <2> QED  BY <1>2, <2>1 DEF TimersDiffer
<1>7. WaitsFit(q.waits, D, L)
  BY <1>2 DEF SoundPlan
<1> QED  BY <1>3, <1>4, <1>5, <1>6, <1>7 DEF SoundPlan, ObjectsSound

(* Setting or clearing a signal bit.                                       *)
LEMMA SoundSet ==
    ASSUME NEW D, NEW L, NEW p, SoundPlan(p, D, L), NEW s \in Slots,
           objects[s].type \in {"event", "semaphore"}
    PROVE  SoundPlan(SetSignal(p, s), D, L)
<1>1. p \in Plans(D) /\ p.objects[s].type = objects[s].type
  BY DEF SoundPlan
<1>2. SetSignal(p, s) = [objects |-> [p.objects EXCEPT ![s] = p.objects[s]],
                         signaled |-> p.signaled \cup {s}, waits |-> p.waits]
  BY <1>1 DEF SetSignal, Plans
<1>3. ObjectSound(p.objects[s], s \in p.signaled \cup {s}, L, nextHandle)
  BY <1>1 DEF ObjectSound
<1>4. /\ p.objects[s] \in ObjectKind /\ p.signaled \cup {s} \in SUBSET Slots
      /\ (p.signaled \cup {s}) \ {s} = p.signaled \ {s}
  BY <1>1, PlanParts
<1>5. p.objects[s].type = "timer" => p.objects[s].id = p.objects[s].id
  OBVIOUS
<1> QED  BY <1>1, <1>2, <1>3, <1>4, <1>5, SoundPut

(* Clearing a signal bit, as PulseEvent and SetWaitableTimer do.           *)
LEMMA SoundClear ==
    ASSUME NEW D, NEW L, NEW p, SoundPlan(p, D, L), NEW s \in Slots,
           objects[s].type \in {"event", "semaphore", "timer"}
    PROVE  SoundPlan(ClearSignal(p, s), D, L)
<1>1. p \in Plans(D) /\ p.objects[s].type = objects[s].type
  BY DEF SoundPlan
<1>2. ClearSignal(p, s) = [objects |-> [p.objects EXCEPT ![s] = p.objects[s]],
                           signaled |-> p.signaled \ {s}, waits |-> p.waits]
  BY <1>1 DEF ClearSignal, Plans
<1>3. ObjectSound(p.objects[s], s \in p.signaled \ {s}, L, nextHandle)
  BY <1>1 DEF ObjectSound, SoundPlan, ObjectsSound
<1>4. /\ p.objects[s] \in ObjectKind /\ p.signaled \ {s} \in SUBSET Slots
      /\ (p.signaled \ {s}) \ {s} = p.signaled \ {s}
  BY <1>1, PlanParts
<1>5. p.objects[s].type = "timer" => p.objects[s].id = p.objects[s].id
  OBVIOUS
<1> QED  BY <1>1, <1>2, <1>3, <1>4, <1>5, SoundPut

(* Writing an object and leaving its signal bit.                           *)
LEMMA SoundPutObject ==
    ASSUME NEW D, NEW L, NEW p, SoundPlan(p, D, L), NEW s \in Slots, NEW o \in ObjectKind,
           o.type = objects[s].type, ObjectSound(o, s \in p.signaled, L, nextHandle),
           o.type = "timer" => o.id = p.objects[s].id
    PROVE  SoundPlan(PutObject(p, s, o), D, L)
<1>1. p \in Plans(D)
  BY DEF SoundPlan
<1>2. PutObject(p, s, o) = [objects |-> [p.objects EXCEPT ![s] = o],
                            signaled |-> p.signaled, waits |-> p.waits]
  BY <1>1 DEF PutObject, Plans
<1>3. p.signaled \in SUBSET Slots
  BY <1>1, PlanParts
<1> QED  BY <1>2, <1>3, SoundPut

(* Another table of waits.                                                 *)
LEMMA SoundTable ==
    ASSUME NEW D, NEW L, NEW p, SoundPlan(p, D, L), NEW E, NEW V \in [E -> WaitRecord],
           WaitsFit(V, E, L)
    PROVE  SoundPlan([p EXCEPT !.waits = V], E, L)
<1>1. p \in Plans(D)
  BY DEF SoundPlan
<1>2. PICK q : q = [p EXCEPT !.waits = V]
  OBVIOUS
<1>3. q = [objects |-> p.objects, signaled |-> p.signaled, waits |-> V]
  BY <1>1, <1>2 DEF Plans
<1>4. q \in Plans(E) /\ q.objects = p.objects /\ q.signaled = p.signaled /\ q.waits = V
  BY <1>1, <1>3, PlanParts DEF Plans
<1>5. ObjectsSound(q, L, nextHandle) /\ TimersDiffer(q)
  BY <1>4 DEF SoundPlan, ObjectsSound, TimersDiffer
<1>6. \A s \in Slots : q.objects[s].type = objects[s].type
  BY <1>4 DEF SoundPlan
<1> QED  BY <1>2, <1>4, <1>5, <1>6 DEF SoundPlan

(* Two tables with the same waits but for their results, where the second  *)
(* has decided what the first had.                                         *)
Kept(W, V, D) ==
    \A k \in D : SameWait(W[k], V[k]) /\ (W[k].result # Pending => V[k].result # Pending)

(* project_apc_state                                                       *)
LEMMA SoundAlert ==
    ASSUME NEW D, NEW L, NEW p, SoundPlan(p, D, L), NEW T
    PROVE  /\ SoundPlan(AlertThreads(p, T), D, L)
           /\ AlertThreads(p, T).objects = p.objects /\ AlertThreads(p, T).signaled = p.signaled
           /\ Kept(p.waits, AlertThreads(p, T).waits, D)
           /\ \A k \in D :
                 /\ AlertThreads(p, T).waits[k].result \in {p.waits[k].result, IoCompletion}
                 /\ p.waits[k].thread \in T /\ p.waits[k].alertable =>
                        AlertThreads(p, T).waits[k].result # Pending
                 /\ p.waits[k].thread \notin T \/ p.waits[k].result # Pending =>
                        AlertThreads(p, T).waits[k] = p.waits[k]
<1>1. p \in Plans(D)
  BY DEF SoundPlan
<1> DEFINE V == [k \in D |-> IF p.waits[k].thread \in T /\ p.waits[k].alertable
                                  /\ p.waits[k].result = Pending
                             THEN [p.waits[k] EXCEPT !.result = IoCompletion]
                             ELSE p.waits[k]]
<1>2. AlertThreads(p, T) = [p EXCEPT !.waits = V]
  BY <1>1, PlanParts DEF AlertThreads
<1>3. IoCompletion \in Results /\ IoCompletion # Pending
  BY DEF Results, IoCompletion, Pending
<1>4. ASSUME NEW k \in D
      PROVE  /\ V[k] \in WaitRecord /\ SameWait(p.waits[k], V[k])
             /\ p.waits[k].result # Pending => V[k].result # Pending
             /\ V[k].result \in {p.waits[k].result, IoCompletion}
             /\ p.waits[k].thread \in T /\ p.waits[k].alertable => V[k].result # Pending
             /\ p.waits[k].thread \notin T \/ p.waits[k].result # Pending => V[k] = p.waits[k]
  <2>1. PICK w \in WaitRecord : w = p.waits[k]
    BY <1>1, PlanParts
  <2>2. PICK v : v = [w EXCEPT !.result = IoCompletion]
    OBVIOUS
  <2>3. v \in WaitRecord /\ SameWait(w, v) /\ v.result = IoCompletion
    BY <2>2, <1>3, WithResult
  <2>4. V[k] = IF w.thread \in T /\ w.alertable /\ w.result = Pending THEN v ELSE w
    BY <2>1, <2>2
  <2>5. SameWait(w, w)
    BY DEF SameWait
  <2> HIDE DEF V
  <2>6. CASE w.thread \in T /\ w.alertable /\ w.result = Pending
    BY <2>1, <2>3, <2>4, <2>6, <1>3
  <2>7. CASE ~(w.thread \in T /\ w.alertable /\ w.result = Pending)
    BY <2>1, <2>4, <2>5, <2>7
  <2> QED  BY <2>6, <2>7
<1>5. V \in [D -> WaitRecord]
  BY <1>4
<1>6. WaitsFit(V, D, L)
  <2>1. WaitsFit(p.waits, D, L)
    BY DEF SoundPlan
  <2> HIDE DEF V
  <2> QED  BY <1>4, <2>1 DEF WaitsFit, SameWait, Fits
<1> HIDE DEF V
<1>7. SoundPlan([p EXCEPT !.waits = V], D, L)
  BY <1>5, <1>6, SoundTable
<1>8. /\ [p EXCEPT !.waits = V].objects = p.objects
      /\ [p EXCEPT !.waits = V].signaled = p.signaled
      /\ [p EXCEPT !.waits = V].waits = V
  BY <1>1 DEF Plans
<1> QED  BY <1>2, <1>4, <1>7, <1>8 DEF Kept

(* clear_apc_thread                                                        *)
LEMMA SoundRearm ==
    ASSUME NEW D, NEW L, NEW p, SoundPlan(p, D, L), NEW u
    PROVE  /\ SoundPlan(RearmThread(p, u), D, L)
           /\ RearmThread(p, u).objects = p.objects /\ RearmThread(p, u).signaled = p.signaled
           /\ \A k \in D :
                 /\ SameWait(p.waits[k], RearmThread(p, u).waits[k])
                 /\ p.waits[k].thread # u => RearmThread(p, u).waits[k] = p.waits[k]
                 /\ RearmThread(p, u).waits[k].result # p.waits[k].result =>
                        p.waits[k].result = IoCompletion /\ p.waits[k].thread = u
<1>1. p \in Plans(D)
  BY DEF SoundPlan
<1> DEFINE V == [k \in D |-> IF p.waits[k].thread = u /\ p.waits[k].result = IoCompletion
                             THEN [p.waits[k] EXCEPT !.result = Pending]
                             ELSE p.waits[k]]
<1>2. RearmThread(p, u) = [p EXCEPT !.waits = V]
  BY <1>1, PlanParts DEF RearmThread
<1>3. Pending \in Results
  BY DEF Results
<1>4. ASSUME NEW k \in D
      PROVE  /\ V[k] \in WaitRecord /\ SameWait(p.waits[k], V[k])
             /\ p.waits[k].thread # u => V[k] = p.waits[k]
             /\ V[k].result # p.waits[k].result =>
                    p.waits[k].result = IoCompletion /\ p.waits[k].thread = u
  <2>1. PICK w \in WaitRecord : w = p.waits[k]
    BY <1>1, PlanParts
  <2>2. PICK v : v = [w EXCEPT !.result = Pending]
    OBVIOUS
  <2>3. v \in WaitRecord /\ SameWait(w, v)
    BY <2>2, <1>3, WithResult
  <2>4. V[k] = IF w.thread = u /\ w.result = IoCompletion THEN v ELSE w
    BY <2>1, <2>2
  <2>5. SameWait(w, w)
    BY DEF SameWait
  <2> HIDE DEF V
  <2> QED  BY <2>1, <2>3, <2>4, <2>5
<1>5. V \in [D -> WaitRecord]
  BY <1>4
<1>6. WaitsFit(V, D, L)
  <2>1. WaitsFit(p.waits, D, L)
    BY DEF SoundPlan
  <2> HIDE DEF V
  <2> QED  BY <1>4, <2>1 DEF WaitsFit, SameWait, Fits
<1> HIDE DEF V
<1>7. SoundPlan([p EXCEPT !.waits = V], D, L)
  BY <1>5, <1>6, SoundTable
<1>8. /\ [p EXCEPT !.waits = V].objects = p.objects
      /\ [p EXCEPT !.waits = V].signaled = p.signaled
      /\ [p EXCEPT !.waits = V].waits = V
  BY <1>1 DEF Plans
<1> QED  BY <1>2, <1>4, <1>7, <1>8

(* What commit_signals publishes.                                          *)
LEMMA CommitParts ==
    ASSUME NEW p, Commit(p), p.signaled \subseteq Slots
    PROVE  /\ waits' = p.waits /\ signaled' \subseteq p.signaled
           /\ \A s \in Slots :
                 \/ /\ p.objects[s].type # "event" /\ Reclaimable(p.objects[s], refs[s])
                    /\ objects'[s] = Free /\ s \notin signaled'
                 \/ /\ p.objects[s].type = "event" \/ ~Reclaimable(p.objects[s], refs[s])
                    /\ objects'[s] = p.objects[s] /\ (s \in signaled' <=> s \in p.signaled)
<1> DEFINE gone == {s \in Slots : /\ p.objects[s].type # "event"
                                  /\ Reclaimable(p.objects[s], refs[s])}
<1>1. /\ objects' = [s \in Slots |-> IF s \in gone THEN Free ELSE p.objects[s]]
      /\ signaled' = p.signaled \ gone /\ waits' = p.waits
  BY DEF Commit
<1> QED  BY <1>1

(* A committed plan is as sound as the plan.                               *)
LEMMA CommitKeepsObjects ==
    ASSUME ObjectInv, NEW D, NEW p, SoundPlan(p, D, live'), Commit(p),
           UNCHANGED <<refs, handles, nextHandle>>
    PROVE  ObjectInv'
<1>1. p \in Plans(D) /\ p.objects \in [Slots -> ObjectKind] /\ p.signaled \subseteq Slots
  BY PlanParts DEF SoundPlan
<1>2. \A s \in Slots : p.objects[s].type = objects[s].type
  BY DEF SoundPlan
<1>3. /\ signaled' \subseteq p.signaled
      /\ \A s \in Slots :
            \/ /\ p.objects[s].type # "event" /\ Reclaimable(p.objects[s], refs[s])
               /\ objects'[s] = Free /\ s \notin signaled'
            \/ /\ p.objects[s].type = "event" \/ ~Reclaimable(p.objects[s], refs[s])
               /\ objects'[s] = p.objects[s] /\ (s \in signaled' <=> s \in p.signaled)
  BY <1>1, CommitParts
<1>4. Free \in ObjectKind /\ Free.type = "free"
  BY DEF ObjectKind, Free
<1>5. ObjectsTyped'
  <2>1. \A s \in Slots : objects'[s] \in ObjectKind
    BY <1>1, <1>3, <1>4
  <2>2. objects' = [s \in Slots |-> objects'[s]]
    BY DEF Commit
  <2>3. objects' \in [Slots -> ObjectKind]
    BY <2>1, <2>2
  <2> QED  BY <1>1, <1>3, <2>3 DEF ObjectsTyped
<1>6. HandlesTyped'
  BY DEF ObjectInv, HandlesTyped
<1>7. HandlesCounted'
  BY DEF ObjectInv, HandlesCounted, Names
<1>8. ASSUME NEW s \in Slots
      PROVE  /\ refs'[s] # 0 => objects'[s].type # "free"
             /\ ~Reclaimable(objects'[s], refs'[s])
  <2>1. /\ refs[s] # 0 => objects[s].type # "free"
        /\ ~Reclaimable(objects[s], refs[s]) /\ refs'[s] = refs[s]
    BY DEF ObjectInv, SlotsUsed
  <2>2. p.objects[s].type = objects[s].type
    BY <1>2
  <2>3. CASE objects'[s] = Free /\ Reclaimable(p.objects[s], refs[s])
    BY <1>4, <2>1, <2>3 DEF Reclaimable
  <2>4. CASE objects'[s] = p.objects[s] /\ ~Reclaimable(p.objects[s], refs[s])
    BY <2>1, <2>2, <2>4
  <2>5. CASE objects'[s] = p.objects[s] /\ p.objects[s].type = "event"
    BY <2>1, <2>2, <2>5 DEF Reclaimable
  <2> QED  BY <1>3, <2>3, <2>4, <2>5
<1>9. SlotsUsed'
  BY <1>8 DEF SlotsUsed
<1>10. ASSUME NEW s \in Slots
       PROVE  ObjectSound(objects'[s], s \in signaled', live', nextHandle)
  <2>1. CASE objects'[s] = Free /\ s \notin signaled'
    BY <1>4, <2>1 DEF ObjectSound
  <2>2. CASE objects'[s] = p.objects[s] /\ (s \in signaled' <=> s \in p.signaled)
    <3>1. ObjectSound(p.objects[s], s \in p.signaled, live', nextHandle)
      BY DEF SoundPlan, ObjectsSound
    <3> QED  BY <2>2, <3>1 DEF ObjectSound, MutexSound
  <2> QED  BY <1>3, <2>1, <2>2
<1>11. ObjectsSound(Plan, live, nextHandle)'
  <2>1. Plan'.objects = objects' /\ Plan'.signaled = signaled' /\ nextHandle' = nextHandle
    BY DEF Plan
  <2> QED  BY <1>10, <2>1 DEF ObjectsSound, Plan
<1>12. TimersDiffer(Plan)'
  <2>1. TimersDiffer(p)
    BY DEF SoundPlan
  <2>2. \A s \in Slots : objects'[s].type = "timer" => objects'[s] = p.objects[s]
    BY <1>3, <1>4
  <2> QED  BY <2>1, <2>2 DEF TimersDiffer, Plan
<1> QED  BY <1>5, <1>6, <1>7, <1>9, <1>11, <1>12 DEF ObjectInv

-----------------------------------------------------------------------------
(* Waits.                                                                  *)

WaitsTyped ==
    /\ nextWait \in Nat /\ DOMAIN waits \subseteq 1 .. nextWait
    /\ waits \in [DOMAIN waits -> WaitRecord]
    /\ now \in Nat /\ live \subseteq Threads

FramesTyped == reply \in [Threads -> Reply] /\ active \in [Threads -> Seq(Reply)]

(* The call f of thread t is in the table W, as its own.                   *)
FrameHolds(f, t, W) ==
    f.wait # 0 => /\ f.wait \in DOMAIN W
                  /\ W[f.wait].thread = t /\ W[f.wait].alertable = f.alertable

(* The calls of thread t: r the one it is blocked in, and stack those its  *)
(* callbacks interrupted.  These are decided, and no two name the same wait.*)
ThreadHolds(t, r, stack, W) ==
    /\ FrameHolds(r, t, W)
    /\ \A i \in DOMAIN stack :
           /\ FrameHolds(stack[i], t, W)
           /\ stack[i].wait # 0 =>
                 /\ W[stack[i].wait].result # Pending
                 /\ stack[i].wait # r.wait
                 /\ \A j \in DOMAIN stack : j # i => stack[j].wait # stack[i].wait

FramesHold == \A t \in Threads : ThreadHolds(t, reply[t], active[t], waits)

(* Call r or one of the calls in the stack is the caller of wait w.        *)
Takes(r, stack, w) == r.wait = w \/ \E i \in DOMAIN stack : stack[i].wait = w

WaitsTaken ==
    \A w \in DOMAIN waits : Takes(reply[waits[w].thread], active[waits[w].thread], w)

(* An undecided alertable wait has no callback to report.                  *)
Unalerted == \A w \in Undecided : waits[w].alertable => waits[w].thread \notin apcs

WaitInv ==
    /\ WaitsTyped /\ FramesTyped /\ WaitsFit(waits, DOMAIN waits, live)
    /\ FramesHold /\ WaitsTaken /\ Unalerted

(* The plan of an operation, before it changes anything, is sound.         *)
LEMMA PlanIsSound ==
    ASSUME ObjectInv, WaitInv
    PROVE  SoundPlan(Plan, DOMAIN waits, live)
<1>1. Plan.objects = objects /\ Plan.signaled = signaled /\ Plan.waits = waits
  BY DEF Plan
<1>2. Plan \in Plans(DOMAIN waits)
  BY DEF Plan, Plans, ObjectInv, ObjectsTyped, WaitInv, WaitsTyped
<1>3. ObjectsSound(Plan, live, nextHandle) /\ TimersDiffer(Plan)
  BY DEF ObjectInv
<1>4. WaitsFit(Plan.waits, DOMAIN waits, live)
  BY <1>1 DEF WaitInv
<1> QED  BY <1>1, <1>2, <1>3, <1>4 DEF SoundPlan

(* Of the waits of a thread only that of the call it is blocked in can be  *)
(* undecided.                                                              *)
LEMMA UndecidedIsReplied ==
    ASSUME WaitInv, NEW w \in DOMAIN waits, waits[w].result = Pending
    PROVE  /\ reply[waits[w].thread].wait = w /\ w # 0
           /\ waits[w].thread \in Threads /\ waits[w].thread \in live
<1>1. waits[w] \in WaitRecord /\ w # 0
  BY DEF WaitInv, WaitsTyped
<1>2. PICK t \in Threads : t = waits[w].thread
  BY <1>1, WaitParts
<1>3. Takes(reply[t], active[t], w)
  BY <1>2 DEF WaitInv, WaitsTaken
<1>4. ASSUME NEW i \in DOMAIN active[t], active[t][i].wait = w PROVE FALSE
  <2>1. ThreadHolds(t, reply[t], active[t], waits)
    BY DEF WaitInv, FramesHold
  <2> QED  BY <1>1, <1>4, <2>1 DEF ThreadHolds
<1>5. t \in live
  BY <1>2 DEF WaitInv, WaitsFit
<1> QED  BY <1>1, <1>2, <1>3, <1>4, <1>5 DEF Takes

(* No thread has two undecided waits.                                      *)
LEMMA AloneInTable ==
    ASSUME WaitInv
    PROVE  LoneWaits(waits, DOMAIN waits)
  BY UndecidedIsReplied DEF LoneWaits

(* Every thread is blocked in the call it was blocked in, or in a call that *)
(* has no wait in the table.                                               *)
RepliesKept ==
    /\ reply' \in [Threads -> Reply]
    /\ \A t \in Threads : reply'[t] = reply[t] \/ (reply[t].wait = 0 /\ reply'[t].wait = 0)

(* Steps that leave the table's callers alone and decide waits.            *)
LEMMA KeptWaits ==
    ASSUME WaitInv, waits' \in [DOMAIN waits -> WaitRecord],
           nextWait' = nextWait, now' \in Nat, UNCHANGED <<active, live>>, RepliesKept,
           \A w \in DOMAIN waits : SameWait(waits[w], waits'[w]),
           \A w \in DOMAIN waits : active[waits[w].thread] # <<>> /\ waits[w].result # Pending
                => waits'[w].result # Pending,
           Unalerted'
    PROVE  WaitInv'
<1>1. DOMAIN waits' = DOMAIN waits
  OBVIOUS
<1>2. WaitsTyped' /\ FramesTyped'
  BY <1>1 DEF WaitInv, WaitsTyped, FramesTyped, RepliesKept
<1>3. WaitsFit(waits, DOMAIN waits, live)'
  BY <1>1 DEF WaitInv, WaitsFit, SameWait, Fits
<1>4. ASSUME NEW t \in Threads PROVE ThreadHolds(t, reply'[t], active[t], waits')
  <2>1. ThreadHolds(t, reply[t], active[t], waits)
    BY DEF WaitInv, FramesHold
  <2>2. ASSUME NEW f, FrameHolds(f, t, waits) PROVE FrameHolds(f, t, waits')
    BY <1>1, <2>2 DEF FrameHolds, SameWait
  <2>3. ASSUME NEW i \in DOMAIN active[t], active[t][i].wait # 0
        PROVE  waits'[active[t][i].wait].result # Pending
    <3>1. PICK w : w = active[t][i].wait
      OBVIOUS
    <3>2. w \in DOMAIN waits /\ waits[w].thread = t /\ waits[w].result # Pending
      BY <2>1, <2>3, <3>1 DEF ThreadHolds, FrameHolds
    <3>3. active[t] # <<>>
      BY <2>3
    <3> QED  BY <3>1, <3>2, <3>3
  <2>4. /\ FrameHolds(reply'[t], t, waits')
        /\ reply'[t].wait = reply[t].wait
    BY <2>1, <2>2 DEF RepliesKept, ThreadHolds, FrameHolds
  <2>5. \A i \in DOMAIN active[t] :
           /\ FrameHolds(active[t][i], t, waits)
           /\ active[t][i].wait # 0 =>
                 /\ active[t][i].wait # reply[t].wait
                 /\ \A j \in DOMAIN active[t] : j # i => active[t][j].wait # active[t][i].wait
    BY <2>1 DEF ThreadHolds
  <2> QED  BY <2>2, <2>3, <2>4, <2>5 DEF ThreadHolds
<1>5. FramesHold'
  BY <1>4 DEF FramesHold
<1>6. WaitsTaken'
  <2>1. ASSUME NEW w \in DOMAIN waits
        PROVE  Takes(reply'[waits'[w].thread], active[waits'[w].thread], w)
    <3>1. PICK t \in Threads : t = waits[w].thread /\ waits'[w].thread = t
      BY WaitParts DEF WaitInv, WaitsTyped, SameWait
    <3>2. Takes(reply[t], active[t], w)
      BY <3>1 DEF WaitInv, WaitsTaken
    <3>3. reply'[t].wait = reply[t].wait
      BY DEF RepliesKept
    <3> QED  BY <3>1, <3>2, <3>3 DEF Takes
  <2> QED  BY <1>1, <2>1 DEF WaitsTaken
<1> QED  BY <1>2, <1>3, <1>5, <1>6 DEF WaitInv

(* The same when no callback was queued and no wait is undecided again.    *)
LEMMA DecidedWaits ==
    ASSUME WaitInv, waits' \in [DOMAIN waits -> WaitRecord], Kept(waits, waits', DOMAIN waits),
           nextWait' = nextWait, now' \in Nat, UNCHANGED <<active, live>>,
           reply' = reply \/ RepliesKept, apcs' \subseteq apcs
    PROVE  WaitInv'
<1>1. \A w \in DOMAIN waits : /\ SameWait(waits[w], waits'[w])
                              /\ waits[w].result # Pending => waits'[w].result # Pending
  BY DEF Kept
<1>2. Unalerted'
  <2>1. DOMAIN waits' = DOMAIN waits
    OBVIOUS
  <2> QED  BY <1>1, <2>1 DEF Unalerted, WaitInv, Undecided, SameWait
<1>3. RepliesKept
  BY DEF RepliesKept, WaitInv, FramesTyped
<1> QED  BY <1>1, <1>2, <1>3, KeptWaits

(* Callbacks of timers.                                                    *)

QueueTyped ==
    /\ nextInvocation \in Nat /\ DOMAIN invocations \subseteq 1 .. nextInvocation
    /\ invocations \in [DOMAIN invocations -> Invocation]
    /\ \A i \in DOMAIN invocations :
           invocations[i].target \in live /\ invocations[i].timer <= nextHandle

(* The callbacks in the queue I of the timer with this id.                 *)
Callbacks(id, I) == {i \in DOMAIN I : I[i].timer = id}

(* A timer has its one callback in the queue, or none.                     *)
CallbackSound(o, I) ==
    o.type = "timer" =>
        /\ o.queued => \E i \in DOMAIN I : Callbacks(o.id, I) = {i}
        /\ ~o.queued => Callbacks(o.id, I) = {}
        /\ \A i \in Callbacks(o.id, I) : I[i].generation = o.generation /\ I[i].target = o.thread

CallbacksSound(O, I) == \A s \in Slots : CallbackSound(O[s], I)

QueueInv == QueueTyped /\ ApcListExact /\ CallbacksSound(objects, invocations)

IInv == ObjectInv /\ WaitInv /\ QueueInv

(* Steps that leave the queue alone.                                       *)
LEMMA KeptQueue ==
    ASSUME QueueInv, UNCHANGED <<invocations, nextInvocation, apcs, live>>,
           nextHandle \in Nat, nextHandle' \in Nat, nextHandle <= nextHandle',
           \A s \in Slots : objects'[s].type = "timer" =>
               \/ objects'[s] = objects[s]
               \/ objects'[s].id = nextHandle + 1 /\ ~objects'[s].queued
    PROVE  QueueInv'
<1>1. QueueTyped'
  <2>1. \A i \in DOMAIN invocations : invocations[i].timer \in Nat /\ invocations[i].timer <= nextHandle
    BY DEF QueueInv, QueueTyped, Invocation
  <2>2. \A i \in DOMAIN invocations : invocations[i].timer <= nextHandle'
    BY <2>1
  <2> QED  BY <2>2 DEF QueueInv, QueueTyped
<1>2. ApcListExact'
  BY DEF QueueInv, ApcListExact, Queued
<1>3. ASSUME NEW s \in Slots PROVE CallbackSound(objects'[s], invocations)
  <2>1. CASE objects'[s].type = "timer" /\ objects'[s].id = nextHandle + 1 /\ ~objects'[s].queued
    <3>1. \A i \in DOMAIN invocations : invocations[i].timer # nextHandle + 1
      BY DEF QueueInv, QueueTyped, Invocation
    <3>2. Callbacks(objects'[s].id, invocations) = {}
      BY <2>1, <3>1 DEF Callbacks
    <3> QED  BY <2>1, <3>2 DEF CallbackSound
  <2>2. CASE objects'[s] = objects[s]
    BY <2>2 DEF QueueInv, CallbacksSound
  <2>3. CASE objects'[s].type # "timer"
    BY <2>3 DEF CallbackSound
  <2> QED  BY <2>1, <2>2, <2>3
<1> QED  BY <1>1, <1>2, <1>3 DEF QueueInv, CallbacksSound

(* A commit publishes the timers of its plan.                              *)
LEMMA CommitTimers ==
    ASSUME NEW p, Commit(p), p.signaled \subseteq Slots
    PROVE  \A s \in Slots : objects'[s].type # "free" => objects'[s] = p.objects[s]
<1>1. Free.type = "free"
  BY DEF Free
<1> QED  BY <1>1, CommitParts

(* Operations that change no timer, no call and no handle, and decide      *)
(* waits.                                                                  *)
LEMMA SignalKeeps ==
    ASSUME IInv, NEW p, SoundPlan(p, DOMAIN waits, live), Signal(p),
           Kept(waits, p.waits, DOMAIN waits),
           \A s \in Slots : objects[s].type = "timer" => p.objects[s] = objects[s]
    PROVE  IInv'
<1>1. /\ Commit(p) /\ p \in Plans(DOMAIN waits)
      /\ UNCHANGED <<refs, handles, nextHandle, nextWait, apcs, now, queue, reply, live>>
      /\ UNCHANGED <<invocations, nextInvocation, active>>
  BY DEF Signal, SoundPlan, queue
<1>2. ObjectInv'
  BY <1>1, CommitKeepsObjects DEF IInv
<1>3. waits' = p.waits /\ waits' \in [DOMAIN waits -> WaitRecord]
  BY <1>1, PlanParts DEF Commit
<1>4. WaitInv'
  BY <1>1, <1>3, DecidedWaits DEF IInv, WaitInv, WaitsTyped
<1>5. \A s \in Slots : objects'[s].type = "timer" => objects'[s] = objects[s]
  BY <1>1, PlanParts, CommitTimers DEF SoundPlan
<1>6. nextHandle \in Nat /\ nextHandle' \in Nat /\ nextHandle <= nextHandle'
  BY <1>1 DEF IInv, ObjectInv, HandlesTyped
<1>7. QueueInv'
  BY <1>1, <1>5, <1>6, KeptQueue DEF IInv
<1> QED  BY <1>2, <1>4, <1>7 DEF IInv

(* What resolution leaves.                                                 *)
LEMMA ResolvedKeeps ==
    ASSUME NEW D, NEW p, NEW q, Resolved(p, q, D)
    PROVE  /\ Kept(p.waits, q.waits, D)
           /\ \A s \in Slots : p.objects[s].type = "timer" => q.objects[s] = p.objects[s]
<1>1. \A k \in D : SameWait(p.waits[k], q.waits[k]) /\ Decides(p.waits[k], q.waits[k])
  BY DEF Resolved
<1>2. \A k \in D : p.waits[k].result # Pending => q.waits[k].result # Pending
  BY <1>1 DEF Decides
<1>3. \A s \in Slots : SameObject(p.objects[s], q.objects[s])
  BY DEF Resolved
<1> QED  BY <1>1, <1>2, <1>3 DEF Kept, SameObject

(* The clock and the last ids issued are numbers.                          *)
LEMMA NowNat == ASSUME IInv PROVE now \in Nat /\ nextWait \in Nat /\ nextHandle \in Nat
  BY DEF IInv, WaitInv, WaitsTyped, ObjectInv, HandlesTyped

-----------------------------------------------------------------------------
(* What a step does to undecided waits, and to results.                     *)

(* Every wait of the table of a plan is decided or neither satisfied nor    *)
(* expired: what a pass leaves behind.                                      *)
SettledPlan(p, D, t) == \A k \in D : Settled(p, k, t)

(* The objects that a wait names are in q no readier for it than in p.      *)
NotReadierFor(p, q, w) ==
    \A i \in DOMAIN w.slots : Ready(q, w.slots[i], w.thread) => Ready(p, w.slots[i], w.thread)

(* A wait stays settled while its own objects get no readier for it.       *)
LEMMA StillSettled ==
    ASSUME NEW p, NEW q, NEW k, NEW t, p.waits[k] \in WaitRecord, q.waits[k] \in WaitRecord,
           SameWait(p.waits[k], q.waits[k]),
           q.waits[k].result = Pending =>
               p.waits[k].result = Pending /\ NotReadierFor(p, q, q.waits[k]),
           Settled(p, k, t)
    PROVE  Settled(q, k, t)
<1>1. CASE q.waits[k].result # Pending
  BY <1>1 DEF Settled
<1>2. CASE q.waits[k].result = Pending
  <2> PICK v : v = p.waits[k]
    OBVIOUS
  <2> PICK w : w = q.waits[k]
    OBVIOUS
  <2>1. ~Satisfied(p, v) /\ ~Expired(v, t)
    BY <1>2 DEF Settled
  <2>2. w.mode \in {"any", "all", "sleep"} /\ SameWait(v, w)
    BY WaitParts
  <2>3. ~Expired(w, t)
    BY <2>1, <2>2 DEF Expired, SameWait
  <2>4. NotReadierFor(p, q, w)
    BY <1>2
  <2>5. ASSUME Satisfied(q, w) PROVE FALSE
    <3>1. CASE w.mode = "sleep"
      BY <2>5, <3>1 DEF Satisfied
    <3>2. CASE w.mode = "any"
      <4>1. PICK i \in DOMAIN w.slots : Ready(q, w.slots[i], w.thread)
        BY <2>5, <3>2 DEF Satisfied
      <4>2. Ready(p, v.slots[i], v.thread) /\ i \in DOMAIN v.slots /\ v.mode = "any"
        BY <2>2, <2>4, <3>2, <4>1 DEF NotReadierFor, SameWait
      <4> QED  BY <2>1, <4>2 DEF Satisfied
    <3>3. CASE w.mode = "all"
      <4>1. \A i \in DOMAIN w.slots : Ready(q, w.slots[i], w.thread)
        BY <2>5, <3>3 DEF Satisfied
      <4>2. \A i \in DOMAIN v.slots : Ready(p, v.slots[i], v.thread)
        BY <2>2, <2>4, <4>1 DEF NotReadierFor, SameWait
      <4>3. v.mode = "all"
        BY <2>2, <3>3 DEF SameWait
      <4> QED  BY <2>1, <4>2, <4>3 DEF Satisfied
    <3> QED  BY <2>2, <3>1, <3>2, <3>3
  <2> QED  BY <2>3, <2>5 DEF Settled
<1> QED  BY <1>1, <1>2

(* A commit only frees objects, and nobody waits successfully on a free     *)
(* one: what was settled in the plan is settled in the state.               *)
LEMMA CommitSettles ==
    ASSUME NEW D, NEW p \in Plans(D), NEW t, Commit(p), SettledPlan(p, D, t)
    PROVE  DOMAIN waits' = D /\ SettledPlan(Plan', D, t)
<1>1. p.signaled \subseteq Slots /\ DOMAIN p.waits = D /\ \A k \in D : p.waits[k] \in WaitRecord
  BY PlanParts
<1>2. waits' = p.waits
  BY <1>1, CommitParts
<1> PICK q : q = Plan'
  OBVIOUS
<1>3. q.objects = objects' /\ q.signaled = signaled' /\ q.waits = waits'
  BY DEF Plan
<1>4. ASSUME NEW u, NEW s \in Slots, Ready(q, s, u) PROVE Ready(p, s, u)
  <2>1. CASE q.objects[s] = Free
    BY <1>4, <2>1 DEF Ready, Free
  <2>2. CASE q.objects[s] = p.objects[s] /\ (s \in q.signaled <=> s \in p.signaled)
    BY <1>4, <2>2 DEF Ready
  <2> QED  BY <1>1, <1>3, <2>1, <2>2, CommitParts
<1>5. ASSUME NEW k \in D PROVE Settled(q, k, t)
  <2>1. q.waits[k] = p.waits[k] /\ p.waits[k] \in WaitRecord
    BY <1>1, <1>2, <1>3
  <2>2. \A i \in DOMAIN p.waits[k].slots : p.waits[k].slots[i] \in Slots
    BY <2>1, WaitParts
  <2>3. NotReadierFor(p, q, q.waits[k])
    BY <1>4, <2>1, <2>2 DEF NotReadierFor
  <2>4. SameWait(p.waits[k], q.waits[k])
    BY <2>1 DEF SameWait
  <2>5. Settled(p, k, t)
    BY DEF SettledPlan
  <2> QED  BY <2>1, <2>3, <2>4, <2>5, StillSettled
<1> QED  BY <1>1, <1>2, <1>5 DEF SettledPlan

-----------------------------------------------------------------------------
(* The two invariants about undecided waits are inductive together, for    *)
(* programs that do not both close handles and set timers anew: run         *)
(* closed_handle_rearmed shows why they are not for the others.             *)

NoRetime == Calls \cap {"SetWaitableTimer", "CancelWaitableTimer"} = {}
NoClose  == Calls \cap {"CloseHandle", "DuplicateHandle"} = {}

(* The handles of a wait are open and name its slots.                       *)
Held(w, H) == \A i \in DOMAIN w.handles :
    w.handles[i] \in DOMAIN H /\ H[w.handles[i]] = w.slots[i]

(* Where timers are set anew, decided waits may become undecided again, and *)
(* keep their handles; the other programs may close them.                   *)
HandlesStay == NoClose /\ ~NoRetime

HandlesHeld ==
    \A w \in DOMAIN waits : waits[w].result = Pending \/ HandlesStay => Held(waits[w], handles)
AllSettled  == SettledPlan(Plan, DOMAIN waits, now)

NInv == HandlesHeld /\ AllSettled

(* The result of a wait after a step that may not change it once decided,   *)
(* except that a cancelled timer takes back its callback, and that does not *)
(* report a callback which is not there.                                    *)
MayBecome(v, w) ==
    /\ SameWait(v, w)
    /\ \/ w.result = v.result
       \/ v.result = Pending /\ (w.result = IoCompletion => v.thread \in apcs')
       \/ v.result = IoCompletion /\ v.thread \notin apcs' /\ ~NoRetime

(* The waits of a step: old ones as above, and new ones hold their handles. *)
WaitsAdvance ==
    \A w \in DOMAIN waits' :
        IF w \in DOMAIN waits THEN MayBecome(waits[w], waits'[w])
                              ELSE waits'[w].result = Pending /\ Held(waits'[w], handles)

HandlesGrow ==
    DOMAIN handles \subseteq DOMAIN handles' /\ \A h \in DOMAIN handles : handles'[h] = handles[h]

(* What is shown of each operation.                                         *)
Steady == /\ WaitsAdvance
          /\ NInv /\ (NoRetime \/ NoClose) => NInv'

(* Handles stay with the waits while no handle is closed.                   *)
LEMMA HeldKeeps ==
    ASSUME HandlesHeld, WaitsAdvance, HandlesGrow, NoRetime \/ NoClose
    PROVE  HandlesHeld'
<1> SUFFICES ASSUME NEW w \in DOMAIN waits', waits'[w].result = Pending \/ HandlesStay
             PROVE  Held(waits'[w], handles')
  BY DEF HandlesHeld, HandlesStay, NoClose, NoRetime
<1>1. CASE w \in DOMAIN waits
  <2>1. MayBecome(waits[w], waits'[w])
    BY <1>1 DEF WaitsAdvance
  <2>2. waits[w].result = Pending \/ HandlesStay
    BY <2>1, <1>1 DEF MayBecome, HandlesStay
  <2>3. Held(waits[w], handles)
    BY <1>1, <2>2 DEF HandlesHeld
  <2>4. waits'[w].handles = waits[w].handles /\ waits'[w].slots = waits[w].slots
    BY <2>1 DEF MayBecome, SameWait
  <2> QED  BY <2>3, <2>4 DEF Held, HandlesGrow
<1>2. CASE w \notin DOMAIN waits
  <2>1. Held(waits'[w], handles)
    BY <1>2 DEF WaitsAdvance
  <2> QED  BY <2>1 DEF Held, HandlesGrow
<1> QED  BY <1>1, <1>2

(* Operations that commit a settled plan.                                   *)
LEMMA CommitAdvances ==
    ASSUME NEW D, NEW p \in Plans(D), Commit(p), UNCHANGED handles,
           \A k \in D : IF k \in DOMAIN waits THEN MayBecome(waits[k], p.waits[k])
                        ELSE p.waits[k].result = Pending /\ Held(p.waits[k], handles),
           NInv /\ (NoRetime \/ NoClose) => SettledPlan(p, D, now')
    PROVE  Steady
<1>1. waits' = p.waits /\ DOMAIN waits' = D
  BY PlanParts, CommitParts
<1>2. WaitsAdvance
  BY <1>1 DEF WaitsAdvance
<1>3. ASSUME NInv, NoRetime \/ NoClose PROVE NInv'
  <2>1. HandlesGrow
    BY DEF HandlesGrow
  <2>2. HandlesHeld'
    BY <1>2, <1>3, <2>1, HeldKeeps DEF NInv
  <2> PICK t : t = now'
    OBVIOUS
  <2>3. SettledPlan(Plan', D, t)
    BY <1>3, CommitSettles
  <2>4. AllSettled'
    BY <1>1, <2>3 DEF AllSettled
  <2> QED  BY <2>2, <2>4 DEF NInv
<1> QED  BY <1>2, <1>3 DEF Steady

(* Deciding waits leaves each thread with one undecided wait at most.       *)
LEMMA LoneDecided ==
    ASSUME WaitInv, NEW D, D \subseteq DOMAIN waits, NEW W,
           \A k \in D : /\ SameWait(waits[k], W[k])
                        /\ W[k].result = Pending => waits[k].result = Pending
    PROVE  LoneWaits(W, D)
<1>1. LoneWaits(waits, DOMAIN waits)
  BY AloneInTable
<1>2. \A k \in D : W[k].thread = waits[k].thread
  BY DEF SameWait
<1> QED  BY <1>1, <1>2 DEF LoneWaits

(* What a pass over a sound plan decides may be committed.                 *)
LEMMA PassAdvances ==
    ASSUME IInv, NEW D, D \subseteq DOMAIN waits, NEW L, NEW p, SoundPlan(p, D, L),
           LoneWaits(p.waits, D), \A k \in D : MayBecome(waits[k], p.waits[k]),
           NEW t, NEW q, q = ResolveWaiters(p, nextWait, t)
    PROVE  /\ q \in Plans(D) /\ SoundPlan(q, D, L) /\ SettledPlan(q, D, t)
           /\ \A k \in D : MayBecome(waits[k], q.waits[k])
<1>1. nextWait \in Nat /\ D \subseteq 1 .. nextWait
  BY DEF IInv, WaitInv, WaitsTyped
<1>2. SoundPlan(q, D, L) /\ Resolved(p, q, D)
  BY <1>1, SoundWaiters
<1>3. p \in Plans(D) /\ Mutexes(p, L) /\ WaitsFit(p.waits, D, L)
  BY SoundMutexes
<1>4. \A k \in D : Settled(q, k, t)
  BY <1>1, <1>3, ResolveWaitersSettles
<1>5. ASSUME NEW k \in D PROVE MayBecome(waits[k], q.waits[k])
  <2> PICK v : v = waits[k]
    OBVIOUS
  <2> PICK w : w = p.waits[k]
    OBVIOUS
  <2> PICK x : x = q.waits[k]
    OBVIOUS
  <2>1. MayBecome(v, w) /\ SameWait(w, x) /\ Decides(w, x)
    BY <1>2 DEF Resolved
  <2>2. SameWait(v, x)
    BY <2>1 DEF MayBecome, SameWait
  <2>3. IoCompletion # Pending
    BY DEF IoCompletion, Pending
  <2> QED  BY <2>1, <2>2, <2>3 DEF MayBecome, Decides
<1> QED  BY <1>2, <1>4, <1>5 DEF SettledPlan, Resolved

(* A wait that a step leaves alone.                                         *)
LEMMA Unmoved ==
    /\ \A v : MayBecome(v, v)
    /\ \A v, w : SameWait(v, w) /\ w.result = v.result => MayBecome(v, w)
    /\ \A v, w : SameWait(v, w) /\ v.result = Pending
                     /\ (w.result = IoCompletion => v.thread \in apcs') => MayBecome(v, w)
BY DEF MayBecome, SameWait

(* Operations that change objects and resolve the waits on them.            *)
LEMMA ResolvedAdvances ==
    ASSUME IInv, NEW p, SoundPlan(p, DOMAIN waits, live), p.waits = waits,
           Commit(ResolveWaiters(p, nextWait, now)), UNCHANGED <<handles, now>>
    PROVE  Steady
<1> PICK q : q = ResolveWaiters(p, nextWait, now)
  OBVIOUS
<1> PICK D : D = DOMAIN waits
  OBVIOUS
<1>1. LoneWaits(p.waits, D)
  BY AloneInTable DEF IInv
<1>2. \A k \in D : MayBecome(waits[k], p.waits[k])
  BY Unmoved
<1>3. q \in Plans(D) /\ SettledPlan(q, D, now) /\ \A k \in D : MayBecome(waits[k], q.waits[k])
  BY <1>1, <1>2, PassAdvances
<1> QED  BY <1>3, CommitAdvances

(* The plan of the state is settled, and so is every plan that makes none   *)
(* of its objects readier.                                                  *)
LEMMA NoReadierSettles ==
    ASSUME IInv, NInv, NEW D, D \subseteq DOMAIN waits, NEW p, p.waits \in [D -> WaitRecord],
           \A k \in D : /\ SameWait(waits[k], p.waits[k])
                        /\ p.waits[k].result = Pending => waits[k].result = Pending,
           \A k \in D : p.waits[k].result = Pending => NotReadierFor(Plan, p, p.waits[k])
    PROVE  SettledPlan(p, D, now)
<1> PICK r : r = Plan
  OBVIOUS
<1>1. r.waits = waits /\ \A k \in DOMAIN waits : r.waits[k] \in WaitRecord
  BY DEF Plan, IInv, WaitInv, WaitsTyped
<1>2. \A k \in D : p.waits[k] \in WaitRecord
  OBVIOUS
<1>3. ASSUME NEW k \in D PROVE Settled(p, k, now)
  <2>1. Settled(r, k, now)
    BY DEF NInv, AllSettled, SettledPlan
  <2>2. /\ r.waits[k] \in WaitRecord /\ p.waits[k] \in WaitRecord
        /\ SameWait(r.waits[k], p.waits[k])
        /\ p.waits[k].result = Pending =>
               r.waits[k].result = Pending /\ NotReadierFor(r, p, p.waits[k])
    BY <1>1, <1>2
  <2> QED  BY <2>1, <2>2, StillSettled
<1> QED  BY <1>3 DEF SettledPlan

(* A plan that keeps the objects of the state, or clears signals and writes *)
(* timers, makes nothing readier.                                           *)
LEMMA KeptObjectsNotReadier ==
    ASSUME NEW p, p.signaled \subseteq signaled,
           \A s \in Slots : \/ p.objects[s] = objects[s]
                            \/ p.objects[s] = Free
                            \/ p.objects[s].type = "timer" /\ objects[s].type = "timer"
    PROVE  \A w \in WaitRecord : NotReadierFor(Plan, p, w)
<1> PICK r : r = Plan
  OBVIOUS
<1>1. r.objects = objects /\ r.signaled = signaled
  BY DEF Plan
<1>2. ASSUME NEW s \in Slots, NEW u, Ready(p, s, u) PROVE Ready(r, s, u)
  <2>1. CASE p.objects[s] = objects[s]
    BY <1>1, <1>2, <2>1 DEF Ready
  <2>2. CASE p.objects[s] = Free
    BY <1>2, <2>2 DEF Ready, Free
  <2>3. CASE p.objects[s].type = "timer" /\ objects[s].type = "timer"
    BY <1>1, <1>2, <2>3 DEF Ready
  <2> QED  BY <2>1, <2>2, <2>3
<1> QED  BY <1>2, WaitParts DEF NotReadierFor

(* Commits that change waits no further than deciding them, and make no     *)
(* object readier.                                                          *)
LEMMA QuietCommit ==
    ASSUME IInv, NEW p \in Plans(DOMAIN waits), Commit(p), UNCHANGED <<handles, now>>,
           \A w \in DOMAIN waits : /\ MayBecome(waits[w], p.waits[w])
                                   /\ p.waits[w].result = Pending => waits[w].result = Pending,
           \A w \in DOMAIN waits : NInv /\ p.waits[w].result = Pending
                                       => NotReadierFor(Plan, p, p.waits[w])
    PROVE  Steady
<1> PICK D : D = DOMAIN waits
  OBVIOUS
<1>1. p.waits \in [D -> WaitRecord]
  BY PlanParts
<1>2. NInv => SettledPlan(p, D, now)
  BY <1>1, NoReadierSettles DEF MayBecome
<1> QED  BY <1>2, CommitAdvances

(* Operations that write the waits alone, or free an object.                *)
LEMMA QuietSettles ==
    ASSUME IInv, now' = now, NEW D, D = DOMAIN waits', D \subseteq DOMAIN waits,
           waits' \in [D -> WaitRecord],
           \A w \in D : /\ MayBecome(waits[w], waits'[w])
                        /\ waits'[w].result = Pending => waits[w].result = Pending,
           NEW q, q = Plan',
           \A w \in D : NInv /\ waits'[w].result = Pending => NotReadierFor(Plan, q, waits'[w])
    PROVE  /\ WaitsAdvance /\ (NInv => AllSettled')
           /\ HandlesGrow => Steady
<1>1. q.waits = waits'
  BY DEF Plan
<1>2. WaitsAdvance
  BY DEF WaitsAdvance
<1>3. ASSUME NInv PROVE AllSettled'
  <2>1. SettledPlan(q, D, now)
    BY <1>1, <1>3, NoReadierSettles DEF MayBecome
  <2> QED  BY <2>1 DEF AllSettled
<1>4. ASSUME HandlesGrow, NInv, NoRetime \/ NoClose PROVE NInv'
  <2>1. HandlesHeld'
    BY <1>2, <1>4, HeldKeeps DEF NInv
  <2> QED  BY <1>3, <1>4, <2>1 DEF NInv
<1> QED  BY <1>2, <1>3, <1>4 DEF Steady

(* The same where the objects stay, or are freed.                           *)
LEMMA WaitsAlone ==
    ASSUME IInv, now' = now, DOMAIN waits' \subseteq DOMAIN waits,
           waits' \in [DOMAIN waits' -> WaitRecord],
           \A w \in DOMAIN waits' : /\ MayBecome(waits[w], waits'[w])
                                    /\ waits'[w].result = Pending => waits[w].result = Pending,
           signaled' \subseteq signaled,
           \A s \in Slots : objects'[s] = objects[s] \/ objects'[s] = Free
    PROVE  /\ WaitsAdvance /\ (NInv => AllSettled')
           /\ HandlesGrow => Steady
<1> PICK D : D = DOMAIN waits'
  OBVIOUS
<1> PICK q : q = Plan'
  OBVIOUS
<1>1. q.objects = objects' /\ q.signaled = signaled'
  BY DEF Plan
<1>2. \A w \in WaitRecord : NotReadierFor(Plan, q, w)
  BY <1>1, KeptObjectsNotReadier
<1>3. \A w \in D : waits'[w] \in WaitRecord
  OBVIOUS
<1> QED  BY <1>2, <1>3, QuietSettles

(* Signals that are resolved and committed.                                *)
LEMMA ResolvedSignalKeeps ==
    ASSUME IInv, NEW p, SoundPlan(p, DOMAIN waits, live), p.waits = waits,
           \A s \in Slots : objects[s].type = "timer" => p.objects[s] = objects[s],
           Signal(ResolveWaiters(p, nextWait, now))
    PROVE  IInv' /\ Steady
<1> DEFINE q == ResolveWaiters(p, nextWait, now)
<1>1. SoundPlan(q, DOMAIN waits, live) /\ Resolved(p, q, DOMAIN waits)
  BY SoundWaiters, NowNat
<1> HIDE DEF q
<1>2. Kept(waits, q.waits, DOMAIN waits)
  BY <1>1, ResolvedKeeps
<1>3. \A s \in Slots : objects[s].type = "timer" => q.objects[s] = objects[s]
  BY <1>1, ResolvedKeeps
<1>4. Signal(q)
  BY DEF q
<1>5. Steady
  BY ResolvedAdvances DEF Signal
<1> QED  BY <1>1, <1>2, <1>3, <1>4, <1>5, SignalKeeps

-----------------------------------------------------------------------------
(* One lemma for every operation.                                          *)

(* An open handle names an object.                                         *)
LEMMA HandleNames ==
    ASSUME IInv, NEW h \in DOMAIN handles
    PROVE  /\ handles[h] \in Slots /\ objects[handles[h]] \in ObjectKind
           /\ objects[handles[h]].type # "free"
           /\ refs[handles[h]] # 0 /\ refs[handles[h]] \in Nat
<1>1. handles[h] \in Slots /\ refs[handles[h]] # 0 /\ refs[handles[h]] \in Nat
  BY OpenHandleCounts DEF IInv, ObjectInv
<1>2. objects[handles[h]] \in ObjectKind /\ objects[handles[h]].type # "free"
  BY <1>1 DEF IInv, ObjectInv, ObjectsTyped, SlotsUsed
<1> QED  BY <1>1, <1>2

(* A new object with its first handle (create_event,                       *)
(* commit_object_handle).                                                  *)
LEMMA CreateKeeps ==
    ASSUME IInv, NEW o \in ObjectKind, NEW signal \in BOOLEAN, Create(o, signal),
           o.type # "free", ObjectSound(o, signal, live, nextHandle + 1),
           o.type = "timer" => o.id = nextHandle + 1 /\ ~o.queued
    PROVE  IInv' /\ Steady
<1>1. PICK s \in Slots : FirstFree(s) /\ OpenHandle(s) /\ objects' = [objects EXCEPT ![s] = o]
                         /\ signaled' = (IF signal THEN signaled \cup {s} ELSE signaled \ {s})
                         /\ UNCHANGED <<waits, nextWait, apcs, now, queue, reply, live>>
  BY DEF Create
<1>2. UNCHANGED <<waits, nextWait, apcs, now, invocations, nextInvocation, active, reply, live>>
  BY <1>1 DEF queue
<1>3. /\ objects \in [Slots -> ObjectKind] /\ signaled \subseteq Slots
      /\ objects[s].type = "free" /\ nextHandle \in Nat
  BY <1>1 DEF FirstFree, IInv, ObjectInv, ObjectsTyped, HandlesTyped
<1>4. /\ \A r \in Slots : objects'[r] = IF r = s THEN o ELSE objects[r]
      /\ objects' \in [Slots -> ObjectKind] /\ signaled' \subseteq Slots
      /\ \A r \in Slots : r \in signaled' <=> IF r = s THEN signal ELSE r \in signaled
  BY <1>1, <1>3
<1>5. /\ HandlesTyped' /\ HandlesCounted' /\ nextHandle' = nextHandle + 1
      /\ refs'[s] # 0 /\ \A r \in Slots \ {s} : refs'[r] = refs[r]
  BY <1>1, OpenHandleKeeps DEF IInv, ObjectInv
<1>6. SlotsUsed'
  <2>1. ASSUME NEW r \in Slots
        PROVE  (refs'[r] # 0 => objects'[r].type # "free") /\ ~Reclaimable(objects'[r], refs'[r])
    <3>1. CASE r = s
      BY <1>4, <1>5, <3>1 DEF Reclaimable
    <3>2. CASE r # s
      <4>1. (refs[r] # 0 => objects[r].type # "free") /\ ~Reclaimable(objects[r], refs[r])
        BY DEF IInv, ObjectInv, SlotsUsed
      <4> QED  BY <1>4, <1>5, <3>2, <4>1
    <3> QED  BY <3>1, <3>2
  <2> QED  BY <2>1 DEF SlotsUsed
<1>7. ASSUME NEW r \in Slots PROVE ObjectSound(objects'[r], r \in signaled', live, nextHandle + 1)
  <2>1. CASE r = s
    BY <1>4, <2>1 DEF ObjectSound, MutexSound
  <2>2. CASE r # s
    <3>1. ObjectSound(objects[r], r \in signaled, live, nextHandle)
      BY DEF IInv, ObjectInv, ObjectsSound, Plan
    <3>2. objects'[r] = objects[r] /\ (r \in signaled' <=> r \in signaled)
      BY <1>4, <2>2
    <3> QED  BY <1>3, <3>1, <3>2 DEF ObjectSound, MutexSound
  <2> QED  BY <2>1, <2>2
<1>8. ObjectsSound(Plan, live, nextHandle)'
  BY <1>2, <1>5, <1>7 DEF ObjectsSound, Plan
<1>9. TimersDiffer(Plan)'
  <2>1. TimersDiffer(Plan)
    BY DEF IInv, ObjectInv
  <2>2. \A r \in Slots : objects[r].type = "timer" => objects[r].id \in 1 .. nextHandle
    BY DEF IInv, ObjectInv, ObjectsSound, ObjectSound, Plan
  <2>3. \A r \in Slots : objects[r].type = "timer" => objects[r].id # nextHandle + 1
    BY <1>3, <2>2
  <2> QED  BY <1>4, <2>1, <2>3 DEF TimersDiffer, Plan
<1>10. ObjectInv'
  BY <1>4, <1>5, <1>6, <1>8, <1>9 DEF ObjectInv, ObjectsTyped
<1>11. WaitInv'
  <2>1. Kept(waits, waits, DOMAIN waits)
    BY DEF Kept, SameWait
  <2> QED  BY <1>2, <2>1, DecidedWaits DEF IInv, WaitInv, WaitsTyped
<1>12. QueueInv'
  <2>1. \A r \in Slots : objects'[r].type = "timer" =>
            \/ objects'[r] = objects[r]
            \/ objects'[r].id = nextHandle + 1 /\ ~objects'[r].queued
    BY <1>4
  <2>2. nextHandle' \in Nat /\ nextHandle <= nextHandle'
    BY <1>3, <1>5
  <2> QED  BY <1>2, <1>3, <2>1, <2>2, KeptQueue DEF IInv
<1>13. HandlesGrow
  BY <1>1, OpenHandleKeeps DEF HandlesGrow, IInv, ObjectInv
<1>14. Steady
  <2>1. PICK D : D = DOMAIN waits'
    OBVIOUS
  <2>2. waits' \in [D -> WaitRecord] /\ D = DOMAIN waits
    BY <1>2, <2>1 DEF IInv, WaitInv, WaitsTyped
  <2>3. \A w \in D : MayBecome(waits[w], waits'[w])
    BY <1>2, Unmoved
  <2>4. PICK q : q = Plan'
    OBVIOUS
  <2>5. PICK r : r = Plan
    OBVIOUS
  <2>6. /\ q.objects = objects' /\ q.signaled = signaled'
        /\ r.objects = objects /\ r.signaled = signaled
    BY <2>4, <2>5 DEF Plan
  <2>7. ASSUME NEW u, NEW k \in Slots, k # s, Ready(q, k, u) PROVE Ready(r, k, u)
    BY <1>4, <2>6, <2>7 DEF Ready
  <2>8. ASSUME NEW w \in D, NInv, waits'[w].result = Pending
        PROVE  NotReadierFor(r, q, waits'[w])
    <3>1. PICK v \in WaitRecord : v = waits'[w] /\ v = waits[w]
      BY <1>2, <2>2
    <3>2. Held(v, handles)
      BY <2>2, <2>8, <3>1 DEF NInv, HandlesHeld
    <3>3. DOMAIN v.slots = DOMAIN v.handles
      BY <2>2, <2>8, <3>1 DEF IInv, WaitInv, WaitsFit, Fits
    <3>4. \A i \in DOMAIN v.slots : v.slots[i] \in Slots /\ objects[v.slots[i]].type # "free"
      BY <3>2, <3>3, HandleNames DEF Held
    <3> QED  BY <1>3, <2>7, <3>1, <3>4 DEF NotReadierFor
  <2> QED  BY <1>2, <1>13, <2>1, <2>2, <2>3, <2>4, <2>5, <2>8, QuietSettles
<1> QED  BY <1>10, <1>11, <1>12, <1>14 DEF IInv

(* The waits that a closed handle fails.                                   *)
LEMMA FailDecides ==
    ASSUME WaitInv, NEW h
    PROVE  /\ FailWaits(h) \in [DOMAIN waits -> WaitRecord]
           /\ Kept(waits, FailWaits(h), DOMAIN waits)
           /\ \A w \in DOMAIN waits : FailWaits(h)[w].result = Pending =>
                  /\ FailWaits(h)[w] = waits[w]
                  /\ \A i \in DOMAIN waits[w].handles : waits[w].handles[i] # h
           /\ \A w \in DOMAIN waits : MayBecome(waits[w], FailWaits(h)[w])
<1> DEFINE V == FailWaits(h)
<1>1. WaitFailed \in Results /\ WaitFailed # Pending
  BY DEF Results, WaitFailed, Pending
<1>2. ASSUME NEW k \in DOMAIN waits
      PROVE  /\ V[k] \in WaitRecord /\ SameWait(waits[k], V[k])
             /\ waits[k].result # Pending => V[k].result # Pending
             /\ MayBecome(waits[k], V[k])
             /\ V[k].result = Pending =>
                  V[k] = waits[k] /\ \A i \in DOMAIN waits[k].handles : waits[k].handles[i] # h
  <2>1. PICK w \in WaitRecord : w = waits[k]
    BY DEF WaitInv, WaitsTyped
  <2>2. PICK v : v = [w EXCEPT !.result = WaitFailed]
    OBVIOUS
  <2>3. v \in WaitRecord /\ SameWait(w, v) /\ v.result = WaitFailed
    BY <2>2, <1>1, WithResult
  <2>4. V[k] = IF w.result = Pending /\ \E i \in DOMAIN w.handles : w.handles[i] = h
               THEN v ELSE w
    BY <2>1, <2>2 DEF FailWaits
  <2>5. SameWait(w, w)
    BY DEF SameWait
  <2> HIDE DEF V
  <2>6. CASE w.result = Pending /\ \E i \in DOMAIN w.handles : w.handles[i] = h
    BY <2>1, <2>3, <2>4, <2>6, <1>1, Unmoved DEF IoCompletion, WaitFailed
  <2>7. CASE ~(w.result = Pending /\ \E i \in DOMAIN w.handles : w.handles[i] = h)
    BY <2>1, <2>4, <2>5, <2>7, Unmoved
  <2> QED  BY <2>6, <2>7
<1>3. V \in [DOMAIN waits -> WaitRecord]
  <2>1. V = [k \in DOMAIN waits |-> V[k]]
    BY DEF FailWaits
  <2> HIDE DEF V
  <2> QED  BY <1>2, <2>1
<1> HIDE DEF V
<1>4. Kept(waits, V, DOMAIN waits)
  BY <1>2 DEF Kept
<1>5. \A w \in DOMAIN waits : V[w].result = Pending =>
          V[w] = waits[w] /\ \A i \in DOMAIN waits[w].handles : waits[w].handles[i] # h
  BY <1>2
<1>6. \A w \in DOMAIN waits : MayBecome(waits[w], V[w])
  BY <1>2
<1> QED  BY <1>3, <1>4, <1>5, <1>6 DEF V

(* Changing handles alone.                                                 *)
LEMMA HandlesKeep ==
    ASSUME IInv, HandlesTyped', HandlesCounted', SlotsUsed',
           UNCHANGED <<objects, signaled, nextWait, apcs, now, queue, reply, live>>,
           nextHandle <= nextHandle',
           waits' \in [DOMAIN waits -> WaitRecord], Kept(waits, waits', DOMAIN waits)
    PROVE  IInv'
<1>1. UNCHANGED <<objects, signaled, nextWait, apcs, now, invocations, nextInvocation, active, reply, live>>
  BY DEF queue
<1>2. nextHandle \in Nat /\ nextHandle' \in Nat
  BY DEF HandlesTyped, IInv, ObjectInv
<1>3. ObjectsSound(Plan, live, nextHandle)'
  <2>1. ASSUME NEW s \in Slots PROVE ObjectSound(objects[s], s \in signaled, live, nextHandle')
    <3>1. ObjectSound(objects[s], s \in signaled, live, nextHandle)
      BY DEF IInv, ObjectInv, ObjectsSound, Plan
    <3> QED  BY <1>2, <3>1 DEF ObjectSound
  <2> QED  BY <1>1, <2>1 DEF ObjectsSound, Plan
<1>4. TimersDiffer(Plan)'
  BY <1>1 DEF IInv, ObjectInv, TimersDiffer, Plan
<1>5. ObjectInv'
  BY <1>1, <1>3, <1>4 DEF IInv, ObjectInv, ObjectsTyped
<1>6. WaitInv'
  BY <1>1, DecidedWaits DEF IInv, WaitInv, WaitsTyped
<1>7. QueueInv'
  BY <1>1, <1>2, KeptQueue DEF IInv
<1> QED  BY <1>5, <1>6, <1>7 DEF IInv

(* Steps that leave waits, calls and the list of APC threads alone.        *)
LEMMA WaitsUnchanged ==
    ASSUME WaitInv, UNCHANGED waits
    PROVE  waits' \in [DOMAIN waits -> WaitRecord] /\ Kept(waits, waits', DOMAIN waits)
  BY DEF WaitInv, WaitsTyped, Kept, SameWait

(* Another handle of a slot that has an object.                            *)
LEMMA OpenKeeps ==
    ASSUME IInv, NEW s \in Slots, objects[s].type # "free", OpenHandle(s),
           UNCHANGED <<objects, signaled, waits, nextWait, apcs, now, queue, reply, live>>
    PROVE  IInv' /\ Steady
<1>1. /\ HandlesTyped' /\ HandlesCounted' /\ nextHandle' = nextHandle + 1 /\ nextHandle \in Nat
      /\ refs'[s] # 0 /\ \A r \in Slots \ {s} : refs'[r] = refs[r]
  BY OpenHandleKeeps DEF IInv, ObjectInv, HandlesTyped
<1>2. SlotsUsed'
  <2>1. ASSUME NEW r \in Slots
        PROVE  (refs'[r] # 0 => objects[r].type # "free") /\ ~Reclaimable(objects[r], refs'[r])
    <3>1. CASE r = s
      BY <1>1, <3>1 DEF Reclaimable
    <3>2. CASE r # s
      <4>1. (refs[r] # 0 => objects[r].type # "free") /\ ~Reclaimable(objects[r], refs[r])
        BY DEF IInv, ObjectInv, SlotsUsed
      <4> QED  BY <1>1, <3>2, <4>1
    <3> QED  BY <3>1, <3>2
  <2> QED  BY <2>1 DEF SlotsUsed
<1>3. nextHandle <= nextHandle'
  BY <1>1
<1>4. HandlesGrow
  BY OpenHandleKeeps DEF HandlesGrow, IInv, ObjectInv
<1>5. Steady
  <2>1. UNCHANGED <<objects, signaled, waits, now>>
    OBVIOUS
  <2>2. waits' \in [DOMAIN waits -> WaitRecord]
    BY <2>1, WaitsUnchanged DEF IInv
  <2>3. \A w \in DOMAIN waits : MayBecome(waits[w], waits'[w])
    BY <2>1, Unmoved
  <2> QED  BY <1>4, <2>1, <2>2, <2>3, WaitsAlone
<1> QED  BY <1>1, <1>2, <1>3, <1>5, WaitsUnchanged, HandlesKeep DEF IInv

(* OpenThread: another handle of the object of the thread, or a new        *)
(* object.                                                                 *)
LEMMA OpenThreadKeeps ==
    ASSUME IInv, NEW t \in Threads, NEW target \in Threads, OpenThread(t, target)
    PROVE  IInv' /\ Steady
<1>1. CASE \E s \in Slots : /\ objects[s].type = "thread" /\ OpenHandle(s)
                            /\ UNCHANGED <<objects, signaled, waits, nextWait, apcs, now,
                                           queue, reply, live>>
  BY <1>1, OpenKeeps
<1>2. CASE Create([type |-> "thread", thread |-> target, terminated |-> target \notin live],
                  target \notin live)
  <2> DEFINE o == [type |-> "thread", thread |-> target, terminated |-> target \notin live]
  <2>1. PICK b \in BOOLEAN : b = (target \notin live)
    OBVIOUS
  <2>2. o \in ThreadKind
    BY <2>1 DEF ThreadKind
  <2>3. o \in ObjectKind /\ o.type = "thread"
    BY <2>2 DEF ObjectKind
  <2>4. ObjectSound(o, b, live, nextHandle + 1)
    BY DEF ObjectSound
  <2>5. Create(o, b)
    BY <1>2, <2>1
  <2> HIDE DEF o
  <2> QED  BY <2>3, <2>4, <2>5, CreateKeeps
<1> QED  BY <1>1, <1>2 DEF OpenThread

(* CreateEvent                                                             *)
LEMMA CreateEventKeeps ==
    ASSUME IInv, NEW t \in Threads, CreateEvent(t)
    PROVE  IInv' /\ Steady
<1>1. PICK manual \in BOOLEAN, initial \in BOOLEAN :
           Create([type |-> "event", manual |-> manual], initial)
  BY DEF CreateEvent
<1>2. PICK o : o = [type |-> "event", manual |-> manual]
  OBVIOUS
<1>3. o \in EventKind /\ o.type = "event"
  BY <1>2 DEF EventKind
<1>4. o \in ObjectKind /\ ObjectSound(o, initial, live, nextHandle + 1)
  BY <1>3 DEF ObjectKind, ObjectSound
<1> QED  BY <1>1, <1>2, <1>3, <1>4, CreateKeeps

(* CreateMutex: the initial owner is the thread that calls, and alive.     *)
LEMMA CreateMutexKeeps ==
    ASSUME IInv, NEW t \in live, NEW initial \in BOOLEAN,
           Create([type |-> "mutex", owner |-> IF initial THEN t ELSE NoThread,
                   depth |-> IF initial THEN 1 ELSE 0, abandoned |-> FALSE], ~initial)
    PROVE  IInv' /\ Steady
<1>1. PICK o : o = [type |-> "mutex", owner |-> IF initial THEN t ELSE NoThread,
                    depth |-> IF initial THEN 1 ELSE 0, abandoned |-> FALSE]
  OBVIOUS
<1>2. t \in Threads /\ t # NoThread
  BY NoThreadAssumption DEF IInv, WaitInv, WaitsTyped
<1>3. o \in MutexKind /\ o.type = "mutex"
  BY <1>1, <1>2 DEF MutexKind
<1>4. PICK b \in BOOLEAN : b = ~initial
  OBVIOUS
<1>5. MutexSound(o, b, live)
  <2>1. /\ o.owner = (IF initial THEN t ELSE NoThread)
        /\ o.depth = (IF initial THEN 1 ELSE 0) /\ o.abandoned = FALSE
    BY <1>1
  <2>2. CASE initial = TRUE
    <3>1. o.owner = t /\ o.depth = 1 /\ b = FALSE
      BY <1>4, <2>1, <2>2
    <3> QED  BY <1>2, <2>1, <3>1 DEF MutexSound
  <2>3. CASE initial = FALSE
    <3>1. o.owner = NoThread /\ o.depth = 0 /\ b = TRUE
      BY <1>4, <2>1, <2>3
    <3> QED  BY <1>2, <2>1, <3>1 DEF MutexSound
  <2> QED  BY <2>2, <2>3
<1>6. o \in ObjectKind /\ ObjectSound(o, b, live, nextHandle + 1)
  BY <1>3, <1>5 DEF ObjectKind, ObjectSound
<1>7. Create(o, b)
  BY <1>1, <1>4
<1> QED  BY <1>3, <1>6, <1>7, CreateKeeps

(* CreateSemaphore                                                         *)
LEMMA CreateSemaphoreKeeps ==
    ASSUME IInv, NEW t \in Threads, CreateSemaphore(t)
    PROVE  IInv' /\ Steady
<1>0. PICK maximum \in 1 .. MaxCount : \E initial \in 0 .. maximum :
           Create([type |-> "semaphore", count |-> initial, maximum |-> maximum], initial # 0)
  BY DEF CreateSemaphore
<1>1. PICK initial \in 0 .. maximum :
           Create([type |-> "semaphore", count |-> initial, maximum |-> maximum], initial # 0)
  BY <1>0
<1>2. PICK o : o = [type |-> "semaphore", count |-> initial, maximum |-> maximum]
  OBVIOUS
<1>3. o \in SemaphoreKind /\ o.type = "semaphore"
  BY <1>2 DEF SemaphoreKind
<1>4. PICK b \in BOOLEAN : b = (initial # 0)
  OBVIOUS
<1>5. o \in ObjectKind /\ ObjectSound(o, b, live, nextHandle + 1)
  BY <1>3 DEF ObjectKind, ObjectSound
<1> QED  BY <1>1, <1>2, <1>3, <1>4, <1>5, CreateKeeps

(* CreateWaitableTimer: the id of the timer is new.                        *)
LEMMA CreateTimerKeeps ==
    ASSUME IInv, NEW t \in Threads, CreateWaitableTimer(t)
    PROVE  IInv' /\ Steady
<1>1. PICK manual \in BOOLEAN :
           Create([type |-> "timer", manual |-> manual, id |-> nextHandle + 1,
                   due |-> Never, period |-> 0, thread |-> NoThread,
                   callback |-> FALSE, generation |-> 0, queued |-> FALSE], FALSE)
  BY DEF CreateWaitableTimer
<1>2. PICK o : o = [type |-> "timer", manual |-> manual, id |-> nextHandle + 1,
                    due |-> Never, period |-> 0, thread |-> NoThread,
                    callback |-> FALSE, generation |-> 0, queued |-> FALSE]
  OBVIOUS
<1>3. nextHandle \in Nat
  BY NowNat
<1>4. o \in TimerKind /\ o.type = "timer"
  BY <1>2, <1>3 DEF TimerKind
<1>5. nextHandle + 1 \in 1 .. nextHandle + 1
  BY <1>3
<1>6. o \in ObjectKind /\ ObjectSound(o, FALSE, live, nextHandle + 1)
  BY <1>2, <1>4, <1>5 DEF ObjectKind, ObjectSound
<1>7. Create(o, FALSE) /\ o.id = nextHandle + 1 /\ ~o.queued
  BY <1>1, <1>2
<1> QED  BY <1>4, <1>6, <1>7, CreateKeeps

(* Operations that close a handle and fail the undecided waits on it.       *)
LEMMA ClosedAdvances ==
    ASSUME IInv, NEW h \in DOMAIN handles, waits' = FailWaits(h), now' = now,
           signaled' \subseteq signaled, ~HandlesStay,
           \A s \in Slots : objects'[s] = objects[s] \/ objects'[s] = Free,
           \A k \in DOMAIN handles \ {h} : k \in DOMAIN handles' /\ handles'[k] = handles[k]
    PROVE  Steady
<1>1. /\ waits' \in [DOMAIN waits -> WaitRecord]
      /\ \A w \in DOMAIN waits : MayBecome(waits[w], waits'[w])
      /\ \A w \in DOMAIN waits : waits'[w].result = Pending =>
             /\ waits'[w] = waits[w]
             /\ \A i \in DOMAIN waits[w].handles : waits[w].handles[i] # h
  BY FailDecides DEF IInv
<1>2. DOMAIN waits' = DOMAIN waits
  BY <1>1
<1>3. WaitsAdvance /\ (NInv => AllSettled')
  BY <1>1, <1>2, WaitsAlone
<1>4. ASSUME NInv PROVE HandlesHeld'
  <2>1. ASSUME NEW w \in DOMAIN waits, waits'[w].result = Pending
        PROVE  Held(waits'[w], handles')
    <3>1. Held(waits[w], handles)
      BY <1>1, <1>4, <2>1 DEF NInv, HandlesHeld
    <3> QED  BY <1>1, <2>1, <3>1 DEF Held
  <2> QED  BY <1>2, <2>1 DEF HandlesHeld, HandlesStay, NoClose, NoRetime
<1> QED  BY <1>3, <1>4 DEF Steady, NInv

(* close_validated, on any open handle.                                    *)
LEMMA CloseKeeps ==
    ASSUME IInv, NEW h \in DOMAIN handles, Close(h)
    PROVE  IInv' /\ (~HandlesStay => Steady)
<1>1. PICK s \in Slots : s = handles[h] /\ refs[s] # 0 /\ refs[s] \in Nat /\ objects[s].type # "free"
  BY HandleNames
<1>2. PICK gone \in BOOLEAN : gone = Reclaimable(objects[s], refs[s] - 1)
  BY DEF Reclaimable
<1>3. /\ refs' = [refs EXCEPT ![s] = @ - 1]
      /\ objects' = (IF gone THEN [objects EXCEPT ![s] = Free] ELSE objects)
      /\ signaled' = (IF gone THEN signaled \ {s} ELSE signaled)
      /\ handles' = [k \in DOMAIN handles \ {h} |-> handles[k]]
      /\ waits' = FailWaits(h)
      /\ UNCHANGED <<nextHandle, nextWait, apcs, now, queue, reply, live>>
  BY <1>1, <1>2 DEF Close
<1>4. UNCHANGED <<nextHandle, nextWait, apcs, now, invocations, nextInvocation, active, reply, live>>
  BY <1>3 DEF queue
<1>5. /\ objects \in [Slots -> ObjectKind] /\ signaled \subseteq Slots
      /\ refs \in [Slots -> Nat] /\ nextHandle \in Nat
  BY DEF IInv, ObjectInv, ObjectsTyped, HandlesTyped
<1>6. HandlesTyped' /\ HandlesCounted'
  <2>1. refs' = [refs EXCEPT ![handles[h]] = @ - 1]
    BY <1>1, <1>3
  <2> QED  BY <1>3, <1>4, <2>1, CloseHandleKeeps DEF IInv, ObjectInv
<1>7. Free \in ObjectKind /\ Free.type = "free"
  BY DEF ObjectKind, Free
<1>8. /\ \A r \in Slots : objects'[r] = IF gone /\ r = s THEN Free ELSE objects[r]
      /\ \A r \in Slots : refs'[r] = IF r = s THEN refs[s] - 1 ELSE refs[r]
      /\ \A r \in Slots : r \in signaled' <=> r \in signaled /\ ~(gone /\ r = s)
      /\ objects' \in [Slots -> ObjectKind] /\ signaled' \subseteq Slots
  BY <1>1, <1>3, <1>5, <1>7
<1>9. SlotsUsed'
  <2>1. ASSUME NEW r \in Slots
        PROVE  (refs'[r] # 0 => objects'[r].type # "free") /\ ~Reclaimable(objects'[r], refs'[r])
    <3>1. (refs[r] # 0 => objects[r].type # "free") /\ ~Reclaimable(objects[r], refs[r])
      BY DEF IInv, ObjectInv, SlotsUsed
    <3>2. CASE r # s
      BY <1>8, <3>1, <3>2
    <3>3. CASE r = s /\ gone
      <4>1. refs[s] - 1 = 0
        BY <1>2, <3>3 DEF Reclaimable
      <4> QED  BY <1>7, <1>8, <3>3, <4>1 DEF Reclaimable
    <3>4. CASE r = s /\ ~gone
      BY <1>1, <1>2, <1>8, <3>4
    <3> QED  BY <3>2, <3>3, <3>4
  <2> QED  BY <2>1 DEF SlotsUsed
<1>10. ASSUME NEW r \in Slots PROVE ObjectSound(objects'[r], r \in signaled', live, nextHandle)
  <2>1. ObjectSound(objects[r], r \in signaled, live, nextHandle)
    BY DEF IInv, ObjectInv, ObjectsSound, Plan
  <2>2. CASE gone /\ r = s
    BY <1>7, <1>8, <2>2 DEF ObjectSound
  <2>3. CASE ~(gone /\ r = s)
    <3>1. objects'[r] = objects[r] /\ (r \in signaled' <=> r \in signaled)
      BY <1>8, <2>3
    <3> QED  BY <2>1, <3>1 DEF ObjectSound, MutexSound
  <2> QED  BY <2>2, <2>3
<1>11. ObjectsSound(Plan, live, nextHandle)'
  BY <1>4, <1>10 DEF ObjectsSound, Plan
<1>12. TimersDiffer(Plan)'
  <2>1. TimersDiffer(Plan)
    BY DEF IInv, ObjectInv
  <2> QED  BY <1>7, <1>8, <2>1 DEF TimersDiffer, Plan
<1>13. ObjectInv'
  BY <1>6, <1>8, <1>9, <1>11, <1>12 DEF ObjectInv, ObjectsTyped
<1>14. WaitInv'
  <2>1. waits' \in [DOMAIN waits -> WaitRecord] /\ Kept(waits, waits', DOMAIN waits)
    BY <1>3, FailDecides DEF IInv
  <2> QED  BY <1>4, <2>1, DecidedWaits DEF IInv, WaitInv, WaitsTyped
<1>15. QueueInv'
  <2>1. \A r \in Slots : objects'[r].type = "timer" => objects'[r] = objects[r]
    BY <1>7, <1>8
  <2>2. nextHandle' \in Nat /\ nextHandle <= nextHandle'
    BY <1>4, <1>5
  <2> QED  BY <1>4, <1>5, <2>1, <2>2, KeptQueue DEF IInv
<1>16. ASSUME ~HandlesStay PROVE Steady
  <2>1. \A k \in DOMAIN handles \ {h} : k \in DOMAIN handles' /\ handles'[k] = handles[k]
    BY <1>3
  <2>2. \A r \in Slots : objects'[r] = objects[r] \/ objects'[r] = Free
    BY <1>8
  <2>3. signaled' \subseteq signaled
    BY <1>3
  <2> QED  BY <1>3, <1>4, <1>16, <2>1, <2>2, <2>3, ClosedAdvances
<1> QED  BY <1>13, <1>14, <1>15, <1>16 DEF IInv

(* DuplicateHandle, with or without closing the source.                    *)
LEMMA DuplicateKeeps ==
    ASSUME IInv, NEW t \in Threads, NEW h \in DOMAIN handles, DuplicateHandle(t, h)
    PROVE  IInv' /\ Steady
<1>1. CASE OpenHandle(handles[h]) /\ UNCHANGED waits
  <2>1. PICK s \in Slots : s = handles[h] /\ objects[s].type # "free"
    BY HandleNames
  <2>2. OpenHandle(s)
    BY <1>1, <2>1
  <2>3. UNCHANGED <<objects, signaled, waits, nextWait, apcs, now, queue, reply, live>>
    BY <1>1 DEF DuplicateHandle
  <2> QED  BY <2>1, <2>2, <2>3, OpenKeeps
<1>2. CASE /\ nextHandle' = nextHandle + 1
           /\ handles' = [k \in (DOMAIN handles \ {h}) \cup {nextHandle'} |->
                            IF k = nextHandle' THEN handles[h] ELSE handles[k]]
           /\ waits' = FailWaits(h)
           /\ UNCHANGED refs
  <2>1. HandlesTyped' /\ HandlesCounted'
    BY <1>2, MoveHandleKeeps DEF IInv, ObjectInv
  <2>2. UNCHANGED <<objects, signaled, nextWait, apcs, now, queue, reply, live>>
    BY DEF DuplicateHandle
  <2>3. SlotsUsed'
    BY <1>2, <2>2 DEF IInv, ObjectInv, SlotsUsed
  <2>4. waits' \in [DOMAIN waits -> WaitRecord] /\ Kept(waits, waits', DOMAIN waits)
    BY <1>2, FailDecides DEF IInv
  <2>5. nextHandle <= nextHandle'
    BY <1>2, NowNat
  <2>6. "DuplicateHandle" \in Calls
    BY DEF DuplicateHandle, Call
  <2>7. ~HandlesStay
    BY <2>6 DEF HandlesStay, NoClose
  <2>8. \A k \in DOMAIN handles \ {h} : k \in DOMAIN handles' /\ handles'[k] = handles[k]
    <3>1. \A k \in DOMAIN handles : k # nextHandle'
      BY <1>2 DEF IInv, ObjectInv, HandlesTyped
    <3> QED  BY <1>2, <3>1
  <2>9. Steady
    BY <1>2, <2>2, <2>7, <2>8, ClosedAdvances
  <2> QED  BY <2>1, <2>2, <2>3, <2>4, <2>5, <2>9, HandlesKeep
<1> QED  BY <1>1, <1>2 DEF DuplicateHandle

(* Signals.                                                                *)

LEMMA PlanFacts ==
    ASSUME IInv
    PROVE  /\ SoundPlan(Plan, DOMAIN waits, live) /\ Plan.waits = waits
           /\ Plan.objects = objects /\ Plan.signaled = signaled
           /\ objects \in [Slots -> ObjectKind] /\ signaled \subseteq Slots
  BY PlanIsSound DEF IInv, Plan, ObjectInv, ObjectsTyped

(* SetEvent                                                                *)
LEMMA SetEventKeeps ==
    ASSUME IInv, NEW t \in Threads, NEW h \in DOMAIN handles, SetEvent(t, h)
    PROVE  IInv' /\ Steady
<1>1. PICK s \in Slots : s = handles[h]
  BY HandleNames
<1>2. /\ objects[s].type = "event"
      /\ Signal(ResolveWaiters(SetSignal(Plan, s), nextWait, now))
  BY <1>1 DEF SetEvent
<1>3. PICK p : p = SetSignal(Plan, s)
  OBVIOUS
<1>4. SoundPlan(p, DOMAIN waits, live)
  BY <1>2, <1>3, PlanFacts, SoundSet
<1>5. p.waits = waits /\ p.objects = objects
  BY <1>3 DEF SetSignal, Plan
<1>6. Signal(ResolveWaiters(p, nextWait, now))
  BY <1>2, <1>3
<1> QED  BY <1>4, <1>5, <1>6, ResolvedSignalKeeps

(* The event is signaled for those who wait: what SetEvent, PulseEvent and  *)
(* SignalObjectAndWait begin with.                                          *)
LEMMA SignaledPlan ==
    ASSUME IInv, NEW s \in Slots, objects[s].type = "event",
           NEW q, q = ResolveWaiters(SetSignal(Plan, s), nextWait, now)
    PROVE  /\ SoundPlan(q, DOMAIN waits, live) /\ Kept(waits, q.waits, DOMAIN waits)
           /\ \A r \in Slots : objects[r].type = "timer" => q.objects[r] = objects[r]
           /\ SettledPlan(q, DOMAIN waits, now)
           /\ \A k \in DOMAIN waits : MayBecome(waits[k], q.waits[k])
<1>1. PICK p : p = SetSignal(Plan, s)
  OBVIOUS
<1>2. SoundPlan(p, DOMAIN waits, live)
  BY <1>1, PlanFacts, SoundSet
<1>3. p.waits = waits /\ p.objects = objects
  BY <1>1 DEF SetSignal, Plan
<1>4. SoundPlan(q, DOMAIN waits, live) /\ Resolved(p, q, DOMAIN waits)
  BY <1>1, <1>2, SoundWaiters, NowNat
<1>5. PICK D : D = DOMAIN waits
  OBVIOUS
<1>6. LoneWaits(p.waits, D)
  BY <1>3, <1>5, AloneInTable DEF IInv
<1>7. \A k \in D : MayBecome(waits[k], p.waits[k])
  BY <1>3, Unmoved
<1>8. SettledPlan(q, D, now) /\ \A k \in D : MayBecome(waits[k], q.waits[k])
  BY <1>1, <1>2, <1>5, <1>6, <1>7, PassAdvances
<1> QED  BY <1>3, <1>4, <1>5, <1>8, ResolvedKeeps

(* Taking a signal away satisfies nobody.                                   *)
LEMMA ClearSettles ==
    ASSUME NEW D, NEW q \in Plans(D), NEW t, SettledPlan(q, D, t),
           NEW r, r.objects = q.objects, r.waits = q.waits, r.signaled \subseteq q.signaled
    PROVE  SettledPlan(r, D, t)
<1>1. \A s, u : Ready(r, s, u) => Ready(q, s, u)
  BY DEF Ready
<1>2. ASSUME NEW k \in D PROVE Settled(r, k, t)
  <2>1. Settled(q, k, t)
    BY DEF SettledPlan
  <2>2. q.waits[k] \in WaitRecord /\ NotReadierFor(q, r, q.waits[k])
    BY <1>1, PlanParts DEF NotReadierFor
  <2>3. SameWait(q.waits[k], r.waits[k])
    BY DEF SameWait
  <2> QED  BY <2>1, <2>2, <2>3, StillSettled
<1> QED  BY <1>2 DEF SettledPlan

(* PulseEvent                                                              *)
LEMMA PulseEventKeeps ==
    ASSUME IInv, NEW t \in Threads, NEW h \in DOMAIN handles, PulseEvent(t, h)
    PROVE  IInv' /\ Steady
<1>1. PICK s \in Slots : s = handles[h]
  BY HandleNames
<1>2. /\ objects[s].type = "event"
      /\ Signal(ClearSignal(ResolveWaiters(SetSignal(Plan, s), nextWait, now), s))
  BY <1>1 DEF PulseEvent
<1>3. PICK q : q = ResolveWaiters(SetSignal(Plan, s), nextWait, now)
  OBVIOUS
<1>4. /\ SoundPlan(q, DOMAIN waits, live) /\ Kept(waits, q.waits, DOMAIN waits)
      /\ \A k \in Slots : objects[k].type = "timer" => q.objects[k] = objects[k]
      /\ SettledPlan(q, DOMAIN waits, now)
      /\ \A k \in DOMAIN waits : MayBecome(waits[k], q.waits[k])
  BY <1>2, <1>3, SignaledPlan
<1>5. PICK r : r = ClearSignal(q, s)
  OBVIOUS
<1>6. SoundPlan(r, DOMAIN waits, live) /\ q \in Plans(DOMAIN waits) /\ r \in Plans(DOMAIN waits)
  BY <1>2, <1>4, <1>5, SoundClear DEF SoundPlan
<1>7. r.waits = q.waits /\ r.objects = q.objects /\ r.signaled \subseteq q.signaled
  BY <1>4, <1>5 DEF ClearSignal, SoundPlan, Plans
<1>8. Signal(r)
  BY <1>2, <1>3, <1>5
<1>9. SettledPlan(r, DOMAIN waits, now)
  BY <1>4, <1>6, <1>7, ClearSettles
<1>10. Steady
  <2> PICK D : D = DOMAIN waits
    OBVIOUS
  <2>1. /\ r \in Plans(D) /\ Commit(r) /\ UNCHANGED <<handles, now>>
        /\ \A k \in D : MayBecome(waits[k], r.waits[k])
        /\ SettledPlan(r, D, now)
    BY <1>4, <1>6, <1>7, <1>8, <1>9 DEF Signal
  <2> QED  BY <2>1, CommitAdvances
<1>11. Kept(waits, r.waits, DOMAIN waits)
  BY <1>4, <1>7
<1>12. \A k \in Slots : objects[k].type = "timer" => r.objects[k] = objects[k]
  BY <1>4, <1>7
<1> QED  BY <1>6, <1>8, <1>10, <1>11, <1>12, SignalKeeps

(* ReleaseSemaphore                                                        *)
LEMMA ReleaseSemaphoreKeeps ==
    ASSUME IInv, NEW t \in Threads, NEW h \in DOMAIN handles, NEW count \in 1 .. MaxCount,
           ReleaseSemaphore(t, h, count)
    PROVE  IInv' /\ Steady
<1>1. PICK s \in Slots : s = handles[h]
  BY HandleNames
<1>2. PICK o \in ObjectKind : o = objects[s]
  BY PlanFacts
<1>3. PICK n : n = [o EXCEPT !.count = @ + count]
  OBVIOUS
<1>4. /\ o.type = "semaphore"
      /\ Signal(ResolveWaiters(SetSignal(PutObject(Plan, s, n), s), nextWait, now))
  BY <1>1, <1>2, <1>3 DEF ReleaseSemaphore
<1>5. o \in SemaphoreKind
  BY <1>4, Kinds
<1>6. n = [type |-> "semaphore", count |-> o.count + count, maximum |-> o.maximum]
  BY <1>3, <1>5 DEF SemaphoreKind
<1>7. o.count \in Nat /\ o.maximum \in Nat /\ o.count + count \in Nat
  BY <1>5 DEF SemaphoreKind
<1>8. n \in SemaphoreKind
  BY <1>6, <1>7 DEF SemaphoreKind
<1>9. n \in ObjectKind /\ n.type = "semaphore"
  BY <1>6, <1>8 DEF ObjectKind
<1>10. PICK p : p = PutObject(Plan, s, n)
  OBVIOUS
<1>11. ObjectSound(n, s \in Plan.signaled, live, nextHandle)
  BY <1>9 DEF ObjectSound
<1>12. SoundPlan(p, DOMAIN waits, live)
  BY <1>2, <1>4, <1>9, <1>10, <1>11, PlanFacts, SoundPutObject
<1>13. PICK q : q = SetSignal(p, s)
  OBVIOUS
<1>14. SoundPlan(q, DOMAIN waits, live)
  BY <1>2, <1>4, <1>12, <1>13, SoundSet
<1>15. q.waits = waits /\ \A r \in Slots : r # s => q.objects[r] = objects[r]
  <2>1. p.waits = waits /\ p.objects = [objects EXCEPT ![s] = n]
    BY <1>10 DEF PutObject, Plan
  <2>2. q.waits = p.waits /\ q.objects = p.objects
    BY <1>12, <1>13 DEF SetSignal, SoundPlan, Plans
  <2> QED  BY <2>1, <2>2, PlanFacts
<1>16. Signal(ResolveWaiters(q, nextWait, now))
  BY <1>4, <1>10, <1>13
<1>17. \A r \in Slots : objects[r].type = "timer" => q.objects[r] = objects[r]
  BY <1>2, <1>4, <1>15
<1> QED  BY <1>14, <1>15, <1>16, <1>17, ResolvedSignalKeeps

(* An operation that writes one object, which has a handle, is a commit    *)
(* that reclaims nothing.                                                  *)
LEMMA WriteIsSignal ==
    ASSUME IInv, NEW s \in Slots, refs[s] # 0, NEW p, SoundPlan(p, DOMAIN waits, live),
           p.waits = waits, \A r \in Slots \ {s} : p.objects[r] = objects[r],
           objects' = p.objects, signaled' = p.signaled,
           UNCHANGED <<refs, handles, nextHandle, waits, nextWait, apcs, now, queue, reply, live>>
    PROVE  Signal(p)
<1> DEFINE gone == {r \in Slots : p.objects[r].type # "event" /\ Reclaimable(p.objects[r], refs[r])}
<1>1. gone = {}
  <2>1. ASSUME NEW r \in Slots PROVE ~Reclaimable(p.objects[r], refs[r])
    <3>1. CASE r = s
      BY <3>1 DEF Reclaimable
    <3>2. CASE r # s
      BY <3>2 DEF IInv, ObjectInv, SlotsUsed
    <3> QED  BY <3>1, <3>2
  <2> QED  BY <2>1
<1>2. p.objects = [r \in Slots |-> p.objects[r]]
  BY PlanParts DEF SoundPlan
<1>3. objects' = [r \in Slots |-> IF r \in gone THEN Free ELSE p.objects[r]]
  BY <1>1, <1>2
<1>4. signaled' = p.signaled \ gone
  BY <1>1
<1>5. Commit(p)
  BY <1>3, <1>4 DEF Commit
<1> QED  BY <1>5 DEF Signal

(* ResetEvent                                                              *)
LEMMA ResetEventKeeps ==
    ASSUME IInv, NEW t \in Threads, NEW h \in DOMAIN handles, ResetEvent(t, h)
    PROVE  IInv' /\ Steady
<1>1. PICK s \in Slots : s = handles[h] /\ refs[s] # 0
  BY HandleNames
<1>2. /\ objects[s].type = "event" /\ signaled' = signaled \ {s}
      /\ UNCHANGED <<objects, refs, handles, nextHandle, waits, nextWait, apcs, now, queue, reply, live>>
  BY <1>1 DEF ResetEvent
<1>3. PICK p : p = ClearSignal(Plan, s)
  OBVIOUS
<1>4. SoundPlan(p, DOMAIN waits, live)
  BY <1>2, <1>3, PlanFacts, SoundClear
<1>5. p.waits = waits /\ p.objects = objects /\ p.signaled = signaled \ {s}
  BY <1>3 DEF ClearSignal, Plan
<1>6. Signal(p)
  BY <1>1, <1>2, <1>4, <1>5, WriteIsSignal
<1>7. Kept(waits, p.waits, DOMAIN waits)
  BY <1>5 DEF Kept, SameWait
<1>8. Steady
  <2>1. p \in Plans(DOMAIN waits) /\ Commit(p) /\ UNCHANGED <<handles, now>>
    BY <1>4, <1>6 DEF SoundPlan, Signal
  <2>2. \A w \in WaitRecord : NotReadierFor(Plan, p, w)
    BY <1>5, KeptObjectsNotReadier
  <2>3. \A w \in DOMAIN waits : MayBecome(waits[w], p.waits[w]) /\ p.waits[w] \in WaitRecord
    BY <1>5, Unmoved DEF IInv, WaitInv, WaitsTyped
  <2> QED  BY <1>5, <2>1, <2>2, <2>3, QuietCommit
<1> QED  BY <1>4, <1>5, <1>6, <1>7, <1>8, SignalKeeps

(* A mutex before and after one release.                                   *)
Released(o) == [o EXCEPT !.owner = IF o.depth = 1 THEN NoThread ELSE @, !.depth = @ - 1]

(* A mutex after a release is as coherent as it was before.                *)
LEMMA ReleasedMutex ==
    ASSUME IInv, NEW s \in Slots, objects[s].type = "mutex", NEW t \in Threads, objects[s].owner = t
    PROVE  /\ objects[s] \in MutexKind /\ objects[s].depth \in Nat \ {0}
           /\ objects[s].abandoned = FALSE /\ s \notin signaled /\ t # NoThread /\ t \in live
           /\ Released(objects[s]) \in ObjectKind /\ Released(objects[s]).type = "mutex"
           /\ MutexSound(Released(objects[s]), objects[s].depth = 1, live)
<1>1. PICK o \in MutexKind : o = objects[s]
  BY PlanFacts, Kinds
<1>2. o.depth \in Nat /\ o.abandoned \in BOOLEAN /\ o.type = "mutex"
  BY MutexParts
<1>3. t # NoThread
  BY NoThreadAssumption
<1>4. MutexSound(o, s \in signaled, live)
  BY <1>1 DEF IInv, ObjectInv, ObjectsSound, ObjectSound, Plan
<1>5. o.depth # 0 /\ s \notin signaled /\ ~o.abandoned /\ t \in live
  BY <1>1, <1>3, <1>4 DEF MutexSound
<1>6. PICK r : r = Released(o)
  OBVIOUS
<1>7. r = [type |-> "mutex", owner |-> IF o.depth = 1 THEN NoThread ELSE t,
           depth |-> o.depth - 1, abandoned |-> o.abandoned]
  BY <1>1, <1>6 DEF Released, MutexKind
<1>8. r \in MutexKind
  BY <1>2, <1>5, <1>7 DEF MutexKind
<1>9. r \in ObjectKind /\ r.type = "mutex"
  BY <1>8, MutexParts
<1>10. /\ r.owner = (IF o.depth = 1 THEN NoThread ELSE t)
       /\ r.depth = o.depth - 1 /\ ~r.abandoned
  BY <1>5, <1>7
<1>11. MutexSound(r, o.depth = 1, live)
  <2>1. CASE o.depth = 1
    BY <1>10, <2>1 DEF MutexSound
  <2>2. CASE o.depth # 1
    <3>1. r.owner = t /\ r.depth # 0
      BY <1>2, <1>5, <1>10, <2>2
    <3> QED  BY <1>3, <1>5, <1>10, <2>2, <3>1 DEF MutexSound
  <2> QED  BY <2>1, <2>2
<1> QED  BY <1>1, <1>2, <1>3, <1>5, <1>6, <1>9, <1>11

(* ReleaseMutex, with and without waiters.                                 *)
LEMMA ReleaseKeeps ==
    ASSUME IInv, NEW t \in Threads, NEW h \in DOMAIN handles, Release(t, h)
    PROVE  IInv' /\ Steady
<1>1. PICK s \in Slots : s = handles[h] /\ refs[s] # 0
  BY HandleNames
<1>2. PICK o : o = objects[s]
  OBVIOUS
<1>3. PICK r : r = Released(o)
  OBVIOUS
<1>4. o.type = "mutex" /\ o.owner = t
  BY <1>1, <1>2 DEF Release
<1>5. /\ r \in ObjectKind /\ r.type = "mutex" /\ MutexSound(r, o.depth = 1, live)
      /\ s \notin signaled
  BY <1>2, <1>3, <1>4, ReleasedMutex
<1> DEFINE B == IF o.depth = 1 THEN signaled \cup {s} ELSE signaled \ {s}
           p == [objects |-> [objects EXCEPT ![s] = r], signaled |-> B, waits |-> waits]
<1>6. SoundPlan(p, DOMAIN waits, live)
  <2>1. ObjectSound(r, s \in B, live, nextHandle)
    <3>1. (s \in B) <=> (o.depth = 1)
      OBVIOUS
    <3> QED  BY <1>5, <3>1 DEF ObjectSound, MutexSound
  <2>2. B \in SUBSET Slots /\ B \ {s} = signaled \ {s}
    BY PlanFacts
  <2>3. p = [objects |-> [Plan.objects EXCEPT ![s] = r], signaled |-> B, waits |-> Plan.waits]
    BY PlanFacts
  <2>4. B \ {s} = Plan.signaled \ {s}
    BY <2>2, PlanFacts
  <2> HIDE DEF B, p
  <2>5. r.type = objects[s].type /\ (r.type = "timer" => r.id = Plan.objects[s].id)
    BY <1>2, <1>4, <1>5
  <2>6. SoundPlan(Plan, DOMAIN waits, live)
    BY PlanFacts
  <2> QED  BY <1>5, <2>1, <2>2, <2>3, <2>4, <2>5, <2>6, SoundPut
<1>7. p.waits = waits /\ \A k \in Slots \ {s} : p.objects[k] = objects[k]
  BY PlanFacts
<1>8. \A k \in Slots : objects[k].type = "timer" => p.objects[k] = objects[k]
  BY <1>2, <1>4, <1>7
<1>9. CASE /\ o.depth = 1
           /\ Signal(ResolveWaiters(SetSignal(PutObject(Plan, s, r), s), nextWait, now))
  <2>1. SetSignal(PutObject(Plan, s, r), s) = p
    <3>1. PICK O : O = [objects EXCEPT ![s] = r]
      OBVIOUS
    <3>2. PutObject(Plan, s, r) = [objects |-> O, signaled |-> signaled, waits |-> waits]
      BY <3>1 DEF PutObject, Plan
    <3>3. SetSignal(PutObject(Plan, s, r), s) =
             [objects |-> O, signaled |-> signaled \cup {s}, waits |-> waits]
      BY <3>2 DEF SetSignal
    <3>4. B = signaled \cup {s}
      BY <1>9
    <3> HIDE DEF B
    <3> QED  BY <3>1, <3>3, <3>4
  <2>2. Signal(ResolveWaiters(p, nextWait, now))
    BY <1>9, <2>1
  <2> HIDE DEF p
  <2> QED  BY <1>6, <1>7, <1>8, <2>2, ResolvedSignalKeeps
<1>10. CASE /\ objects' = [objects EXCEPT ![s] = r] /\ signaled' = B
            /\ ~(o.depth = 1 /\ Waiters(s) # {})
            /\ UNCHANGED <<refs, handles, nextHandle, waits, nextWait, apcs, now, queue, reply, live>>
  <2>1. objects' = p.objects /\ signaled' = p.signaled
    BY <1>10
  <2> HIDE DEF p
  <2>2. Signal(p)
    BY <1>1, <1>6, <1>7, <1>10, <2>1, WriteIsSignal
  <2>3. Kept(waits, p.waits, DOMAIN waits)
    BY <1>7 DEF Kept, SameWait
  <2>4. Steady
    <3>1. p \in Plans(DOMAIN waits) /\ Commit(p) /\ UNCHANGED <<handles, now>>
      BY <1>6, <1>10, <2>2 DEF SoundPlan, Signal
    <3>2. \A w \in DOMAIN waits : /\ MayBecome(waits[w], p.waits[w])
                                  /\ waits[w] \in WaitRecord /\ p.waits[w] = waits[w]
      BY <1>7, Unmoved DEF IInv, WaitInv, WaitsTyped
    <3>3. PICK q : q = Plan
      OBVIOUS
    <3>4. q.objects = objects /\ q.signaled = signaled
      BY <3>3 DEF Plan
    <3>5. p.objects[s] = r /\ \A k \in Slots : k # s => (k \in p.signaled <=> k \in signaled)
      BY PlanFacts DEF p
    <3>6. ASSUME NEW k \in Slots, k # s, NEW u, Ready(p, k, u) PROVE Ready(q, k, u)
      BY <1>7, <3>4, <3>5, <3>6 DEF Ready
    <3>7. ASSUME NEW u \in Threads, o.depth # 1, Ready(p, s, u) PROVE Ready(q, s, u)
      <4>3. o \in MutexKind
        BY <1>2, <1>4, ReleasedMutex
      <4>1. r.owner = t
        BY <1>3, <1>4, <3>7, <4>3 DEF Released, MutexKind
      <4>2. u = t
        BY <1>5, <3>5, <3>7, <4>1, NoThreadAssumption DEF Ready
      <4> QED  BY <1>2, <1>4, <3>4, <4>2 DEF Ready
    <3>8. ASSUME NEW w \in DOMAIN waits, waits[w].result = Pending
          PROVE  NotReadierFor(q, p, waits[w])
      <4>1. PICK v \in WaitRecord : v = waits[w]
        BY <3>2
      <4>2. v.thread \in Threads /\ \A i \in DOMAIN v.slots : v.slots[i] \in Slots
        BY WaitParts
      <4>3. CASE o.depth # 1
        BY <3>6, <3>7, <4>1, <4>2, <4>3 DEF NotReadierFor
      <4>4. CASE o.depth = 1
        <5>1. w \notin Waiters(s) /\ w \in Undecided
          BY <1>10, <3>8, <4>4 DEF Undecided
        <5>2. \A i \in DOMAIN v.slots : v.slots[i] # s
          BY <4>1, <5>1 DEF Waiters
        <5> QED  BY <3>6, <4>1, <4>2, <5>2 DEF NotReadierFor
      <4> QED  BY <4>3, <4>4
    <3> QED  BY <3>1, <3>2, <3>3, <3>8, QuietCommit
  <2> QED  BY <1>6, <1>8, <2>2, <2>3, <2>4, SignalKeeps
<1> QED  BY <1>1, <1>2, <1>3, <1>9, <1>10 DEF Release, Released

(* try_acquire_mutex, by a thread that is alive.                           *)
LEMMA TryAcquireKeeps ==
    ASSUME IInv, NEW t \in live, NEW h \in DOMAIN handles, TryAcquireMutex(t, h)
    PROVE  IInv' /\ Steady
<1>1. PICK s \in Slots : s = handles[h] /\ refs[s] # 0
  BY HandleNames
<1>2. PICK o \in ObjectKind : o = objects[s]
  BY PlanFacts
<1>3. PICK r : r = Consume(o, t)
  OBVIOUS
<1>4. /\ o.type = "mutex"
      /\ objects' = [objects EXCEPT ![s] = r] /\ signaled' = signaled \ {s}
      /\ UNCHANGED <<refs, handles, nextHandle, waits, nextWait, apcs, now, queue, reply, live>>
  BY <1>1, <1>2, <1>3 DEF TryAcquireMutex
<1>5. t \in Threads /\ t # NoThread
  BY NoThreadAssumption DEF IInv, WaitInv, WaitsTyped
<1>6. /\ r \in ObjectKind /\ r.type = "mutex"
      /\ r.owner = t /\ r.depth = o.depth + 1 /\ r.abandoned = FALSE
  BY <1>3, <1>4, <1>5, ConsumeKind
<1>7. o.depth \in Nat
  BY <1>4, Kinds, MutexParts
<1>8. r.depth # 0
  BY <1>6, <1>7
<1> DEFINE B == signaled \ {s}
           p == [objects |-> [objects EXCEPT ![s] = r], signaled |-> B, waits |-> waits]
<1>9. SoundPlan(p, DOMAIN waits, live)
  <2>1. s \notin B /\ B \in SUBSET Slots /\ B \ {s} = Plan.signaled \ {s}
    BY PlanFacts
  <2>2. p = [objects |-> [Plan.objects EXCEPT ![s] = r], signaled |-> B, waits |-> Plan.waits]
    BY PlanFacts
  <2> HIDE DEF B, p
  <2>3. ObjectSound(r, s \in B, live, nextHandle)
    BY <1>5, <1>6, <1>8, <2>1 DEF ObjectSound, MutexSound
  <2>4. r.type = objects[s].type /\ (r.type = "timer" => r.id = Plan.objects[s].id)
    BY <1>2, <1>4, <1>6
  <2>5. SoundPlan(Plan, DOMAIN waits, live)
    BY PlanFacts
  <2> QED  BY <1>6, <2>1, <2>2, <2>3, <2>4, <2>5, SoundPut
<1>10. p.waits = waits /\ \A k \in Slots \ {s} : p.objects[k] = objects[k]
  BY PlanFacts
<1>11. \A k \in Slots : objects[k].type = "timer" => p.objects[k] = objects[k]
  BY <1>2, <1>4, <1>10
<1>12. objects' = p.objects /\ signaled' = p.signaled
  BY <1>4
<1> HIDE DEF p
<1>13. Signal(p)
  BY <1>1, <1>4, <1>9, <1>10, <1>12, WriteIsSignal
<1>14. Kept(waits, p.waits, DOMAIN waits)
  BY <1>10 DEF Kept, SameWait
<1>15. Steady
  <2>1. p \in Plans(DOMAIN waits) /\ Commit(p) /\ UNCHANGED <<handles, now>>
    BY <1>4, <1>9, <1>13 DEF SoundPlan, Signal
  <2>2. ASSUME NEW k \in Slots, NEW u, Ready(p, k, u) PROVE Ready(Plan, k, u)
    <3>1. Plan.objects = objects /\ Plan.signaled = signaled
      BY PlanFacts
    <3>2. CASE k = s
      <4>1. p.objects[s] = r /\ o.owner \in {NoThread, t}
        BY <1>1, <1>2, <1>4, <1>12, PlanFacts DEF TryAcquireMutex
      <4>2. u = t
        BY <1>5, <1>6, <2>2, <3>2, <4>1 DEF Ready
      <4> QED  BY <1>2, <1>4, <3>1, <3>2, <4>1, <4>2 DEF Ready
    <3>3. CASE k # s
      <4>1. p.objects[k] = objects[k] /\ (k \in p.signaled => k \in signaled)
        BY <1>4, <1>10, <1>12, <3>3
      <4> QED  BY <2>2, <3>1, <4>1 DEF Ready
    <3> QED  BY <3>2, <3>3
  <2>3. \A w \in WaitRecord : NotReadierFor(Plan, p, w)
    BY <2>2 DEF NotReadierFor, WaitRecord
  <2>4. \A w \in DOMAIN waits : MayBecome(waits[w], p.waits[w]) /\ p.waits[w] \in WaitRecord
    BY <1>10, Unmoved DEF IInv, WaitInv, WaitsTyped
  <2> QED  BY <1>10, <2>1, <2>3, <2>4, QuietCommit
<1> QED  BY <1>9, <1>11, <1>13, <1>14, <1>15, SignalKeeps

(* Waits and calls.                                                        *)

(* What a call has just built: undecided, not expired unless it asks only,  *)
(* on handles that are open.                                                *)
Fresh(w, timeout) ==
    w.result = Pending /\ Held(w, handles) /\ (timeout # 0 => ~Expired(w, now))

(* What a thread begins to wait with.                                      *)
LEMMA NewWaitFits ==
    ASSUME IInv, NEW t \in Threads, NEW hs \in Seq(DOMAIN handles), Len(hs) <= 64,
           NEW mode \in {"any", "all", "sleep"}, NEW timeout \in Nat \cup {Never},
           NEW alertable \in BOOLEAN, NEW w, w = NewWait(t, hs, mode, timeout, alertable)
    PROVE  /\ w \in WaitRecord /\ Fits(w) /\ w.thread = t /\ w.result = Pending
           /\ w.handles = hs /\ w.alertable = alertable
           /\ \A i \in DOMAIN hs : hs[i] \in DOMAIN handles /\ w.slots[i] = handles[hs[i]]
           /\ timeout # 0 => ~Expired(w, now)
           /\ Fresh(w, timeout)
<1>1. /\ DOMAIN handles \subseteq Nat /\ \A h \in DOMAIN handles : handles[h] \in Slots
      /\ now \in Nat
  BY NowNat DEF IInv, ObjectInv, HandlesTyped
<1>2. /\ Len(hs) \in Nat /\ DOMAIN hs = 1 .. Len(hs)
      /\ \A i \in DOMAIN hs : hs[i] \in DOMAIN handles
  OBVIOUS
<1>3. hs \in Seq(Nat)
  <2>1. hs \in [1 .. Len(hs) -> Nat]
    BY <1>1, <1>2
  <2> QED  BY <1>2, <2>1
<1> DEFINE slots == [i \in DOMAIN hs |-> handles[hs[i]]]
<1>4. slots \in [1 .. Len(hs) -> Slots]
  BY <1>1, <1>2
<1>5. slots \in Seq(Slots) /\ DOMAIN slots = DOMAIN hs /\ Len(slots) = Len(hs)
  <2>1. DOMAIN slots = 1 .. Len(hs)
    BY <1>2
  <2> QED  BY <1>2, <1>4, <2>1
<1>6. \A i \in DOMAIN hs : slots[i] = handles[hs[i]]
  OBVIOUS
<1>7. timeout \in Nat \cup {Never}
  OBVIOUS
<1>8. PICK deadline : deadline = IF timeout = Never THEN Never ELSE now + timeout
  OBVIOUS
<1>9. deadline \in Nat \cup {Never}
  BY <1>1, <1>7, <1>8
<1>10. w = [thread |-> t, handles |-> hs, slots |-> slots, mode |-> mode,
            deadline |-> deadline, alertable |-> alertable, result |-> Pending]
  BY <1>8 DEF NewWait
<1> HIDE DEF slots
<1>11. Pending \in Results
  BY DEF Results
<1>12. w \in WaitRecord
  BY <1>3, <1>5, <1>9, <1>10, <1>11 DEF WaitRecord
<1>13. Fits(w)
  BY <1>5, <1>10 DEF Fits
<1>14. timeout # 0 => ~Expired(w, now)
  <2>1. w.deadline = deadline
    BY <1>10
  <2> QED  BY <1>1, <1>7, <1>8, <2>1 DEF Expired, Never
<1>15. /\ w.thread = t /\ w.result = Pending /\ w.handles = hs /\ w.alertable = alertable
       /\ w.slots = slots
  BY <1>10
<1>16. Fresh(w, timeout)
  <2>1. Held(w, handles)
    BY <1>2, <1>6, <1>15 DEF Held
  <2> QED  BY <1>14, <1>15, <2>1 DEF Fresh
<1> QED  BY <1>2, <1>6, <1>12, <1>13, <1>14, <1>15, <1>16

(* A call that is answered before it waits.                                *)
LEMMA AnswerKeeps ==
    ASSUME IInv, NEW t \in Threads, Running(t), NEW p, SoundPlan(p, DOMAIN waits, live),
           Kept(waits, p.waits, DOMAIN waits),
           \A s \in Slots : objects[s].type = "timer" => p.objects[s] = objects[s],
           Commit(p), NEW result \in Results, NEW alertable, Answer(t, result, alertable),
           UNCHANGED <<refs, handles, nextHandle, nextWait, apcs, now, queue, live>>
    PROVE  IInv'
<1>1. /\ p \in Plans(DOMAIN waits) /\ UNCHANGED <<invocations, nextInvocation, active>>
  BY DEF SoundPlan, queue
<1>2. ObjectInv'
  BY CommitKeepsObjects DEF IInv
<1>3. waits' = p.waits /\ waits' \in [DOMAIN waits -> WaitRecord]
  BY <1>1, PlanParts DEF Commit
<1>4. RepliesKept
  <2>1. reply \in [Threads -> Reply] /\ reply[t] = NoReply
    BY DEF IInv, WaitInv, FramesTyped, Running
  <2>2. NoReply.wait = 0
    BY DEF NoReply
  <2>3. CASE reply' = reply
    BY <2>1, <2>3 DEF RepliesKept
  <2>4. CASE reply' = [reply EXCEPT ![t] = [wait |-> 0, alertable |-> TRUE,
                                            result |-> result, delivered |-> FALSE]]
    <3>1. PICK f : f = [wait |-> 0, alertable |-> TRUE, result |-> result, delivered |-> FALSE]
      OBVIOUS
    <3>2. f \in Reply /\ f.wait = 0
      BY <3>1 DEF Reply
    <3>3. reply' = [reply EXCEPT ![t] = f]
      BY <2>4, <3>1
    <3> QED  BY <2>1, <2>2, <3>2, <3>3 DEF RepliesKept
  <2> QED  BY <2>3, <2>4 DEF Answer
<1>5. WaitInv'
  BY <1>1, <1>3, <1>4, DecidedWaits DEF IInv, WaitInv, WaitsTyped
<1>6. \A s \in Slots : objects'[s].type = "timer" => objects'[s] = objects[s]
  BY <1>1, PlanParts, CommitTimers DEF SoundPlan
<1>7. nextHandle \in Nat /\ nextHandle' \in Nat /\ nextHandle <= nextHandle'
  BY NowNat
<1>8. QueueInv'
  BY <1>1, <1>6, <1>7, KeptQueue DEF IInv
<1> QED  BY <1>2, <1>5, <1>8 DEF IInv

(* What a step does to the calls of thread u: nothing; the call is answered *)
(* before it waits, or enters the table of waits; it is over, or its thread *)
(* is; a callback interrupts it; or the last callback returns into it.      *)
CallMoves(u) ==
    \/ reply'[u] = reply[u] /\ active'[u] = active[u] /\ (u \in apcs => u \in apcs')
    \/ /\ active'[u] = active[u] /\ u \in apcs'
       /\ reply'[u].wait = 0 /\ reply'[u].result # Pending /\ ~reply'[u].delivered
    \/ /\ active'[u] = active[u] /\ reply'[u].wait \in DOMAIN waits' \ DOMAIN waits
       /\ reply'[u].wait # 0 /\ ~reply'[u].delivered
    \/ reply'[u] = NoReply /\ active'[u] \in {active[u], <<>>}
    \/ /\ reply[u].alertable /\ reply'[u] = NoReply
       /\ active'[u] = Append(active[u], [reply[u] EXCEPT !.delivered = TRUE])
    \/ /\ active[u] # <<>> /\ reply'[u] = active[u][Len(active[u])]
       /\ active'[u] = SubSeq(active[u], 1, Len(active[u]) - 1)

CallsMove == \A u \in Threads : CallMoves(u)

(* A call that is answered before it waits, or just returns.               *)
LEMMA AnswerMoves ==
    ASSUME IInv, NEW t \in Threads, NEW result, result # Pending, NEW alertable,
           Answer(t, result, alertable), UNCHANGED <<apcs, queue>>
    PROVE  CallsMove
<1>1. reply \in [Threads -> Reply] /\ UNCHANGED active
  BY DEF IInv, WaitInv, FramesTyped, queue
<1>2. CASE reply' = reply
  BY <1>1, <1>2 DEF CallsMove, CallMoves
<1>3. CASE reply' # reply
  <2>1. PICK f : f = [wait |-> 0, alertable |-> TRUE, result |-> result, delivered |-> FALSE]
    OBVIOUS
  <2>2. reply' = [reply EXCEPT ![t] = f] /\ Queued(t) # {}
    BY <1>3, <2>1 DEF Answer
  <2>3. f.wait = 0 /\ f.result # Pending /\ ~f.delivered
    BY <2>1
  <2>4. t \in apcs
    BY <2>2 DEF IInv, QueueInv, ApcListExact
  <2>5. \A u \in Threads : reply'[u] = IF u = t THEN f ELSE reply[u]
    BY <1>1, <2>2
  <2> QED  BY <1>1, <2>3, <2>4, <2>5 DEF CallsMove, CallMoves
<1> QED  BY <1>2, <1>3

(* A wait that enters the table.                                           *)
Entered(p, w) ==
    [p EXCEPT !.waits = [k \in DOMAIN @ \cup {nextWait + 1} |->
                            IF k = nextWait + 1 THEN w ELSE @[k]]]

(* The table of waits with one more entry.                                 *)
EnteredIn(p, q, w, D, n) ==
    /\ SoundPlan(q, D \cup {n}, live)
    /\ q.objects = p.objects /\ q.signaled = p.signaled
    /\ DOMAIN q.waits = D \cup {n} /\ q.waits[n] = w /\ n \notin D
    /\ \A k \in D : q.waits[k] = p.waits[k]

(* Entering a wait does that.                                              *)
LEMMA EnteredParts ==
    ASSUME IInv, NEW p, SoundPlan(p, DOMAIN waits, live),
           NEW w \in WaitRecord, Fits(w), w.thread \in live
    PROVE  EnteredIn(p, Entered(p, w), w, DOMAIN waits, nextWait + 1)
<1> PICK D : D = DOMAIN waits
  OBVIOUS
<1> PICK n : n = nextWait + 1
  OBVIOUS
<1> PICK q : q = Entered(p, w)
  OBVIOUS
<1>1. n \in Nat /\ n \notin D
  BY DEF IInv, WaitInv, WaitsTyped
<1>2. p \in Plans(D) /\ DOMAIN p.waits = D /\ \A k \in D : p.waits[k] \in WaitRecord
  BY PlanParts DEF SoundPlan
<1> DEFINE V == [k \in D \cup {n} |-> IF k = n THEN w ELSE p.waits[k]]
<1>3. /\ V \in [D \cup {n} -> WaitRecord] /\ V[n] = w /\ DOMAIN V = D \cup {n}
      /\ \A k \in D : V[k] = p.waits[k]
  BY <1>1, <1>2
<1>4. q = [p EXCEPT !.waits = V]
  BY <1>2 DEF Entered
<1> HIDE DEF V
<1>5. WaitsFit(V, D \cup {n}, live)
  BY <1>3 DEF SoundPlan, WaitsFit
<1>6. SoundPlan(q, D \cup {n}, live)
  BY <1>3, <1>4, <1>5, SoundTable
<1>7. q.objects = p.objects /\ q.signaled = p.signaled /\ q.waits = V
  BY <1>2, <1>4 DEF Plans
<1>8. EnteredIn(p, q, w, D, n)
  BY <1>1, <1>3, <1>6, <1>7 DEF EnteredIn
<1> QED  BY <1>8

(* A call that enters the wait table and blocks.                           *)
LEMMA EnterKeeps ==
    ASSUME IInv, NEW t \in Threads, Running(t), NEW p, SoundPlan(p, DOMAIN waits, live),
           Kept(waits, p.waits, DOMAIN waits),
           \A s \in Slots : objects[s].type = "timer" => p.objects[s] = objects[s],
           NEW w \in WaitRecord, Fits(w), w.thread = t, w.alertable => t \notin apcs,
           Commit(Entered(p, w)), nextWait' = nextWait + 1,
           reply' = [reply EXCEPT ![t] = [wait |-> nextWait', alertable |-> w.alertable,
                                          result |-> Pending, delivered |-> FALSE]],
           UNCHANGED <<refs, handles, nextHandle, apcs, now, queue, live>>
    PROVE  IInv'
<1>1. t \in live /\ reply[t] = NoReply /\ NoReply.wait = 0
  BY DEF Running, NoReply
<1>2. PICK q : q = Entered(p, w)
  OBVIOUS
<1>3. PICK n : n = nextWait + 1
  OBVIOUS
<1>4. /\ SoundPlan(q, DOMAIN waits \cup {n}, live)
      /\ q.objects = p.objects /\ q.signaled = p.signaled
      /\ DOMAIN q.waits = DOMAIN waits \cup {n} /\ q.waits[n] = w /\ n \notin DOMAIN waits
      /\ \A k \in DOMAIN waits : q.waits[k] = p.waits[k]
  <2>1. w.thread \in live
    BY <1>1
  <2>2. EnteredIn(p, Entered(p, w), w, DOMAIN waits, nextWait + 1)
    BY <2>1, EnteredParts
  <2>3. EnteredIn(p, q, w, DOMAIN waits, n)
    BY <1>2, <1>3, <2>2
  <2> QED  BY <2>3 DEF EnteredIn
<1>5. Commit(q) /\ q \in Plans(DOMAIN waits \cup {n})
      /\ UNCHANGED <<invocations, nextInvocation, active>>
  BY <1>2, <1>4 DEF SoundPlan, queue
<1>6. ObjectInv'
  BY <1>4, <1>5, CommitKeepsObjects DEF IInv
<1>7. /\ waits' = q.waits /\ waits' \in [DOMAIN waits \cup {n} -> WaitRecord]
      /\ DOMAIN waits' = DOMAIN waits \cup {n} /\ waits'[n] = w
  BY <1>4, <1>5, PlanParts DEF Commit
<1>8. \A k \in DOMAIN waits : /\ SameWait(waits[k], waits'[k])
                              /\ waits[k].result # Pending => waits'[k].result # Pending
  BY <1>4, <1>7 DEF Kept
<1>9. nextWait \in Nat /\ DOMAIN waits \subseteq 1 .. nextWait
  BY DEF IInv, WaitInv, WaitsTyped
<1>10. WaitsTyped'
  <2>1. DOMAIN waits' \subseteq 1 .. nextWait' /\ nextWait' \in Nat
    BY <1>3, <1>7, <1>9
  <2> QED  BY <1>7, <2>1 DEF WaitsTyped, IInv, WaitInv
<1>11. PICK f : f = [wait |-> n, alertable |-> w.alertable, result |-> Pending, delivered |-> FALSE]
  OBVIOUS
<1>12. /\ f \in Reply /\ f.wait = n /\ f.alertable = w.alertable
       /\ reply' = [reply EXCEPT ![t] = f]
  <2>1. Pending \in Results /\ n \in Nat /\ w.alertable \in BOOLEAN
    BY <1>3, <1>9, WaitParts DEF Results
  <2>2. f \in Reply
    BY <1>11, <2>1 DEF Reply
  <2> QED  BY <1>3, <1>11, <2>2, SMTT(30)
<1>13. FramesTyped' /\ \A u \in Threads : reply'[u] = IF u = t THEN f ELSE reply[u]
  BY <1>5, <1>12 DEF FramesTyped, IInv, WaitInv
<1>14. WaitsFit(waits, DOMAIN waits, live)'
  BY <1>4, <1>7 DEF SoundPlan
<1>15. ASSUME NEW u \in Threads PROVE ThreadHolds(u, reply'[u], active[u], waits')
  <2>1. ThreadHolds(u, reply[u], active[u], waits)
    BY DEF IInv, WaitInv, FramesHold
  <2>2. ASSUME NEW g, FrameHolds(g, u, waits) PROVE FrameHolds(g, u, waits')
    BY <1>7, <1>8, <2>2 DEF FrameHolds, SameWait
  <2>3. ASSUME NEW i \in DOMAIN active[u], active[u][i].wait # 0
        PROVE  /\ waits'[active[u][i].wait].result # Pending
               /\ active[u][i].wait # reply'[u].wait
    <3>1. active[u][i].wait \in DOMAIN waits /\ waits[active[u][i].wait].result # Pending
          /\ active[u][i].wait # reply[u].wait
      BY <2>1, <2>3 DEF ThreadHolds, FrameHolds
    <3> QED  BY <1>4, <1>8, <1>12, <1>13, <3>1
  <2>4. FrameHolds(reply'[u], u, waits')
    <3>1. CASE u = t
      BY <1>7, <1>12, <1>13, <3>1 DEF FrameHolds
    <3>2. CASE u # t
      BY <1>13, <2>1, <2>2, <3>2 DEF ThreadHolds
    <3> QED  BY <3>1, <3>2
  <2>5. \A i \in DOMAIN active[u] :
           /\ FrameHolds(active[u][i], u, waits)
           /\ active[u][i].wait # 0 =>
                 \A j \in DOMAIN active[u] : j # i => active[u][j].wait # active[u][i].wait
    BY <2>1 DEF ThreadHolds
  <2> QED  BY <2>2, <2>3, <2>4, <2>5 DEF ThreadHolds
<1>16. FramesHold'
  BY <1>5, <1>15 DEF FramesHold
<1>17. ASSUME NEW k \in DOMAIN waits'
       PROVE  Takes(reply'[waits'[k].thread], active[waits'[k].thread], k)
  <2>1. CASE k = n
    BY <1>7, <1>12, <1>13, <2>1 DEF Takes
  <2>2. CASE k \in DOMAIN waits
    <3>1. PICK u \in Threads : u = waits[k].thread /\ waits'[k].thread = u
      BY <1>8, <2>2, WaitParts DEF IInv, WaitInv, WaitsTyped, SameWait
    <3>2. Takes(reply[u], active[u], k) /\ k # 0
      BY <1>9, <2>2, <3>1 DEF IInv, WaitInv, WaitsTaken
    <3>3. reply'[u] = reply[u] \/ reply[u].wait = 0
      BY <1>1, <1>13
    <3> QED  BY <3>1, <3>2, <3>3 DEF Takes
  <2> QED  BY <1>7, <2>1, <2>2
<1>18. WaitsTaken'
  BY <1>5, <1>17 DEF WaitsTaken
<1>19. Unalerted'
  <2>1. ASSUME NEW k \in DOMAIN waits', waits'[k].result = Pending, waits'[k].alertable
        PROVE  waits'[k].thread \notin apcs
    <3>1. CASE k = n
      BY <1>7, <2>1, <3>1
    <3>2. CASE k \in DOMAIN waits
      BY <1>8, <2>1, <3>2 DEF IInv, WaitInv, Unalerted, Undecided, SameWait
    <3> QED  BY <1>7, <3>1, <3>2
  <2> QED  BY <2>1 DEF Unalerted, Undecided
<1>20. WaitInv'
  BY <1>10, <1>13, <1>14, <1>16, <1>18, <1>19 DEF WaitInv
<1>21. \A s \in Slots : objects'[s].type = "timer" => objects'[s] = objects[s]
  BY <1>4, <1>5, PlanParts, CommitTimers DEF SoundPlan
<1>22. QueueInv'
  <2>1. nextHandle \in Nat /\ nextHandle' \in Nat /\ nextHandle <= nextHandle'
    BY NowNat
  <2> QED  BY <1>5, <1>21, <2>1, KeptQueue DEF IInv
<1> QED  BY <1>6, <1>20, <1>22 DEF IInv

(* A wait that is answered at once takes its objects from others, so nobody *)
(* else gets readier, and its own thread waits for nothing.                 *)
LEMMA TakeSettles ==
    ASSUME IInv, NEW t \in Threads, Running(t), NEW D, D = DOMAIN waits, NEW p \in Plans(D),
           Kept(waits, p.waits, D), SettledPlan(p, D, now),
           NEW w \in WaitRecord, w.thread = t, Satisfied(p, w), NEW q, q = TakeObjects(p, w)
    PROVE  SettledPlan(q, D, now)
<1>1. q \in Plans(D) /\ q.waits = p.waits
  BY TakeParts
<1>2. ASSUME NEW k \in D PROVE Settled(q, k, now)
  <2>1. /\ p.waits[k] \in WaitRecord /\ q.waits[k] \in WaitRecord
        /\ SameWait(p.waits[k], q.waits[k])
    BY <1>1, PlanParts DEF SameWait
  <2>2. ASSUME q.waits[k].result = Pending PROVE NotReadier(p, q, q.waits[k].thread)
    <3>1. waits[k].result = Pending /\ waits[k].thread = q.waits[k].thread
      BY <1>1, <2>2 DEF Kept, SameWait
    <3>2. reply[waits[k].thread].wait = k /\ k # 0
      BY <3>1, UndecidedIsReplied DEF IInv
    <3>3. waits[k].thread # t
      BY <3>2 DEF Running, NoReply
    <3> QED  BY <3>1, <3>3, TakeNotReadier
  <2>3. Settled(p, k, now)
    BY DEF SettledPlan
  <2> QED  BY <1>1, <2>1, <2>2, <2>3, StaysSettled
<1> QED  BY <1>2 DEF SettledPlan

(* A wait that enters the table is not satisfied, and disturbs no other.    *)
LEMMA EnterSettles ==
    ASSUME IInv, NEW D, D = DOMAIN waits, NEW n, n = nextWait + 1,
           NEW p, SoundPlan(p, D, live), SettledPlan(p, D, now),
           NEW w \in WaitRecord, Fits(w), w.thread \in live,
           ~Satisfied(p, w), ~Expired(w, now), NEW q, q = Entered(p, w)
    PROVE  SettledPlan(q, D \cup {n}, now)
<1>1. /\ SoundPlan(q, D \cup {n}, live)
      /\ q.objects = p.objects /\ q.signaled = p.signaled /\ q.waits[n] = w
      /\ \A k \in D : q.waits[k] = p.waits[k]
  <2>1. EnteredIn(p, Entered(p, w), w, DOMAIN waits, nextWait + 1)
    BY EnteredParts
  <2>2. EnteredIn(p, q, w, D, n)
    BY <2>1
  <2> QED  BY <2>2 DEF EnteredIn
<1>2. \A s \in Slots : \A u : Ready(q, s, u) <=> Ready(p, s, u)
  BY <1>1 DEF Ready
<1>3. ASSUME NEW k \in D PROVE Settled(q, k, now)
  <2>1. p.waits[k] \in WaitRecord /\ q.waits[k] = p.waits[k]
    BY <1>1, PlanParts DEF SoundPlan
  <2>2. NotReadier(p, q, q.waits[k].thread) /\ SameWait(p.waits[k], q.waits[k])
    BY <1>2, <2>1 DEF NotReadier, SameWait
  <2>3. Settled(p, k, now)
    BY DEF SettledPlan
  <2> QED  BY <2>1, <2>2, <2>3, StaysSettled
<1>4. Settled(q, n, now)
  <2>1. SameWait(w, w) /\ NotReadier(p, q, w.thread)
    BY <1>2 DEF SameWait, NotReadier
  <2>2. ~Satisfied(q, w)
    BY <2>1, NotMoreSatisfied
  <2> QED  BY <1>1, <2>2 DEF Settled
<1> QED  BY <1>3, <1>4 DEF SettledPlan

(* wait_projected                                                          *)
LEMMA WaitOnKeeps ==
    ASSUME IInv, NEW t \in Threads, Running(t), NEW p, SoundPlan(p, DOMAIN waits, live),
           Kept(waits, p.waits, DOMAIN waits),
           \A s \in Slots : objects[s].type = "timer" => p.objects[s] = objects[s],
           NInv => SettledPlan(p, DOMAIN waits, now),
           \A k \in DOMAIN waits : MayBecome(waits[k], p.waits[k]),
           NEW w \in WaitRecord, Fits(w), w.thread = t, NEW timeout, Fresh(w, timeout),
           WaitOn(p, w, timeout)
    PROVE  IInv' /\ Steady /\ CallsMove
<1> PICK D : D = DOMAIN waits
  OBVIOUS
<1>10. p \in Plans(D) /\ UNCHANGED <<handles, now>> /\ t \in live
  BY DEF SoundPlan, WaitOn, Running
<1>1. UNCHANGED <<refs, handles, nextHandle, apcs, now, queue, live>>
  BY DEF WaitOn
<1>2. IoCompletion \in Results
  BY DEF Results
<1>3. CASE Commit(p) /\ Answer(t, IoCompletion, TRUE) /\ UNCHANGED nextWait
  <2>1. Steady
    BY <1>3, <1>10, CommitAdvances
  <2>2. IoCompletion # Pending
    BY DEF IoCompletion, Pending
  <2>3. CallsMove
    BY <1>1, <1>3, <2>2, AnswerMoves
  <2> QED  BY <1>1, <1>2, <1>3, <2>1, <2>3, AnswerKeeps
<1>4. CASE Commit(p) /\ Answer(t, ExpiryResult(w.mode), w.alertable) /\ UNCHANGED nextWait
  <2>1. Steady
    BY <1>4, <1>10, CommitAdvances
  <2>2. ExpiryResult(w.mode) \in Results /\ ExpiryResult(w.mode) # Pending
    BY AnswersAreResults
  <2>3. CallsMove
    BY <1>1, <1>4, <2>2, AnswerMoves
  <2> QED  BY <1>1, <1>4, <2>1, <2>2, <2>3, AnswerKeeps
<1>5. CASE /\ Satisfied(p, w) /\ Commit(TakeObjects(p, w))
           /\ Answer(t, GrantResult(p, w), w.alertable) /\ UNCHANGED nextWait
  <2>1. p \in Plans(DOMAIN waits) /\ Mutexes(p, live) /\ w.thread \in live
    BY SoundMutexes DEF Running
  <2>2. PICK q : q = TakeObjects(p, w)
    OBVIOUS
  <2>3. Resolved(p, q, DOMAIN waits) /\ Mutexes(q, live) /\ q.waits = p.waits
    BY <1>5, <2>1, <2>2, TakeResolves, TakeMutexes, TakeParts
  <2>4. SoundPlan(q, DOMAIN waits, live)
    BY <2>3, SoundResolved
  <2>5. \A s \in Slots : objects[s].type = "timer" => q.objects[s] = objects[s]
    BY <2>3, ResolvedKeeps
  <2>6. GrantResult(p, w) \in Results /\ GrantResult(p, w) # Pending
    BY <1>5, GrantIsResult, AnswersAreResults
  <2>12. CallsMove
    BY <1>1, <1>5, <2>6, AnswerMoves
  <2>7. Kept(waits, q.waits, DOMAIN waits) /\ Commit(q)
    BY <1>5, <2>2, <2>3
  <2>8. NInv => SettledPlan(q, D, now)
    BY <1>5, <1>10, <2>2, TakeSettles
  <2>9. \A k \in D : MayBecome(waits[k], q.waits[k])
    BY <2>3
  <2>10. q \in Plans(D)
    BY <2>4 DEF SoundPlan
  <2>11. Steady
    BY <1>10, <2>7, <2>8, <2>9, <2>10, CommitAdvances
  <2> QED  BY <1>1, <1>5, <2>4, <2>5, <2>6, <2>7, <2>11, <2>12, AnswerKeeps
<1>6. CASE /\ ~(w.alertable /\ t \in apcs) /\ ~Satisfied(p, w) /\ timeout # 0
           /\ nextWait' = nextWait + 1
           /\ Commit([p EXCEPT !.waits = [k \in DOMAIN @ \cup {nextWait'} |->
                                             IF k = nextWait' THEN w ELSE @[k]]])
           /\ reply' = [reply EXCEPT ![t] = [wait |-> nextWait', alertable |-> w.alertable,
                                             result |-> Pending, delivered |-> FALSE]]
  <2>1. Commit(Entered(p, w))
    BY <1>6 DEF Entered
  <2>2. PICK n : n = nextWait + 1
    OBVIOUS
  <2>3. PICK q : q = Entered(p, w)
    OBVIOUS
  <2>4. /\ q \in Plans(D \cup {n}) /\ q.waits[n] = w /\ n \notin D
        /\ \A k \in D : q.waits[k] = p.waits[k]
    <3>1. EnteredIn(p, Entered(p, w), w, DOMAIN waits, nextWait + 1)
      BY <1>10, EnteredParts
    <3>2. EnteredIn(p, q, w, D, n)
      BY <2>2, <2>3, <3>1
    <3> QED  BY <3>2 DEF EnteredIn, SoundPlan
  <2>5. NInv => SettledPlan(q, D \cup {n}, now)
    BY <1>6, <1>10, <2>2, <2>3, EnterSettles DEF Fresh
  <2>6. \A k \in D \cup {n} : IF k \in DOMAIN waits THEN MayBecome(waits[k], q.waits[k])
                               ELSE q.waits[k].result = Pending /\ Held(q.waits[k], handles)
    BY <2>4 DEF Fresh
  <2>7. Steady
    BY <1>10, <2>1, <2>3, <2>4, <2>5, <2>6, CommitAdvances
  <2>8. CallsMove
    <3>1. PICK f : f = [wait |-> nextWait', alertable |-> w.alertable,
                        result |-> Pending, delivered |-> FALSE]
      OBVIOUS
    <3>2. reply' = [reply EXCEPT ![t] = f] /\ f.wait = nextWait' /\ ~f.delivered
      BY <1>6, <3>1
    <3>3. reply \in [Threads -> Reply] /\ active' = active
      BY <1>1 DEF IInv, WaitInv, FramesTyped, queue
    <3>4. DOMAIN waits' = D \cup {n} /\ n \notin D /\ n = nextWait' /\ n # 0
      <4>1. Commit(q) /\ q.signaled \subseteq Slots /\ DOMAIN q.waits = D \cup {n}
        BY <2>1, <2>3, <2>4, PlanParts
      <4>2. waits' = q.waits
        BY <4>1, CommitParts
      <4>3. n = nextWait' /\ n # 0
        BY <1>6, <2>2, NowNat
      <4> QED  BY <2>4, <4>1, <4>2, <4>3
    <3>5. \A u \in Threads : reply'[u] = IF u = t THEN f ELSE reply[u]
      BY <3>2, <3>3
    <3> QED  BY <1>1, <3>2, <3>3, <3>4, <3>5 DEF CallsMove, CallMoves
  <2> QED  BY <1>1, <1>6, <2>1, <2>7, <2>8, EnterKeeps
<1> QED  BY <1>3, <1>4, <1>5, <1>6 DEF WaitOn

(* The wait calls on any open handles.                                     *)
LEMMA PlanWaitKeeps ==
    ASSUME IInv, NEW t \in Threads, Running(t), NEW w \in WaitRecord, Fits(w), w.thread = t,
           NEW timeout, Fresh(w, timeout), WaitOn(Plan, w, timeout)
    PROVE  IInv' /\ Steady /\ CallsMove
<1>1. PICK p : p = Plan
  OBVIOUS
<1>2. SoundPlan(p, DOMAIN waits, live) /\ p.waits = waits /\ p.objects = objects
  BY <1>1, PlanFacts
<1>3. Kept(waits, p.waits, DOMAIN waits)
  BY <1>2 DEF Kept, SameWait
<1>4. WaitOn(p, w, timeout)
  BY <1>1
<1>5. NInv => SettledPlan(p, DOMAIN waits, now)
  BY <1>1 DEF NInv, AllSettled
<1>6. \A k \in DOMAIN waits : MayBecome(waits[k], p.waits[k])
  BY <1>2, Unmoved
<1> QED  BY <1>2, <1>3, <1>4, <1>5, <1>6, WaitOnKeeps

(* Whether a call is alertable is a truth value.                           *)
LEMMA AlertableTyped == Alertable \subseteq BOOLEAN
  BY DEF Alertable

(* WaitForSingleObject[Ex] and WaitForMultipleObjects[Ex]                  *)
LEMMA WaitForObjectsKeeps ==
    ASSUME IInv, NEW t \in Threads, NEW usable \in SUBSET DOMAIN handles, WaitForObjects(t, usable)
    PROVE  IInv' /\ Steady /\ CallsMove
<1>1. PICK mode \in {"any", "all"}, timeout \in Timeouts, alertable \in Alertable :
        /\ Running(t)
        /\ \E n \in 1 .. 2 : \E hs \in [1 .. n -> usable] :
             WaitOn(Plan, NewWait(t, hs, mode, timeout, alertable), timeout)
  BY DEF WaitForObjects, Call
<1>2. PICK n \in 1 .. 2 : \E hs \in [1 .. n -> usable] :
             WaitOn(Plan, NewWait(t, hs, mode, timeout, alertable), timeout)
  BY <1>1
<1>3. PICK hs \in [1 .. n -> usable] :
             WaitOn(Plan, NewWait(t, hs, mode, timeout, alertable), timeout)
  BY <1>2
<1>4. hs \in Seq(DOMAIN handles) /\ Len(hs) <= 64
  <2>1. hs \in [1 .. n -> DOMAIN handles] /\ n \in Nat
    OBVIOUS
  <2>2. hs \in Seq(DOMAIN handles) /\ Len(hs) = n
    BY <2>1
  <2> QED  BY <2>2
<1>5. PICK w : w = NewWait(t, hs, mode, timeout, alertable)
  OBVIOUS
<1>6. /\ mode \in {"any", "all", "sleep"} /\ alertable \in BOOLEAN
      /\ timeout \in Nat \cup {Never}
  BY AlertableTyped, BoundsAssumption
<1>7. w \in WaitRecord /\ Fits(w) /\ w.thread = t /\ Fresh(w, timeout)
  BY <1>4, <1>5, <1>6, NewWaitFits
<1>8. WaitOn(Plan, w, timeout)
  BY <1>3, <1>5
<1> QED  BY <1>1, <1>7, <1>8, PlanWaitKeeps

(* Sleep and SleepEx                                                       *)
LEMMA SleepKeeps ==
    ASSUME IInv, NEW t \in Threads, Sleep(t)
    PROVE  IInv' /\ Steady /\ CallsMove
<1>1. PICK timeout \in Timeouts, alertable \in Alertable :
        /\ Running(t)
        /\ WaitOn(Plan, NewWait(t, <<>>, "sleep", timeout, alertable), timeout)
  BY DEF Sleep, Call
<1>2. PICK w : w = NewWait(t, <<>>, "sleep", timeout, alertable)
  OBVIOUS
<1>3. PICK hs : hs = <<>>
  OBVIOUS
<1>8. hs \in Seq(DOMAIN handles) /\ Len(hs) <= 64
  <2>1. hs \in Seq(DOMAIN handles) /\ Len(hs) = 0
    BY <1>3
  <2> QED  BY <2>1
<1>4. alertable \in BOOLEAN /\ timeout \in Nat \cup {Never}
  BY AlertableTyped, BoundsAssumption
<1>5. PICK mode \in {"any", "all", "sleep"} : w = NewWait(t, hs, mode, timeout, alertable)
  BY <1>2, <1>3
<1>6. w \in WaitRecord /\ Fits(w) /\ w.thread = t /\ Fresh(w, timeout)
  BY <1>8, <1>4, <1>5, NewWaitFits
<1>7. WaitOn(Plan, w, timeout)
  BY <1>1, <1>2
<1> QED  BY <1>1, <1>6, <1>7, PlanWaitKeeps

(* SignalObjectAndWait: the waiters see the signal before the caller       *)
(* waits.                                                                  *)
LEMMA SignalObjectAndWaitKeeps ==
    ASSUME IInv, NEW t \in Threads, NEW h \in DOMAIN handles, NEW awaited \in DOMAIN handles,
           SignalObjectAndWait(t, h, awaited)
    PROVE  IInv' /\ Steady /\ CallsMove
<1>1. PICK timeout \in Timeouts, alertable \in Alertable :
        /\ Running(t) /\ objects[handles[h]].type = "event"
        /\ WaitOn(ResolveWaiters(SetSignal(Plan, handles[h]), nextWait, now),
                  NewWait(t, <<awaited>>, "any", timeout, alertable), timeout)
  BY DEF SignalObjectAndWait, Call
<1>2. PICK w : w = NewWait(t, <<awaited>>, "any", timeout, alertable)
  OBVIOUS
<1>3. PICK hs : hs = <<awaited>>
  OBVIOUS
<1>11. hs \in Seq(DOMAIN handles) /\ Len(hs) <= 64
  <2>1. hs \in Seq(DOMAIN handles) /\ Len(hs) = 1
    BY <1>3
  <2> QED  BY <2>1
<1>4. alertable \in BOOLEAN /\ timeout \in Nat \cup {Never}
  BY AlertableTyped, BoundsAssumption
<1>5. PICK mode \in {"any", "all", "sleep"} : w = NewWait(t, hs, mode, timeout, alertable)
  BY <1>2, <1>3
<1>6. w \in WaitRecord /\ Fits(w) /\ w.thread = t /\ Fresh(w, timeout)
  BY <1>11, <1>4, <1>5, NewWaitFits
<1>7. PICK s \in Slots : s = handles[h]
  BY HandleNames
<1>8. PICK q : q = ResolveWaiters(SetSignal(Plan, s), nextWait, now)
  OBVIOUS
<1>9. WaitOn(q, w, timeout) /\ objects[s].type = "event"
  BY <1>1, <1>2, <1>7, <1>8
<1>10. /\ SoundPlan(q, DOMAIN waits, live) /\ Kept(waits, q.waits, DOMAIN waits)
       /\ \A r \in Slots : objects[r].type = "timer" => q.objects[r] = objects[r]
       /\ SettledPlan(q, DOMAIN waits, now)
       /\ \A k \in DOMAIN waits : MayBecome(waits[k], q.waits[k])
  BY <1>8, <1>9, SignaledPlan
<1> QED  BY <1>1, <1>6, <1>9, <1>10, WaitOnKeeps

-----------------------------------------------------------------------------
(* The end of a call.                                                      *)

LEMMA ForgetKeeps ==
    ASSUME IInv, NEW t \in Threads, waits' = Forget(reply[t].wait),
           reply' = [reply EXCEPT ![t] = NoReply],
           UNCHANGED <<objects, signaled, refs, handles, nextHandle, nextWait, apcs, now,
                       queue, live>>
    PROVE  IInv' /\ Steady
<1>1. UNCHANGED <<invocations, nextInvocation, active>>
  BY DEF queue
<1>2. ObjectInv'
  BY DEF IInv, ObjectInv, ObjectsTyped, HandlesTyped, HandlesCounted, Names, SlotsUsed,
         ObjectsSound, TimersDiffer, Plan
<1>3. PICK id : id = reply[t].wait
  OBVIOUS
<1>4. /\ DOMAIN waits' = DOMAIN waits \ {id}
      /\ \A k \in DOMAIN waits \ {id} : waits'[k] = waits[k]
      /\ waits' \in [DOMAIN waits \ {id} -> WaitRecord]
  BY <1>3 DEF Forget, IInv, WaitInv, WaitsTyped
<1>5. WaitsTyped'
  BY <1>4 DEF IInv, WaitInv, WaitsTyped
<1>6. NoReply \in Reply /\ NoReply.wait = 0
  BY DEF NoReply, Reply, Results
<1>7. FramesTyped' /\ \A u \in Threads : reply'[u] = IF u = t THEN NoReply ELSE reply[u]
  BY <1>1, <1>6 DEF IInv, WaitInv, FramesTyped
<1>8. WaitsFit(waits, DOMAIN waits, live)'
  BY <1>4 DEF IInv, WaitInv, WaitsFit
<1>9. ASSUME NEW u \in Threads PROVE ThreadHolds(u, reply'[u], active[u], waits')
  <2>1. ThreadHolds(u, reply[u], active[u], waits)
    BY DEF IInv, WaitInv, FramesHold
  <2>2. id # 0 => id \in DOMAIN waits /\ waits[id].thread = t
    BY <1>3 DEF IInv, WaitInv, FramesHold, ThreadHolds, FrameHolds
  <2>3. ASSUME NEW f, FrameHolds(f, u, waits), f.wait # id \/ u # t \/ f.wait = 0
        PROVE  FrameHolds(f, u, waits')
    BY <1>4, <2>2, <2>3 DEF FrameHolds
  <2>4. FrameHolds(reply'[u], u, waits')
    <3>1. CASE u = t
      BY <1>6, <1>7, <3>1 DEF FrameHolds
    <3>2. CASE u # t
      BY <1>7, <2>1, <2>3, <3>2 DEF ThreadHolds
    <3> QED  BY <3>1, <3>2
  <2>5. ASSUME NEW i \in DOMAIN active[u]
        PROVE  /\ FrameHolds(active[u][i], u, waits')
               /\ active[u][i].wait # 0 =>
                     /\ waits'[active[u][i].wait].result # Pending
                     /\ active[u][i].wait # reply'[u].wait
                     /\ \A j \in DOMAIN active[u] : j # i => active[u][j].wait # active[u][i].wait
    <3>1. /\ FrameHolds(active[u][i], u, waits)
          /\ active[u][i].wait # 0 =>
                /\ waits[active[u][i].wait].result # Pending
                /\ active[u][i].wait # reply[u].wait
                /\ \A j \in DOMAIN active[u] : j # i => active[u][j].wait # active[u][i].wait
      BY <2>1 DEF ThreadHolds
    <3>2. active[u][i].wait # 0 => active[u][i].wait # id
      BY <1>3, <2>2, <3>1 DEF FrameHolds
    <3>3. FrameHolds(active[u][i], u, waits')
      BY <2>3, <3>1, <3>2
    <3>4. active[u][i].wait # 0 => active[u][i].wait \in DOMAIN waits \ {id}
      BY <3>1, <3>2 DEF FrameHolds
    <3> QED  BY <1>4, <1>6, <1>7, <3>1, <3>3, <3>4
  <2> QED  BY <2>4, <2>5 DEF ThreadHolds
<1>10. FramesHold'
  BY <1>1, <1>9 DEF FramesHold
<1>11. ASSUME NEW k \in DOMAIN waits \ {id}
       PROVE  Takes(reply'[waits[k].thread], active[waits[k].thread], k)
  <2>1. PICK u \in Threads : u = waits[k].thread
    BY WaitParts DEF IInv, WaitInv, WaitsTyped
  <2>2. Takes(reply[u], active[u], k)
    BY <2>1 DEF IInv, WaitInv, WaitsTaken
  <2> QED  BY <1>3, <1>7, <2>1, <2>2 DEF Takes
<1>12. WaitsTaken'
  BY <1>1, <1>4, <1>11 DEF WaitsTaken
<1>13. Unalerted'
  BY <1>4 DEF IInv, WaitInv, Unalerted, Undecided
<1>14. WaitInv'
  BY <1>5, <1>7, <1>8, <1>10, <1>12, <1>13 DEF WaitInv
<1>15. QueueInv'
  BY <1>1, NowNat, KeptQueue DEF IInv
<1>16. Steady
  <2>1. HandlesGrow
    BY DEF HandlesGrow
  <2>2. \A w \in DOMAIN waits' : /\ MayBecome(waits[w], waits'[w])
                                 /\ waits'[w].result = Pending => waits[w].result = Pending
    BY <1>4, Unmoved
  <2> QED  BY <1>4, <2>1, <2>2, WaitsAlone
<1> QED  BY <1>2, <1>14, <1>15, <1>16 DEF IInv

(* Steps that move calls between a thread and its callbacks.               *)
LEMMA MovedCalls ==
    ASSUME WaitInv, waits' \in [DOMAIN waits -> WaitRecord], Kept(waits, waits', DOMAIN waits),
           UNCHANGED <<nextWait, now, live>>, apcs' \subseteq apcs, FramesTyped',
           \A u \in Threads :
               /\ ThreadHolds(u, reply'[u], active'[u], waits)
               /\ \A w \in DOMAIN waits : Takes(reply[u], active[u], w) => Takes(reply'[u], active'[u], w)
    PROVE  WaitInv'
<1>1. DOMAIN waits' = DOMAIN waits
  OBVIOUS
<1>2. WaitsTyped'
  BY <1>1 DEF WaitInv, WaitsTyped
<1>3. WaitsFit(waits, DOMAIN waits, live)'
  BY <1>1 DEF WaitInv, WaitsFit, Kept, SameWait, Fits
<1>4. ASSUME NEW u \in Threads PROVE ThreadHolds(u, reply'[u], active'[u], waits')
  <2>1. ThreadHolds(u, reply'[u], active'[u], waits)
    OBVIOUS
  <2>2. ASSUME NEW f, FrameHolds(f, u, waits) PROVE FrameHolds(f, u, waits')
    BY <1>1, <2>2 DEF FrameHolds, Kept, SameWait
  <2>3. ASSUME NEW k \in DOMAIN waits, waits[k].result # Pending
        PROVE  waits'[k].result # Pending
    BY <2>3 DEF Kept
  <2> QED  BY <2>1, <2>2, <2>3 DEF ThreadHolds, FrameHolds
<1>5. FramesHold'
  BY <1>4 DEF FramesHold
<1>6. WaitsTaken'
  <2>1. ASSUME NEW w \in DOMAIN waits
        PROVE  Takes(reply'[waits'[w].thread], active'[waits'[w].thread], w)
    <3>1. PICK t \in Threads : t = waits[w].thread /\ waits'[w].thread = t
      BY WaitParts DEF WaitInv, WaitsTyped, Kept, SameWait
    <3>2. Takes(reply[t], active[t], w)
      BY <3>1 DEF WaitInv, WaitsTaken
    <3> QED  BY <3>1, <3>2
  <2> QED  BY <1>1, <2>1 DEF WaitsTaken
<1>7. Unalerted'
  BY <1>1 DEF Unalerted, WaitInv, Undecided, Kept, SameWait
<1> QED  BY <1>2, <1>3, <1>5, <1>6, <1>7 DEF WaitInv

(* finish_thread_invocation: the interrupted call is the current one       *)
(* again.                                                                  *)
LEMMA ReturnApcKeeps ==
    ASSUME IInv, NEW t \in Threads, ReturnApc(t)
    PROVE  IInv' /\ Steady
<1>1. /\ reply[t] = NoReply /\ active[t] # <<>>
      /\ reply' = [reply EXCEPT ![t] = active[t][Len(active[t])]]
      /\ active' = [active EXCEPT ![t] = SubSeq(@, 1, Len(@) - 1)]
      /\ UNCHANGED <<objects, signaled, refs, handles, nextHandle, waits, nextWait,
                     apcs, now, invocations, nextInvocation, live>>
  BY DEF ReturnApc, Running, context
<1>2. ObjectInv'
  BY <1>1 DEF IInv, ObjectInv, ObjectsTyped, HandlesTyped, HandlesCounted, Names, SlotsUsed,
         ObjectsSound, TimersDiffer, Plan
<1>3. reply \in [Threads -> Reply] /\ active \in [Threads -> Seq(Reply)] /\ NoReply.wait = 0
  BY DEF IInv, WaitInv, FramesTyped, NoReply
<1>4. PICK stack \in Seq(Reply) : stack = active[t] /\ stack # <<>>
  BY <1>1, <1>3
<1>5. PICK n \in Nat : n = Len(stack) /\ n >= 1 /\ DOMAIN stack = 1 .. n /\ n \in DOMAIN stack
                       /\ n - 1 \in Nat
  BY <1>4
<1>6. PICK rest \in Seq(Reply) :
         /\ rest = SubSeq(stack, 1, n - 1) /\ DOMAIN rest = 1 .. (n - 1)
         /\ \A i \in 1 .. (n - 1) : rest[i] = stack[i] /\ i \in DOMAIN stack /\ i # n
  <2>1. SubSeq(stack, 1, n - 1) \in Seq(Reply)
    BY <1>4, <1>5
  <2>2. Len(SubSeq(stack, 1, n - 1)) = n - 1
    BY <1>4, <1>5
  <2>3. \A i \in 1 .. (n - 1) : SubSeq(stack, 1, n - 1)[i] = stack[i]
    BY <1>4, <1>5
  <2>4. DOMAIN SubSeq(stack, 1, n - 1) = 1 .. (n - 1)
    BY <2>1, <2>2
  <2>5. \A i \in 1 .. (n - 1) : i \in DOMAIN stack /\ i # n
    BY <1>5
  <2>6. PICK rest : rest = SubSeq(stack, 1, n - 1)
    OBVIOUS
  <2> QED  BY <2>1, <2>3, <2>4, <2>5, <2>6
<1>7. PICK f \in Reply : f = stack[n]
  BY <1>4, <1>5
<1>8. /\ \A u \in Threads : reply'[u] = IF u = t THEN f ELSE reply[u]
      /\ \A u \in Threads : active'[u] = IF u = t THEN rest ELSE active[u]
      /\ reply' \in [Threads -> Reply] /\ active' \in [Threads -> Seq(Reply)]
  BY <1>1, <1>3, <1>4, <1>5, <1>6, <1>7
<1>9. ASSUME NEW u \in Threads
      PROVE  /\ ThreadHolds(u, reply'[u], active'[u], waits)
             /\ \A w \in DOMAIN waits : Takes(reply[u], active[u], w) => Takes(reply'[u], active'[u], w)
  <2>1. ThreadHolds(u, reply[u], active[u], waits)
    BY DEF IInv, WaitInv, FramesHold
  <2>2. CASE u # t
    BY <1>8, <2>1, <2>2
  <2>3. CASE u = t
    <3>1. ThreadHolds(t, NoReply, stack, waits)
      BY <1>1, <1>4, <2>1, <2>3
    <3>2. ThreadHolds(t, f, rest, waits)
      <4>1. FrameHolds(f, t, waits)
        BY <1>5, <1>7, <3>1 DEF ThreadHolds
      <4>2. ASSUME NEW i \in DOMAIN rest
            PROVE  /\ FrameHolds(rest[i], t, waits)
                   /\ rest[i].wait # 0 =>
                         /\ waits[rest[i].wait].result # Pending
                         /\ rest[i].wait # f.wait
                         /\ \A j \in DOMAIN rest : j # i => rest[j].wait # rest[i].wait
        <5>1. i \in DOMAIN stack /\ rest[i] = stack[i] /\ i # n
          BY <1>6
        <5>2. \A j \in DOMAIN rest : j \in DOMAIN stack /\ rest[j] = stack[j]
          BY <1>6
        <5>3. /\ FrameHolds(stack[i], t, waits)
              /\ stack[i].wait # 0 =>
                    /\ waits[stack[i].wait].result # Pending
                    /\ \A j \in DOMAIN stack : j # i => stack[j].wait # stack[i].wait
          BY <3>1, <5>1 DEF ThreadHolds
        <5> QED  BY <1>5, <1>7, <5>1, <5>2, <5>3
      <4> QED  BY <4>1, <4>2 DEF ThreadHolds
    <3>3. ASSUME NEW w \in DOMAIN waits, Takes(NoReply, stack, w) PROVE Takes(f, rest, w)
      <4>1. w # 0
        BY DEF IInv, WaitInv, WaitsTyped
      <4>2. PICK i \in DOMAIN stack : stack[i].wait = w
        BY <1>3, <3>3, <4>1 DEF Takes
      <4>3. CASE i = n
        BY <1>7, <4>2, <4>3 DEF Takes
      <4>4. CASE i # n
        <5>1. i \in 1 .. (n - 1)
          BY <1>5, <4>4
        <5> QED  BY <1>6, <4>2, <5>1 DEF Takes
      <4> QED  BY <4>3, <4>4
    <3> QED  BY <1>1, <1>4, <1>8, <2>3, <3>2, <3>3
  <2> QED  BY <2>2, <2>3
<1>10. WaitInv'
  <2>1. FramesTyped'
    BY <1>8 DEF FramesTyped
  <2>2. waits' \in [DOMAIN waits -> WaitRecord] /\ Kept(waits, waits', DOMAIN waits)
    BY <1>1, WaitsUnchanged DEF IInv
  <2> QED  BY <1>1, <1>9, <2>1, <2>2, MovedCalls DEF IInv
<1>11. QueueInv'
  BY <1>1, NowNat, KeptQueue DEF IInv
<1>12. Steady
  <2>1. HandlesGrow
    BY <1>1 DEF HandlesGrow
  <2>2. waits \in [DOMAIN waits -> WaitRecord]
    BY DEF IInv, WaitInv, WaitsTyped
  <2>3. \A w \in DOMAIN waits' : /\ MayBecome(waits[w], waits'[w])
                                 /\ waits'[w].result = Pending => waits[w].result = Pending
    BY <1>1, Unmoved
  <2> QED  BY <1>1, <2>1, <2>2, <2>3, WaitsAlone
<1> QED  BY <1>2, <1>10, <1>11, <1>12 DEF IInv

(* The id of a timer, and what holds of its callback.                      *)
LEMMA TimerFacts ==
    ASSUME IInv, NEW s \in Slots, objects[s].type = "timer"
    PROVE  /\ objects[s] \in TimerKind /\ objects[s].id \in 1 .. nextHandle /\ objects[s].id # 0
           /\ CallbackSound(objects[s], invocations)
           /\ objects[s].queued => objects[s].callback
           /\ objects[s].callback => objects[s].thread # NoThread
           /\ (objects[s].callback /\ objects[s].thread \notin live) => objects[s].due = Never
<1>1. objects[s] \in TimerKind
  BY PlanFacts, Kinds
<1>2. CallbackSound(objects[s], invocations)
  BY DEF IInv, QueueInv, CallbacksSound
<1>3. ObjectSound(objects[s], s \in signaled, live, nextHandle)
  BY DEF IInv, ObjectInv, ObjectsSound, Plan
<1>4. objects[s].id \in 1 .. nextHandle => objects[s].id # 0
  BY NowNat
<1> QED  BY <1>1, <1>2, <1>3, <1>4 DEF ObjectSound

(* QueueUserAPC                                                            *)
LEMMA QueueUserAPCKeeps ==
    ASSUME IInv, NEW t \in Threads, NEW target \in Threads, QueueUserAPC(t, target)
    PROVE  IInv' /\ Steady
<1>1. PICK n : n = nextInvocation + 1
  OBVIOUS
<1>2. PICK e : e = [target |-> target, timer |-> 0, generation |-> 0]
  OBVIOUS
<1>3. /\ target \in live /\ nextInvocation' = n
      /\ invocations' = [i \in DOMAIN invocations \cup {n} |-> IF i = n THEN e ELSE invocations[i]]
      /\ apcs' = apcs \cup {target}
      /\ waits' = AlertThreads(Plan, {target}).waits
      /\ UNCHANGED <<objects, signaled, refs, handles, nextHandle, nextWait, now, active, reply, live>>
  BY <1>1, <1>2 DEF QueueUserAPC
<1>4. /\ nextInvocation \in Nat /\ DOMAIN invocations \subseteq 1 .. nextInvocation
      /\ invocations \in [DOMAIN invocations -> Invocation]
      /\ \A i \in DOMAIN invocations : invocations[i].target \in live /\ invocations[i].timer <= nextHandle
  BY DEF IInv, QueueInv, QueueTyped
<1>5. n \notin DOMAIN invocations
  BY <1>1, <1>4
<1>6. e \in Invocation /\ e.target = target /\ e.timer = 0
  BY <1>2 DEF Invocation
<1>7. /\ DOMAIN invocations' = DOMAIN invocations \cup {n} /\ invocations'[n] = e
      /\ \A i \in DOMAIN invocations : invocations'[i] = invocations[i]
  BY <1>3, <1>5
<1>8. ObjectInv'
  BY <1>3 DEF IInv, ObjectInv, ObjectsTyped, HandlesTyped, HandlesCounted, Names, SlotsUsed,
         ObjectsSound, TimersDiffer, Plan
<1>9. PICK q : q = AlertThreads(Plan, {target})
  OBVIOUS
<1>10. /\ SoundPlan(q, DOMAIN waits, live) /\ Kept(waits, q.waits, DOMAIN waits)
       /\ \A k \in DOMAIN waits : waits[k].thread \in {target} /\ waits[k].alertable
              => q.waits[k].result # Pending
       /\ \A k \in DOMAIN waits : waits[k].thread # target \/ waits[k].result # Pending
              => q.waits[k] = waits[k]
  BY <1>9, PlanFacts, SoundAlert
<1>11. waits' = q.waits /\ waits' \in [DOMAIN waits -> WaitRecord] /\ DOMAIN waits' = DOMAIN waits
  BY <1>3, <1>9, <1>10, PlanParts DEF SoundPlan
<1>12. Unalerted'
  <2>1. ASSUME NEW k \in DOMAIN waits, waits'[k].result = Pending, waits'[k].alertable
        PROVE  waits'[k].thread \notin apcs \cup {target}
    <3>1. SameWait(waits[k], waits'[k]) /\ waits[k].result = Pending
      BY <1>10, <1>11, <2>1 DEF Kept
    <3>2. waits[k].thread \notin apcs
      BY <2>1, <3>1 DEF IInv, WaitInv, Unalerted, Undecided, SameWait
    <3>3. waits[k].thread # target
      BY <1>10, <1>11, <2>1, <3>1 DEF SameWait
    <3> QED  BY <3>1, <3>2, <3>3 DEF SameWait
  <2> QED  BY <1>3, <1>11, <2>1 DEF Unalerted, Undecided
<1>13. WaitInv'
  <2>1. RepliesKept
    BY <1>3 DEF RepliesKept, IInv, WaitInv, FramesTyped
  <2>2. /\ \A w \in DOMAIN waits : SameWait(waits[w], waits'[w])
        /\ \A w \in DOMAIN waits : waits[w].result # Pending => waits'[w].result # Pending
    BY <1>10, <1>11 DEF Kept
  <2>3. now' \in Nat
    BY <1>3, NowNat
  <2> QED  BY <1>3, <1>11, <1>12, <2>1, <2>2, <2>3, KeptWaits DEF IInv
<1>14. QueueTyped'
  <2>1. nextInvocation' \in Nat /\ DOMAIN invocations' \subseteq 1 .. nextInvocation'
    BY <1>1, <1>3, <1>4, <1>7
  <2>2. \A i \in DOMAIN invocations' : invocations'[i] \in Invocation
    BY <1>4, <1>6, <1>7
  <2>3. invocations' \in [DOMAIN invocations' -> Invocation]
    BY <1>3, <2>2
  <2>4. nextHandle \in Nat /\ 0 <= nextHandle
    BY NowNat
  <2> QED  BY <1>3, <1>4, <1>6, <1>7, <2>1, <2>3, <2>4 DEF QueueTyped
<1>15. ApcListExact'
  <2>1. \A u \in Threads : Queued(u)' = IF u = target THEN Queued(u) \cup {n} ELSE Queued(u)
    BY <1>5, <1>6, <1>7 DEF Queued
  <2>2. apcs = {u \in Threads : Queued(u) # {}}
    BY DEF IInv, QueueInv, ApcListExact
  <2>3. apcs' = {u \in Threads : Queued(u)' # {}}
    BY <1>3, <2>1, <2>2
  <2> QED  BY <2>3 DEF ApcListExact
<1>16. ASSUME NEW s \in Slots PROVE CallbackSound(objects'[s], invocations')
  <2>1. CASE objects[s].type # "timer"
    BY <1>3, <2>1 DEF CallbackSound
  <2>2. CASE objects[s].type = "timer"
    <3>1. objects[s].id # 0 /\ CallbackSound(objects[s], invocations)
      BY <2>2, TimerFacts
    <3>2. Callbacks(objects[s].id, invocations') = Callbacks(objects[s].id, invocations)
      BY <1>6, <1>7, <3>1 DEF Callbacks
    <3>3. \A i \in Callbacks(objects[s].id, invocations) : invocations'[i] = invocations[i]
      BY <1>7 DEF Callbacks
    <3> QED  BY <1>3, <1>7, <3>1, <3>2, <3>3 DEF CallbackSound
  <2> QED  BY <2>1, <2>2
<1>17. QueueInv'
  BY <1>14, <1>15, <1>16 DEF QueueInv, CallbacksSound
<1>18. Steady
  <2>1. HandlesGrow
    BY <1>3 DEF HandlesGrow
  <2>2. \A w \in DOMAIN waits' : /\ MayBecome(waits[w], waits'[w])
                                 /\ waits'[w].result = Pending => waits[w].result = Pending
    BY <1>3, <1>10, <1>11, Unmoved DEF Kept
  <2> QED  BY <1>3, <1>11, <2>1, <2>2, WaitsAlone
<1> QED  BY <1>8, <1>13, <1>17, <1>18 DEF IInv

-----------------------------------------------------------------------------
(* The callback of a timer that is delivered.                              *)

Matches(o, apc) == o.type = "timer" /\ o.id = apc.timer /\ o.generation = apc.generation

(* prepare_timer_apc_delivery keeps a plan sound.                          *)
LEMMA SoundDequeued ==
    ASSUME NEW D, NEW L, NEW p, SoundPlan(p, D, L), NEW apc
    PROVE  /\ SoundPlan(Dequeued(p, apc), D, L)
           /\ Dequeued(p, apc).waits = p.waits /\ Dequeued(p, apc).signaled = p.signaled
           /\ \A s \in Slots :
                 /\ ~Matches(p.objects[s], apc) => Dequeued(p, apc).objects[s] = p.objects[s]
                 /\ Matches(p.objects[s], apc) =>
                       /\ Dequeued(p, apc).objects[s] = [p.objects[s] EXCEPT !.queued = FALSE]
                       /\ Dequeued(p, apc).objects[s] \in TimerKind
                       /\ p.objects[s] \in TimerKind
<1> DEFINE O == [s \in Slots |-> IF Matches(p.objects[s], apc)
                                 THEN [p.objects[s] EXCEPT !.queued = FALSE] ELSE p.objects[s]]
<1>1. p \in Plans(D)
  BY DEF SoundPlan
<1>2. PICK q : q = Dequeued(p, apc)
  OBVIOUS
<1>3. q = [objects |-> O, signaled |-> p.signaled, waits |-> p.waits]
  <2>1. q = [p EXCEPT !.objects = O]
    BY <1>2 DEF Dequeued, Matches
  <2> HIDE DEF O
  <2> QED  BY <1>1, <2>1 DEF Plans
<1>4. ASSUME NEW s \in Slots
      PROVE  /\ O[s] \in ObjectKind /\ O[s].type = p.objects[s].type
             /\ ObjectSound(O[s], s \in p.signaled, L, nextHandle)
             /\ O[s].type = "timer" => O[s].id = p.objects[s].id
             /\ Matches(p.objects[s], apc) => O[s] \in TimerKind /\ p.objects[s] \in TimerKind
  <2>1. PICK o \in ObjectKind : o = p.objects[s]
    BY <1>1, PlanParts
  <2>2. ObjectSound(o, s \in p.signaled, L, nextHandle)
    BY <2>1 DEF SoundPlan, ObjectsSound
  <2>3. CASE ~Matches(o, apc)
    BY <2>1, <2>2, <2>3
  <2>4. CASE Matches(o, apc)
    <3>1. o \in TimerKind /\ o.type = "timer"
      BY <2>4, Kinds DEF Matches
    <3>2. PICK r : r = [o EXCEPT !.queued = FALSE]
      OBVIOUS
    <3>3. r = [type |-> "timer", manual |-> o.manual, id |-> o.id, due |-> o.due,
               period |-> o.period, thread |-> o.thread, callback |-> o.callback,
               generation |-> o.generation, queued |-> FALSE]
      BY <3>1, <3>2 DEF TimerKind
    <3>4. r \in TimerKind
      BY <3>1, <3>3 DEF TimerKind
    <3>5. r \in ObjectKind
      BY <3>4 DEF ObjectKind
    <3>6. /\ r.type = "timer" /\ r.id = o.id /\ r.callback = o.callback /\ r.thread = o.thread
          /\ r.due = o.due /\ ~r.queued
      BY <3>3
    <3>7. ObjectSound(r, s \in p.signaled, L, nextHandle)
      BY <2>2, <3>1, <3>6 DEF ObjectSound
    <3>8. O[s] = r
      BY <2>1, <2>4, <3>2
    <3> HIDE DEF O
    <3> QED  BY <2>1, <3>1, <3>4, <3>5, <3>6, <3>7, <3>8
  <2> QED  BY <2>1, <2>3, <2>4
<1>5. O \in [Slots -> ObjectKind]
  BY <1>4
<1>6. \A s \in Slots :
         /\ ~Matches(p.objects[s], apc) => O[s] = p.objects[s]
         /\ Matches(p.objects[s], apc) => O[s] = [p.objects[s] EXCEPT !.queued = FALSE]
  OBVIOUS
<1> HIDE DEF O
<1>7. q.objects = O /\ q.signaled = p.signaled /\ q.waits = p.waits /\ q \in Plans(D)
  BY <1>1, <1>3, <1>5, PlanParts DEF Plans
<1>8. SoundPlan(q, D, L)
  <2>1. TimersDiffer(p)
    BY DEF SoundPlan
  <2>2. TimersDiffer(q)
    BY <1>4, <1>7, <2>1 DEF TimersDiffer
  <2>3. ObjectsSound(q, L, nextHandle)
    BY <1>4, <1>7 DEF ObjectsSound
  <2>4. \A s \in Slots : q.objects[s].type = objects[s].type
    BY <1>4, <1>7 DEF SoundPlan
  <2>5. WaitsFit(q.waits, D, L)
    BY <1>7 DEF SoundPlan
  <2> QED  BY <1>7, <2>2, <2>3, <2>4, <2>5 DEF SoundPlan
<1> QED  BY <1>2, <1>4, <1>6, <1>7, <1>8

(* The call a callback interrupts.                                         *)
LEMMA InterruptKeeps ==
    ASSUME IInv, NEW t \in Threads, t \in apcs, reply[t].alertable,
           waits' \in [DOMAIN waits -> WaitRecord], Kept(waits, waits', DOMAIN waits),
           UNCHANGED <<nextWait, now, live>>, apcs' \subseteq apcs,
           active' = [active EXCEPT ![t] = Append(@, [reply[t] EXCEPT !.delivered = TRUE])],
           reply' = [reply EXCEPT ![t] = NoReply]
    PROVE  WaitInv'
<1>1. reply \in [Threads -> Reply] /\ active \in [Threads -> Seq(Reply)]
  BY DEF IInv, WaitInv, FramesTyped
<1>2. PICK f : f = [reply[t] EXCEPT !.delivered = TRUE]
  OBVIOUS
<1>3. f \in Reply /\ f.wait = reply[t].wait /\ f.alertable = reply[t].alertable
  BY <1>1, <1>2 DEF Reply
<1>4. PICK stack \in Seq(Reply) : stack = active[t]
  BY <1>1
<1>5. PICK n \in Nat : n = Len(stack) + 1 /\ DOMAIN stack = 1 .. (n - 1) /\ n \notin DOMAIN stack
  <2>1. Len(stack) \in Nat /\ DOMAIN stack = 1 .. Len(stack)
    BY <1>4
  <2> QED  BY <2>1
<1>6. PICK more : more = Append(stack, f)
  OBVIOUS
<1>7. /\ more \in Seq(Reply) /\ DOMAIN more = DOMAIN stack \cup {n} /\ more[n] = f
      /\ \A i \in DOMAIN stack : more[i] = stack[i]
  <2>1. more \in Seq(Reply) /\ Len(more) = n /\ more[n] = f
    BY <1>3, <1>4, <1>5, <1>6
  <2>2. \A i \in 1 .. Len(stack) : more[i] = stack[i]
    BY <1>3, <1>4, <1>6
  <2>3. DOMAIN more = 1 .. n /\ DOMAIN stack = 1 .. Len(stack)
    BY <1>4, <2>1
  <2> QED  BY <1>5, <2>1, <2>2, <2>3
<1>8. /\ \A u \in Threads : reply'[u] = IF u = t THEN NoReply ELSE reply[u]
      /\ \A u \in Threads : active'[u] = IF u = t THEN more ELSE active[u]
      /\ active' \in [Threads -> Seq(Reply)]
  BY <1>1, <1>2, <1>4, <1>6, <1>7
<1>9. NoReply \in Reply /\ NoReply.wait = 0
  BY DEF NoReply, Reply, Results
<1>10. FramesTyped'
  BY <1>1, <1>8, <1>9 DEF FramesTyped
<1>11. ThreadHolds(t, reply[t], stack, waits)
  BY <1>4 DEF IInv, WaitInv, FramesHold
<1>12. f.wait # 0 => waits[f.wait].result # Pending
  <2>1. SUFFICES ASSUME f.wait # 0, waits[f.wait].result = Pending PROVE FALSE
    OBVIOUS
  <2>2. /\ f.wait \in DOMAIN waits /\ waits[f.wait].thread = t
        /\ waits[f.wait].alertable = reply[t].alertable
    BY <1>3, <1>11, <2>1 DEF ThreadHolds, FrameHolds
  <2> QED  BY <2>1, <2>2 DEF IInv, WaitInv, Unalerted, Undecided
<1>13. ThreadHolds(t, NoReply, more, waits)
  <2>1. FrameHolds(f, t, waits)
    BY <1>3, <1>11 DEF ThreadHolds, FrameHolds
  <2>2. ASSUME NEW i \in DOMAIN stack
        PROVE  /\ FrameHolds(stack[i], t, waits)
               /\ stack[i].wait # 0 =>
                     /\ waits[stack[i].wait].result # Pending
                     /\ stack[i].wait # f.wait
                     /\ \A j \in DOMAIN stack : j # i => stack[j].wait # stack[i].wait
    BY <1>3, <1>11 DEF ThreadHolds
  <2>3. FrameHolds(NoReply, t, waits)
    BY <1>9 DEF FrameHolds
  <2>4. ASSUME NEW i \in DOMAIN more
        PROVE  /\ FrameHolds(more[i], t, waits)
               /\ more[i].wait # 0 =>
                     /\ waits[more[i].wait].result # Pending
                     /\ more[i].wait # NoReply.wait
                     /\ \A j \in DOMAIN more : j # i => more[j].wait # more[i].wait
    <3>1. CASE i = n
      BY <1>5, <1>7, <1>9, <1>12, <2>1, <2>2, <3>1
    <3>2. CASE i \in DOMAIN stack
      BY <1>5, <1>7, <1>9, <2>2, <3>2
    <3> QED  BY <1>7, <3>1, <3>2
  <2> QED  BY <2>3, <2>4 DEF ThreadHolds
<1>14. ASSUME NEW u \in Threads
       PROVE  /\ ThreadHolds(u, reply'[u], active'[u], waits)
              /\ \A w \in DOMAIN waits : Takes(reply[u], active[u], w) => Takes(reply'[u], active'[u], w)
  <2>1. CASE u # t
    BY <1>8, <2>1 DEF IInv, WaitInv, FramesHold
  <2>2. CASE u = t
    <3>1. ASSUME NEW w, Takes(reply[t], stack, w) PROVE Takes(NoReply, more, w)
      BY <1>3, <1>7, <3>1 DEF Takes
    <3> QED  BY <1>4, <1>8, <1>13, <2>2, <3>1
  <2> QED  BY <2>1, <2>2
<1> QED  BY <1>10, <1>14, MovedCalls DEF IInv

(* The queue without an entry that is delivered.                           *)
LEMMA DeliverApcKeeps ==
    ASSUME IInv, NEW t \in Threads, DeliverApc(t)
    PROVE  IInv' /\ Steady
<1>1. PICK i \in Queued(t) :
        /\ t \in live /\ reply[t].alertable
        /\ LET remaining == Queued(t) # {i}
               p == IF invocations[i].timer # 0 THEN Dequeued(Plan, invocations[i]) ELSE Plan
           IN  /\ Commit(IF remaining THEN AlertThreads(p, {t}) ELSE p)
               /\ MarkApcs(t, remaining)
        /\ invocations' = [j \in DOMAIN invocations \ {i} |-> invocations[j]]
        /\ active' = [active EXCEPT ![t] = Append(@, [reply[t] EXCEPT !.delivered = TRUE])]
        /\ reply' = [reply EXCEPT ![t] = NoReply]
        /\ UNCHANGED <<refs, handles, nextHandle, nextWait, now, nextInvocation, live>>
  BY DEF DeliverApc
<1>2. PICK p : p = IF invocations[i].timer # 0 THEN Dequeued(Plan, invocations[i]) ELSE Plan
  OBVIOUS
<1>3. PICK q : q = IF Queued(t) # {i} THEN AlertThreads(p, {t}) ELSE p
  OBVIOUS
<1>4. Commit(q) /\ apcs' = IF Queued(t) # {i} THEN apcs \cup {t} ELSE apcs \ {t}
  BY <1>1, <1>2, <1>3 DEF MarkApcs
<1>5. i \in DOMAIN invocations /\ invocations[i].target = t
  BY DEF Queued
<1>6. t \in apcs /\ apcs' \subseteq apcs
  <2>1. t \in apcs
    BY DEF IInv, QueueInv, ApcListExact
  <2> QED  BY <1>4, <2>1
<1>7. /\ SoundPlan(p, DOMAIN waits, live) /\ p.waits = waits /\ p.signaled = signaled
      /\ \A s \in Slots :
            \/ p.objects[s] = objects[s] /\ (objects[s].type = "timer" /\ invocations[i].timer # 0
                                               => ~Matches(objects[s], invocations[i]))
            \/ /\ p.objects[s] = [objects[s] EXCEPT !.queued = FALSE] /\ objects[s] \in TimerKind
               /\ Matches(objects[s], invocations[i])
  <2>1. CASE invocations[i].timer = 0
    BY <1>2, <2>1, PlanFacts
  <2>2. CASE invocations[i].timer # 0
    <3>1. p = Dequeued(Plan, invocations[i])
      BY <1>2, <2>2
    <3> QED  BY <3>1, PlanFacts, SoundDequeued
  <2> QED  BY <2>1, <2>2
<1>8. /\ SoundPlan(q, DOMAIN waits, live) /\ Kept(waits, q.waits, DOMAIN waits)
      /\ q.objects = p.objects /\ q.signaled = signaled
      /\ \A k \in DOMAIN waits : \/ q.waits[k] = waits[k]
                                 \/ waits[k].result = Pending /\ waits[k].thread \in apcs'
  <2>1. CASE q = p
    BY <1>7, <2>1 DEF Kept, SameWait
  <2>2. CASE q = AlertThreads(p, {t}) /\ Queued(t) # {i}
    BY <1>4, <1>7, <2>2, SoundAlert
  <2> QED  BY <1>3, <2>1, <2>2
<1>9. ObjectInv'
  BY <1>1, <1>4, <1>8, CommitKeepsObjects DEF IInv
<1>10. waits' = q.waits /\ waits' \in [DOMAIN waits -> WaitRecord]
  BY <1>4, <1>8, PlanParts DEF Commit, SoundPlan
<1>11. WaitInv'
  BY <1>1, <1>6, <1>8, <1>10, InterruptKeeps
<1>12. /\ DOMAIN invocations' = DOMAIN invocations \ {i}
       /\ \A j \in DOMAIN invocations \ {i} : invocations'[j] = invocations[j]
  BY <1>1
<1>13. QueueTyped'
  <2>1. \A j \in DOMAIN invocations' : invocations'[j] \in Invocation
    BY <1>12 DEF IInv, QueueInv, QueueTyped
  <2>2. invocations' \in [DOMAIN invocations' -> Invocation]
    BY <1>1, <2>1
  <2> QED  BY <1>1, <1>12, <2>2 DEF IInv, QueueInv, QueueTyped
<1>14. ApcListExact'
  <2>1. \A u \in Threads : Queued(u)' = IF u = t THEN Queued(u) \ {i} ELSE Queued(u)
    BY <1>5, <1>12 DEF Queued
  <2>2. apcs = {u \in Threads : Queued(u) # {}}
    BY DEF IInv, QueueInv, ApcListExact
  <2>3. Queued(t) # {i} <=> Queued(t) \ {i} # {}
    OBVIOUS
  <2>4. apcs' = {u \in Threads : Queued(u)' # {}}
    BY <1>4, <2>1, <2>2, <2>3
  <2> QED  BY <2>4 DEF ApcListExact
<1>15. ASSUME NEW s \in Slots PROVE CallbackSound(objects'[s], invocations')
  <2>1. objects'[s].type # "free" => objects'[s] = p.objects[s]
    BY <1>4, <1>8, PlanParts, CommitTimers DEF SoundPlan
  <2>2. CASE objects'[s].type # "timer"
    BY <2>2 DEF CallbackSound
  <2>3. CASE objects'[s].type = "timer"
    <3>1. objects[s].type = "timer" /\ objects'[s] = p.objects[s]
      BY <1>7, <2>1, <2>3 DEF SoundPlan
    <3>2. objects[s].id # 0 /\ CallbackSound(objects[s], invocations)
      BY <3>1, TimerFacts
    <3>3. \A k : Callbacks(k, invocations') = Callbacks(k, invocations) \ {i}
      BY <1>12 DEF Callbacks
    <3>4. \A j \in Callbacks(objects[s].id, invocations) \ {i} : invocations'[j] = invocations[j]
      BY <1>12 DEF Callbacks
    <3>5. CASE Matches(objects[s], invocations[i]) /\ invocations[i].timer # 0
      <4>1. objects'[s] = [objects[s] EXCEPT !.queued = FALSE] /\ objects[s] \in TimerKind
        BY <1>7, <3>1, <3>5
      <4>2. objects'[s].id = objects[s].id /\ ~objects'[s].queued
        BY <4>1 DEF TimerKind
      <4>3. i \in Callbacks(objects[s].id, invocations)
        BY <1>5, <3>5 DEF Callbacks, Matches
      <4>4. Callbacks(objects[s].id, invocations) = {i}
        BY <3>1, <3>2, <4>1, <4>3 DEF CallbackSound, TimerKind
      <4> QED  BY <3>3, <4>2, <4>4 DEF CallbackSound
    <3>6. CASE ~(Matches(objects[s], invocations[i]) /\ invocations[i].timer # 0)
      <4>1. objects'[s] = objects[s]
        BY <1>2, <1>7, <3>1, <3>2, <3>6 DEF Matches
      <4>2. i \notin Callbacks(objects[s].id, invocations)
        BY <3>1, <3>2, <3>6 DEF Callbacks, CallbackSound, Matches
      <4>3. Callbacks(objects[s].id, invocations') = Callbacks(objects[s].id, invocations)
        BY <3>3, <4>2
      <4>4. \A j \in DOMAIN invocations :
               Callbacks(objects[s].id, invocations) = {j} => j \in DOMAIN invocations'
        BY <1>12, <4>2
      <4> QED  BY <3>2, <3>4, <4>1, <4>2, <4>3, <4>4 DEF CallbackSound
    <3> QED  BY <3>5, <3>6
  <2> QED  BY <2>2, <2>3
<1>16. QueueInv'
  BY <1>13, <1>14, <1>15 DEF QueueInv, CallbacksSound
<1>17. Steady
  <2>1. q \in Plans(DOMAIN waits)
    BY <1>8 DEF SoundPlan
  <2>2. \A w \in DOMAIN waits : /\ MayBecome(waits[w], q.waits[w])
                                /\ q.waits[w].result = Pending => waits[w].result = Pending
    BY <1>8, Unmoved DEF Kept
  <2>3. \A s \in Slots : \/ q.objects[s] = objects[s]
                         \/ q.objects[s].type = "timer" /\ objects[s].type = "timer"
    BY <1>7, <1>8 DEF SoundPlan, Matches
  <2>4. \A w \in DOMAIN waits : NotReadierFor(Plan, q, q.waits[w])
    BY <1>8, <2>1, <2>3, PlanParts, KeptObjectsNotReadier
  <2> QED  BY <1>1, <1>4, <2>1, <2>2, <2>4, QuietCommit
<1> QED  BY <1>9, <1>11, <1>16, <1>17 DEF IInv

(* The plan q that is committed once p holds a timer's new setting: what    *)
(* becomes of the objects and of the waits.                                *)
Retimed(p, q) ==
    /\ Commit(q) /\ SoundPlan(q, DOMAIN waits, live)
    /\ \A r \in Slots : objects[r].type = "timer" => q.objects[r] = p.objects[r]
    /\ \A w \in DOMAIN waits :
          /\ SameWait(waits[w], q.waits[w])
          /\ active[waits[w].thread] # <<>> /\ waits[w].result # Pending
               => q.waits[w].result # Pending
          /\ q.waits[w].result = Pending /\ waits[w].alertable
               => waits[w].thread \notin apcs'
    /\ \A w \in DOMAIN waits : MayBecome(waits[w], q.waits[w])
    /\ NInv => SettledPlan(q, DOMAIN waits, now)

(* Only the timer in slot s has changed, and has not become signaled.      *)
TimerWritten(p, s) ==
    /\ SoundPlan(p, DOMAIN waits, live) /\ p.waits = waits /\ p.signaled \subseteq signaled
    /\ objects[s].type = "timer" /\ \A r \in Slots \ {s} : p.objects[r] = objects[r]

(* Writing the timer, and alerting threads, satisfies no wait.             *)
LEMMA WrittenSettles ==
    ASSUME IInv, NInv, NEW s \in Slots, NEW p, TimerWritten(p, s),
           NEW q, SoundPlan(q, DOMAIN waits, live), q.objects = p.objects,
           q.signaled = p.signaled, Kept(waits, q.waits, DOMAIN waits)
    PROVE  SettledPlan(q, DOMAIN waits, now)
<1>1. q \in Plans(DOMAIN waits) /\ q.waits \in [DOMAIN waits -> WaitRecord]
  BY PlanParts DEF SoundPlan
<1>2. p.objects[s].type = "timer"
  BY DEF TimerWritten, SoundPlan
<1>3. q.signaled \subseteq signaled
  BY DEF TimerWritten
<1>4. \A r \in Slots : \/ q.objects[r] = objects[r]
                       \/ q.objects[r].type = "timer" /\ objects[r].type = "timer"
  BY <1>2 DEF TimerWritten
<1>5. \A k \in DOMAIN waits : NotReadierFor(Plan, q, q.waits[k])
  BY <1>1, <1>3, <1>4, KeptObjectsNotReadier
<1>6. \A k \in DOMAIN waits : /\ SameWait(waits[k], q.waits[k])
                              /\ q.waits[k].result = Pending => waits[k].result = Pending
  BY DEF Kept
<1> QED  BY <1>1, <1>5, <1>6, NoReadierSettles

(* The waits of a thread that runs no callback: the one it is blocked in.  *)
LEMMA RearmedAlone ==
    ASSUME WaitInv, NEW u \in Threads, active[u] = <<>>, NEW W,
           \A k \in DOMAIN waits : /\ SameWait(waits[k], W[k])
                                   /\ waits[k].thread # u => W[k] = waits[k]
    PROVE  LoneWaits(W, DOMAIN waits)
<1>1. LoneWaits(waits, DOMAIN waits)
  BY AloneInTable
<1>2. ASSUME NEW k \in DOMAIN waits, waits[k].thread = u PROVE reply[u].wait = k
  <2>1. Takes(reply[u], active[u], k) /\ k # 0
    BY <1>2 DEF WaitInv, WaitsTaken, WaitsTyped
  <2> QED  BY <2>1 DEF Takes
<1>3. SUFFICES ASSUME NEW j \in DOMAIN waits, NEW k \in DOMAIN waits, W[j].result = Pending,
                      W[k].result = Pending, W[j].thread = W[k].thread
               PROVE  j = k
  BY DEF LoneWaits
<1>4. waits[j].thread = waits[k].thread
  BY <1>3 DEF SameWait
<1>5. CASE waits[j].thread = u
  BY <1>2, <1>4, <1>5
<1>6. CASE waits[j].thread # u
  BY <1>1, <1>3, <1>4, <1>6 DEF LoneWaits
<1> QED  BY <1>5, <1>6

(* The queue and the table of waits after a timer in slot s, whose owner   *)
(* was u and whose callbacks I, was set anew.  The four cases are those of *)
(* project_pending_apcs.                                                   *)
LEMMA RetimeDecides ==
    ASSUME IInv, ~NoRetime, NEW s \in Slots, NEW p, TimerWritten(p, s), Retime(p, s),
           NEW I, I = Callbacks(objects[s].id, invocations),
           NEW u, u = objects[s].thread
    PROVE  /\ u = NoThread => I = {}
           /\ \A i \in I : invocations[i].target = u
           /\ apcs' = {v \in Threads : Queued(v) \ I # {}}
           /\ \E q : Retimed(p, q)
<1>15. /\ SoundPlan(p, DOMAIN waits, live) /\ p.waits = waits /\ p.signaled \subseteq signaled
       /\ objects[s].type = "timer"
  BY DEF TimerWritten
<1>1. /\ objects[s] \in TimerKind /\ CallbackSound(objects[s], invocations)
      /\ objects[s].queued => u # NoThread
  BY <1>15, TimerFacts
<1>2. \A i \in I : invocations[i].target = u
  BY <1>1, <1>15 DEF CallbackSound
<1>3. u = NoThread => I = {}
  <2>1. objects[s].queued \in BOOLEAN
    BY <1>1 DEF TimerKind
  <2> QED  BY <1>1, <1>15, <2>1 DEF CallbackSound
<1>4. u # NoThread => u \in Threads
  BY <1>1 DEF TimerKind
<1>5. apcs = {v \in Threads : Queued(v) # {}}
  BY DEF IInv, QueueInv, ApcListExact
<1>6. \A v \in Threads : v # u => Queued(v) \ I = Queued(v)
  BY <1>2 DEF Queued
<1>7. \A w \in DOMAIN waits :
         waits[w].result = Pending /\ waits[w].alertable => waits[w].thread \notin apcs
  BY DEF IInv, WaitInv, Unalerted, Undecided
<1>8. \A r \in Slots : p.objects[r].type = objects[r].type
  BY <1>15 DEF SoundPlan
<1>9. \/ u = NoThread /\ Commit(p) /\ apcs' = apcs
      \/ /\ u # NoThread /\ Queued(u) \ I # {}
         /\ Commit(AlertThreads(p, {u})) /\ apcs' = apcs \cup {u}
      \/ /\ u # NoThread /\ Queued(u) \ I = {} /\ active[u] # <<>>
         /\ Commit(p) /\ apcs' = apcs \ {u}
      \/ /\ u # NoThread /\ Queued(u) \ I = {} /\ active[u] = <<>>
         /\ Commit(ResolveWaiters(RearmThread(p, u), nextWait, now)) /\ apcs' = apcs \ {u}
  BY DEF Retime, MarkApcs, Callbacks
<1>10. apcs' = {v \in Threads : Queued(v) \ I # {}}
  <2>1. CASE u = NoThread
    <3>1. apcs' = apcs
      BY <1>9, <2>1
    <3> QED  BY <1>3, <1>5, <2>1, <3>1
  <2>2. CASE u # NoThread /\ Queued(u) \ I # {}
    <3>1. apcs' = apcs \cup {u}
      BY <1>9, <2>2
    <3> QED  BY <1>4, <1>5, <1>6, <2>2, <3>1
  <2>3. CASE u # NoThread /\ Queued(u) \ I = {}
    <3>1. apcs' = apcs \ {u}
      BY <1>9, <2>3
    <3> QED  BY <1>4, <1>5, <1>6, <2>3, <3>1
  <2> QED  BY <2>1, <2>2, <2>3
<1>11. apcs' \subseteq apcs
  BY <1>5, <1>10
<1>12. ASSUME Commit(p)
       PROVE  \E q : Retimed(p, q)
  <2>1. \A w \in DOMAIN waits : SameWait(waits[w], p.waits[w])
    BY <1>15 DEF SameWait
  <2>2. Kept(waits, p.waits, DOMAIN waits)
    BY <1>15, <2>1 DEF Kept
  <2>3. NInv => SettledPlan(p, DOMAIN waits, now)
    BY <1>15, <2>2, WrittenSettles
  <2>4. \A w \in DOMAIN waits : MayBecome(waits[w], p.waits[w])
    BY <1>15, Unmoved
  <2> QED  BY <1>7, <1>11, <1>12, <1>15, <2>1, <2>3, <2>4 DEF Retimed
<1>13. ASSUME Commit(AlertThreads(p, {u})), Queued(u) \ I # {}, u # NoThread
       PROVE  \E q : Retimed(p, q)
  <2>1. PICK q : q = AlertThreads(p, {u})
    OBVIOUS
  <2>2. /\ SoundPlan(q, DOMAIN waits, live) /\ q.objects = p.objects /\ q.signaled = p.signaled
        /\ Kept(waits, q.waits, DOMAIN waits)
        /\ \A k \in DOMAIN waits : waits[k].thread # u \/ waits[k].result # Pending
               => q.waits[k] = waits[k]
    BY <1>15, <2>1, SoundAlert
  <2>3. \A w \in DOMAIN waits : q.waits[w].result = Pending => waits[w].result = Pending
    BY <2>2 DEF Kept
  <2>4. Commit(q)
    BY <1>13, <2>1
  <2>5. \A w \in DOMAIN waits :
           /\ SameWait(waits[w], q.waits[w])
           /\ waits[w].result # Pending => q.waits[w].result # Pending
    BY <2>2 DEF Kept
  <2>6. \A w \in DOMAIN waits : q.waits[w].result = Pending /\ waits[w].alertable
                                => waits[w].thread \notin apcs'
    BY <1>7, <1>11, <2>3
  <2>7. NInv => SettledPlan(q, DOMAIN waits, now)
    BY <2>2, WrittenSettles
  <2>8. \A w \in DOMAIN waits : MayBecome(waits[w], q.waits[w])
    BY <1>4, <1>10, <1>13, <2>2, <2>5, Unmoved
  <2> QED  BY <2>2, <2>4, <2>5, <2>6, <2>7, <2>8 DEF Retimed
<1>14. ASSUME Commit(ResolveWaiters(RearmThread(p, u), nextWait, now)), u # NoThread,
              Queued(u) \ I = {}, active[u] = <<>>
       PROVE  \E q : Retimed(p, q)
  <2>1. PICK a : a = RearmThread(p, u)
    OBVIOUS
  <2>2. /\ SoundPlan(a, DOMAIN waits, live) /\ a.objects = p.objects
        /\ \A w \in DOMAIN waits :
              /\ SameWait(waits[w], a.waits[w])
              /\ waits[w].thread # u => a.waits[w] = waits[w]
              /\ a.waits[w].result # waits[w].result =>
                    waits[w].result = IoCompletion /\ waits[w].thread = u
    BY <1>15, <2>1, SoundRearm
  <2>3. PICK q : q = ResolveWaiters(a, nextWait, now)
    OBVIOUS
  <2>4. SoundPlan(q, DOMAIN waits, live) /\ Resolved(a, q, DOMAIN waits)
    BY <2>2, <2>3, SoundWaiters, NowNat
  <2>5. /\ Kept(a.waits, q.waits, DOMAIN waits)
        /\ \A r \in Slots : a.objects[r].type = "timer" => q.objects[r] = a.objects[r]
    BY <2>4, ResolvedKeeps
  <2>6. u \notin apcs'
    BY <1>10, <1>14
  <2>7. ASSUME NEW w \in DOMAIN waits
        PROVE  /\ SameWait(waits[w], q.waits[w])
               /\ active[waits[w].thread] # <<>> /\ waits[w].result # Pending
                    => q.waits[w].result # Pending
               /\ q.waits[w].result = Pending /\ waits[w].alertable
                    => waits[w].thread \notin apcs'
    <3>1. /\ SameWait(waits[w], q.waits[w])
          /\ a.waits[w].result # Pending => q.waits[w].result # Pending
      BY <2>2, <2>5 DEF Kept, SameWait
    <3>2. CASE waits[w].thread = u
      BY <1>14, <2>6, <3>1, <3>2
    <3>3. CASE waits[w].thread # u
      BY <1>7, <1>11, <2>2, <3>1, <3>3
    <3> QED  BY <3>2, <3>3
  <2>8. Commit(q)
    BY <1>14, <2>1, <2>3
  <2>9. \A r \in Slots : objects[r].type = "timer" => q.objects[r] = p.objects[r]
    BY <1>8, <2>2, <2>5
  <2>10. LoneWaits(a.waits, DOMAIN waits)
    BY <1>4, <1>14, <2>2, RearmedAlone DEF IInv
  <2>11. \A w \in DOMAIN waits : MayBecome(waits[w], a.waits[w])
    BY <2>2, <2>6 DEF MayBecome
  <2>12. /\ SettledPlan(q, DOMAIN waits, now)
         /\ \A w \in DOMAIN waits : MayBecome(waits[w], q.waits[w])
    BY <2>2, <2>3, <2>10, <2>11, PassAdvances
  <2> QED  BY <2>4, <2>7, <2>8, <2>9, <2>12 DEF Retimed
<1> QED  BY <1>2, <1>3, <1>9, <1>10, <1>12, <1>13, <1>14

(* Setting a timer anew: its old callbacks are gone from all three lists.  *)
LEMMA RetimeKeeps ==
    ASSUME IInv, ~NoRetime, NEW s \in Slots, NEW p, TimerWritten(p, s), Retime(p, s),
           p.objects[s].id = objects[s].id, ~p.objects[s].queued
    PROVE  IInv' /\ Steady
<1>16. SoundPlan(p, DOMAIN waits, live) /\ \A r \in Slots \ {s} : p.objects[r] = objects[r]
  BY DEF TimerWritten
<1>1. PICK I : I = Callbacks(objects[s].id, invocations)
  OBVIOUS
<1>2. PICK u : u = objects[s].thread
  OBVIOUS
<1>3. /\ invocations' = [i \in DOMAIN invocations \ I |-> invocations[i]]
      /\ UNCHANGED <<refs, handles, nextHandle, nextWait, now, nextInvocation, active, reply, live>>
  BY <1>1 DEF Retime, Callbacks
<1>4. apcs' = {v \in Threads : Queued(v) \ I # {}}
  BY <1>1, <1>2, RetimeDecides
<1>14. PICK q : Retimed(p, q)
  BY <1>1, <1>2, RetimeDecides
<1>5. /\ Commit(q) /\ SoundPlan(q, DOMAIN waits, live)
      /\ \A r \in Slots : objects[r].type = "timer" => q.objects[r] = p.objects[r]
      /\ \A w \in DOMAIN waits :
            /\ SameWait(waits[w], q.waits[w])
            /\ active[waits[w].thread] # <<>> /\ waits[w].result # Pending
                 => q.waits[w].result # Pending
            /\ q.waits[w].result = Pending /\ waits[w].alertable
                 => waits[w].thread \notin apcs'
  BY <1>14 DEF Retimed
<1>6. ObjectInv'
  BY <1>3, <1>5, CommitKeepsObjects DEF IInv
<1>7. waits' = q.waits /\ waits' \in [DOMAIN waits -> WaitRecord] /\ q.signaled \subseteq Slots
  BY <1>5, PlanParts DEF Commit, SoundPlan
<1>8. WaitInv'
  <2>1. Unalerted'
    <3>1. ASSUME NEW w \in DOMAIN waits, waits'[w].result = Pending, waits'[w].alertable
          PROVE  waits'[w].thread \notin apcs'
      BY <1>5, <1>7, <3>1 DEF SameWait
    <3> QED  BY <1>7, <3>1 DEF Unalerted, Undecided
  <2>2. RepliesKept
    BY <1>3 DEF RepliesKept, IInv, WaitInv, FramesTyped
  <2>3. now' \in Nat
    BY <1>3, NowNat
  <2> QED  BY <1>3, <1>5, <1>7, <2>1, <2>2, <2>3, KeptWaits DEF IInv
<1>9. /\ DOMAIN invocations' = DOMAIN invocations \ I
      /\ \A i \in DOMAIN invocations \ I : invocations'[i] = invocations[i]
  BY <1>3
<1>10. QueueTyped'
  <2>1. \A i \in DOMAIN invocations' : invocations'[i] \in Invocation
    BY <1>9 DEF IInv, QueueInv, QueueTyped
  <2>2. invocations' \in [DOMAIN invocations' -> Invocation]
    BY <1>3, <2>1
  <2> QED  BY <1>3, <1>9, <2>2 DEF IInv, QueueInv, QueueTyped
<1>11. ApcListExact'
  <2>1. \A v \in Threads : Queued(v)' = Queued(v) \ I
    BY <1>9 DEF Queued
  <2> QED  BY <1>4, <2>1 DEF ApcListExact
<1>12. ASSUME NEW r \in Slots PROVE CallbackSound(objects'[r], invocations')
  <2>1. CASE objects'[r].type # "timer"
    BY <2>1 DEF CallbackSound
  <2>2. CASE objects'[r].type = "timer"
    <3>1. objects'[r] = q.objects[r]
      BY <1>5, <1>7, <2>2, CommitTimers
    <3>2. objects[r].type = "timer" /\ objects'[r] = p.objects[r]
      BY <1>5, <1>16, <2>2, <3>1 DEF SoundPlan
    <3>3. \A k : Callbacks(k, invocations') = Callbacks(k, invocations) \ I
      BY <1>9 DEF Callbacks
    <3>4. CASE r = s
      <4>1. Callbacks(objects'[r].id, invocations') = {}
        BY <1>1, <3>2, <3>3, <3>4
      <4> QED  BY <3>2, <3>4, <4>1 DEF CallbackSound
    <3>5. CASE r # s
      <4>1. objects'[r] = objects[r]
        BY <1>16, <3>2, <3>5
      <4>2. objects[r].id # objects[s].id
        BY <3>2, <3>5, PlanFacts DEF SoundPlan, TimersDiffer, TimerWritten
      <4>3. Callbacks(objects[r].id, invocations') = Callbacks(objects[r].id, invocations)
        BY <1>1, <3>3, <4>2 DEF Callbacks
      <4>4. \A i \in Callbacks(objects[r].id, invocations) :
               i \in DOMAIN invocations' /\ invocations'[i] = invocations[i]
        BY <1>1, <1>9, <4>2 DEF Callbacks
      <4>5. CallbackSound(objects[r], invocations)
        BY <3>2, TimerFacts
      <4> QED  BY <4>1, <4>3, <4>4, <4>5 DEF CallbackSound
    <3> QED  BY <3>4, <3>5
  <2> QED  BY <2>1, <2>2
<1>13. QueueInv'
  BY <1>10, <1>11, <1>12 DEF QueueInv, CallbacksSound
<1>15. Steady
  <2>1. q \in Plans(DOMAIN waits)
    BY <1>5 DEF SoundPlan
  <2>2. NInv => SettledPlan(q, DOMAIN waits, now')
    BY <1>3, <1>14 DEF Retimed
  <2>3. \A k \in DOMAIN waits : MayBecome(waits[k], q.waits[k])
    BY <1>14 DEF Retimed
  <2> QED  BY <1>3, <1>5, <2>1, <2>2, <2>3, CommitAdvances
<1> QED  BY <1>6, <1>8, <1>13, <1>15 DEF IInv

(* A timer with a new setting.                                             *)
LEMMA NewTimer ==
    ASSUME NEW o \in TimerKind, NEW due \in Nat \cup {Never}, NEW period \in Nat,
           NEW u \in Threads \cup {NoThread}, NEW callback \in BOOLEAN, NEW g \in Nat,
           NEW r, r = [type |-> "timer", manual |-> o.manual, id |-> o.id, due |-> due,
                       period |-> period, thread |-> u, callback |-> callback,
                       generation |-> g, queued |-> FALSE]
    PROVE  /\ r \in TimerKind /\ r \in ObjectKind /\ r.type = "timer" /\ r.id = o.id
           /\ r.manual = o.manual /\ r.due = due /\ r.thread = u /\ r.callback = callback /\ ~r.queued
<1>1. r \in TimerKind
  BY DEF TimerKind
<1> QED  BY <1>1 DEF ObjectKind

(* Plan p holds the new setting of the timer in slot s.                    *)
TimerSet(p, s) ==
    /\ TimerWritten(p, s) /\ Retime(p, s) /\ ~NoRetime /\ ~p.objects[s].queued
    /\ p.objects[s].id = objects[s].id /\ p.objects[s].manual = objects[s].manual

(* CancelWaitableTimer                                                     *)
LEMMA CancelSets ==
    ASSUME IInv, NEW t \in Threads, NEW h \in DOMAIN handles, CancelWaitableTimer(t, h)
    PROVE  \E s \in Slots : \E p : TimerSet(p, s)
<1>1. PICK s \in Slots : s = handles[h]
  BY HandleNames
<1>2. PICK o : o = objects[s]
  OBVIOUS
<1>3. PICK r : r = [o EXCEPT !.due = Never, !.queued = FALSE, !.generation = @ + 1]
  OBVIOUS
<1>4. o.type = "timer" /\ Retime(PutObject(Plan, s, r), s) /\ ~NoRetime
  BY <1>1, <1>2, <1>3 DEF CancelWaitableTimer, Call, NoRetime
<1>5. /\ o \in TimerKind /\ (o.callback => o.thread # NoThread)
      /\ ObjectSound(o, s \in signaled, live, nextHandle)
  <2>1. ObjectSound(objects[s], s \in signaled, live, nextHandle)
    BY DEF IInv, ObjectInv, ObjectsSound, Plan
  <2> QED  BY <1>2, <1>4, <2>1, TimerFacts
<1>6. r = [type |-> "timer", manual |-> o.manual, id |-> o.id, due |-> Never,
           period |-> o.period, thread |-> o.thread, callback |-> o.callback,
           generation |-> o.generation + 1, queued |-> FALSE]
  BY <1>3, <1>5 DEF TimerKind
<1>7. /\ o.period \in Nat /\ o.thread \in Threads \cup {NoThread} /\ o.callback \in BOOLEAN
      /\ o.generation + 1 \in Nat /\ Never \in Nat \cup {Never}
  BY <1>5 DEF TimerKind
<1>8. /\ r \in ObjectKind /\ r.type = "timer" /\ r.id = o.id /\ r.due = Never
      /\ r.thread = o.thread /\ r.callback = o.callback /\ ~r.queued
      /\ r.manual = o.manual
  BY <1>5, <1>6, <1>7, NewTimer
<1>9. ObjectSound(r, s \in signaled, live, nextHandle)
  BY <1>4, <1>5, <1>8 DEF ObjectSound
<1>10. PICK p : p = PutObject(Plan, s, r)
  OBVIOUS
<1>11. SoundPlan(p, DOMAIN waits, live)
  BY <1>2, <1>4, <1>8, <1>9, <1>10, PlanFacts, SoundPutObject
<1>12. /\ p.waits = waits /\ p.objects[s] = r /\ p.signaled = signaled
       /\ \A k \in Slots \ {s} : p.objects[k] = objects[k]
  BY <1>10, PlanFacts DEF PutObject, Plan
<1>13. TimerWritten(p, s)
  BY <1>2, <1>4, <1>11, <1>12 DEF TimerWritten
<1>14. TimerSet(p, s)
  BY <1>2, <1>4, <1>8, <1>10, <1>12, <1>13 DEF TimerSet
<1> QED  BY <1>14

(* SetWaitableTimer: the thread that calls is the new owner, and alive.    *)
LEMMA SetSets ==
    ASSUME IInv, NEW t \in Threads, NEW h \in DOMAIN handles, NEW delay \in Nat,
           NEW period \in Nat, NEW callback \in BOOLEAN,
           SetWaitableTimer(t, h, delay, period, callback)
    PROVE  \E s \in Slots : \E p : TimerSet(p, s)
<1>1. PICK s \in Slots : s = handles[h]
  BY HandleNames
<1>2. PICK o : o = objects[s]
  OBVIOUS
<1>3. PICK r : r = [o EXCEPT !.due = now + delay, !.period = period, !.thread = t,
                             !.callback = callback, !.generation = @ + 1, !.queued = FALSE]
  OBVIOUS
<1>4. /\ o.type = "timer" /\ t \in live /\ Retime(ClearSignal(PutObject(Plan, s, r), s), s)
      /\ ~NoRetime
  BY <1>1, <1>2, <1>3 DEF SetWaitableTimer, Call, Running, NoRetime
<1>5. /\ o \in TimerKind
      /\ ObjectSound(o, s \in signaled, live, nextHandle)
  <2>1. ObjectSound(objects[s], s \in signaled, live, nextHandle)
    BY DEF IInv, ObjectInv, ObjectsSound, Plan
  <2> QED  BY <1>2, <1>4, <2>1, TimerFacts
<1>6. r = [type |-> "timer", manual |-> o.manual, id |-> o.id, due |-> now + delay,
           period |-> period, thread |-> t, callback |-> callback,
           generation |-> o.generation + 1, queued |-> FALSE]
  BY <1>3, <1>5 DEF TimerKind
<1>7. now + delay \in Nat \cup {Never} /\ t \in Threads \cup {NoThread} /\ o.generation + 1 \in Nat
  BY <1>5, NowNat DEF TimerKind
<1>8. /\ r \in ObjectKind /\ r.type = "timer" /\ r.id = o.id
      /\ r.thread = t /\ ~r.queued /\ r.manual = o.manual
  BY <1>5, <1>6, <1>7, NewTimer
<1>9. ASSUME NEW set PROVE ObjectSound(r, set, live, nextHandle)
  BY <1>4, <1>5, <1>8, NoThreadAssumption DEF ObjectSound
<1>10. PICK a : a = PutObject(Plan, s, r)
  OBVIOUS
<1>11. SoundPlan(a, DOMAIN waits, live)
  BY <1>2, <1>4, <1>8, <1>9, <1>10, PlanFacts, SoundPutObject
<1>12. /\ a.waits = waits /\ a.objects[s] = r /\ a.signaled = signaled
       /\ \A k \in Slots \ {s} : a.objects[k] = objects[k]
  BY <1>10, PlanFacts DEF PutObject, Plan
<1>13. PICK p : p = ClearSignal(a, s)
  OBVIOUS
<1>14. SoundPlan(p, DOMAIN waits, live)
  BY <1>2, <1>4, <1>11, <1>13, SoundClear
<1>15. p.waits = a.waits /\ p.objects = a.objects /\ p.signaled \subseteq a.signaled
  <2>1. a \in Plans(DOMAIN waits)
    BY <1>11 DEF SoundPlan
  <2> QED  BY <1>13, <2>1 DEF ClearSignal, Plans
<1>16. TimerWritten(p, s)
  BY <1>2, <1>4, <1>12, <1>14, <1>15 DEF TimerWritten
<1>17. TimerSet(p, s)
  BY <1>2, <1>4, <1>8, <1>10, <1>12, <1>13, <1>15, <1>16 DEF TimerSet
<1> QED  BY <1>17

(* Both keep the invariant.                                                *)
LEMMA TimerSetKeeps ==
    ASSUME IInv, \E s \in Slots : \E p : TimerSet(p, s)
    PROVE  IInv' /\ Steady
  BY RetimeKeeps DEF TimerSet

(* The rank of a member of a set of slots: its position in slot order.     *)
Position(s, F) == Cardinality({r \in F : r <= s})

(* Different members of a set of slots have different positions.           *)
LEMMA Ranks ==
    ASSUME NEW F \in SUBSET Slots
    PROVE  /\ IsFiniteSet(F) /\ Cardinality(F) \in Nat
           /\ \A s \in F : Position(s, F) \in 1 .. Cardinality(F)
           /\ \A s, k \in F : Position(s, F) = Position(k, F) => s = k
<1>1. IsFiniteSet(Slots)
  BY FS_Interval, MaxObjectsAssumption DEF Slots
<1>2. IsFiniteSet(F) /\ Cardinality(F) \in Nat
  BY <1>1, FS_Subset, FS_CardinalityType
<1>3. \A s \in Slots : s \in Nat
  BY MaxObjectsAssumption DEF Slots
<1>4. ASSUME NEW s \in F
      PROVE  /\ IsFiniteSet({r \in F : r <= s})
             /\ Cardinality({r \in F : r <= s}) \in 1 .. Cardinality(F)
  <2>1. PICK G \in SUBSET F : G = {r \in F : r <= s}
    OBVIOUS
  <2>2. s \in G
    BY <1>3, <2>1
  <2>3. /\ IsFiniteSet(G) /\ Cardinality(G) <= Cardinality(F) /\ Cardinality(G) \in Nat
    BY <1>2, FS_Subset, FS_CardinalityType
  <2>4. Cardinality(G) # 0
    BY <2>2, <2>3, FS_EmptySet
  <2> QED  BY <1>2, <2>1, <2>3, <2>4
<1>5. ASSUME NEW s \in F, NEW k \in F, s < k,
             Cardinality({r \in F : r <= s}) = Cardinality({r \in F : r <= k})
      PROVE  FALSE
  <2>1. PICK G \in SUBSET F : G = {r \in F : r <= s}
    OBVIOUS
  <2>2. PICK K \in SUBSET F : K = {r \in F : r <= k}
    OBVIOUS
  <2>3. G \in SUBSET K /\ k \in K /\ k \notin G
    BY <1>3, <1>5, <2>1, <2>2
  <2>4. IsFiniteSet(K)
    BY <1>4, <2>2
  <2>5. Cardinality(K) = Cardinality(G)
    BY <1>5, <2>1, <2>2
  <2>6. K = G
    BY <2>3, <2>4, <2>5, FS_Subset
  <2> QED  BY <2>3, <2>6
<1>6. \A s, k \in F : s # k => s < k \/ k < s
  BY <1>3
<1> QED  BY <1>2, <1>4, <1>5, <1>6 DEF Position

(* The next due time of a timer that expired is an instant, or never.      *)
LEMMA NextDueIsTime ==
    ASSUME NEW o \in TimerKind, NEW t \in Nat, TimerExpired(o, t)
    PROVE  NextDue(o, t) \in Nat \cup {Never}
<1>1. o.due \in Nat \cup {Never} /\ o.period \in Nat /\ o.due # Never /\ o.due <= t
  BY DEF TimerKind, TimerExpired
<1>2. PICK d \in Nat : d = o.due
  BY <1>1
<1>3. PICK period \in Nat : period = o.period
  BY <1>1
<1>4. CASE period = 0
  BY <1>3, <1>4 DEF NextDue
<1>5. CASE period # 0
  <2>1. PICK n \in Nat : n = t - d
    BY <1>1, <1>2
  <2>2. n \div period \in Nat
    <3>1. period \in Nat \ {0}
      BY <1>5
    <3>2. \A x \in Nat, y \in Nat \ {0} : x \div y \in Nat
      OBVIOUS
    <3> QED  BY <3>1, <3>2
  <2>3. PICK m \in Nat : m = n \div period + 1
    BY <2>2
  <2>4. m * period \in Nat
    OBVIOUS
  <2>5. NextDue(o, t) = d + m * period
    BY <1>2, <1>3, <1>5, <2>1, <2>3 DEF NextDue
  <2> QED  BY <2>4, <2>5
<1> QED  BY <1>4, <1>5

(* prepare_synchronization_clock: the timers that are due.                 *)
Expire(o, t) == [o EXCEPT !.due = NextDue(o, t), !.queued = o.queued \/ o.callback]

(* A timer that expired is still a timer, with the same id and owner.      *)
LEMMA ExpiredTimer ==
    ASSUME NEW o \in TimerKind, NEW t \in Nat, TimerExpired(o, t),
           NEW r, r = Expire(o, t)
    PROVE  /\ r \in TimerKind /\ r.type = "timer" /\ r.id = o.id /\ r.callback = o.callback
           /\ r.thread = o.thread /\ r.generation = o.generation /\ r.manual = o.manual
           /\ r.queued <=> (o.queued \/ o.callback)
<1>1. PICK due \in Nat \cup {Never} : due = NextDue(o, t)
  BY NextDueIsTime
<1>2. PICK queued \in BOOLEAN : queued = (o.queued \/ o.callback)
  OBVIOUS
<1>3. r = [type |-> "timer", manual |-> o.manual, id |-> o.id, due |-> due,
           period |-> o.period, thread |-> o.thread, callback |-> o.callback,
           generation |-> o.generation, queued |-> queued]
  <2>1. r = [o EXCEPT !.due = due, !.queued = queued]
    BY <1>1, <1>2 DEF Expire
  <2> QED  BY <2>1 DEF TimerKind
<1>4. r \in TimerKind
  BY <1>3 DEF TimerKind
<1>5. /\ r.type = "timer" /\ r.id = o.id /\ r.callback = o.callback
      /\ r.thread = o.thread /\ r.generation = o.generation /\ r.manual = o.manual
      /\ r.queued = queued
  BY <1>3
<1>6. r.queued <=> (o.queued \/ o.callback)
  BY <1>2, <1>5
<1> QED  BY <1>4, <1>5, <1>6

(* A timer after the expiry: the same but for its due time, and its        *)
(* callback is in the queue if it is to be pushed now.                     *)
SameTimer(o, r) ==
    /\ r.type = "timer" /\ r.id = o.id /\ r.manual = o.manual
    /\ r.thread = o.thread /\ r.generation = o.generation

(* The expiry of timers keeps a plan sound.                                *)
LEMMA SoundExpire ==
    ASSUME NEW D, NEW L, NEW p, SoundPlan(p, D, L), NEW t \in Nat
    PROVE  /\ SoundPlan(ExpireTimers(p, t), D, L) /\ ExpireTimers(p, t).waits = p.waits
           /\ \A s \in Slots : p.objects[s].type = "timer" =>
                 /\ SameTimer(p.objects[s], ExpireTimers(p, t).objects[s])
                 /\ ExpireTimers(p, t).objects[s].queued
                       <=> p.objects[s].queued \/ s \in Firing(p, t)
           /\ \A s \in Slots : p.objects[s].type # "timer" =>
                 ExpireTimers(p, t).objects[s] = p.objects[s]
<1> DEFINE O == [s \in Slots |->
                    IF TimerExpired(p.objects[s], t)
                    THEN [p.objects[s] EXCEPT !.due = NextDue(p.objects[s], t),
                                !.queued = p.objects[s].queued \/ p.objects[s].callback]
                    ELSE p.objects[s]]
           B == p.signaled \cup {s \in Slots : TimerExpired(p.objects[s], t)}
<1>1. p \in Plans(D)
  BY DEF SoundPlan
<1>2. PICK q : q = ExpireTimers(p, t)
  OBVIOUS
<1>3. q = [objects |-> O, signaled |-> B, waits |-> p.waits]
  <2>1. q = [p EXCEPT !.objects = O, !.signaled = B]
    BY <1>2 DEF ExpireTimers
  <2> HIDE DEF O, B
  <2> QED  BY <1>1, <2>1 DEF Plans
<1>4. ASSUME NEW s \in Slots
      PROVE  /\ O[s] \in ObjectKind /\ O[s].type = p.objects[s].type
             /\ ObjectSound(O[s], s \in B, L, nextHandle)
             /\ p.objects[s].type = "timer" =>
                   /\ SameTimer(p.objects[s], O[s])
                   /\ O[s].queued <=> p.objects[s].queued \/ s \in Firing(p, t)
             /\ p.objects[s].type # "timer" => O[s] = p.objects[s]
  <2>1. PICK o \in ObjectKind : o = p.objects[s]
    BY <1>1, PlanParts
  <2>2. ObjectSound(o, s \in p.signaled, L, nextHandle)
    BY <2>1 DEF SoundPlan, ObjectsSound
  <2>3. CASE ~TimerExpired(o, t)
    <3>1. O[s] = o /\ (s \in B <=> s \in p.signaled) /\ s \notin Firing(p, t)
      BY <2>1, <2>3 DEF Firing
    <3> HIDE DEF O, B
    <3> QED  BY <2>1, <2>2, <3>1 DEF ObjectSound, MutexSound, SameTimer
  <2>4. CASE TimerExpired(o, t)
    <3>1. o \in TimerKind /\ o.type = "timer" /\ o.due # Never
      BY <2>4, Kinds DEF TimerExpired
    <3>2. PICK r : r = Expire(o, t)
      OBVIOUS
    <3>3. /\ r \in TimerKind /\ r.type = "timer" /\ r.id = o.id /\ r.callback = o.callback
          /\ r.thread = o.thread /\ r.generation = o.generation /\ r.manual = o.manual
          /\ r.queued <=> (o.queued \/ o.callback)
      BY <2>4, <3>1, <3>2, ExpiredTimer
    <3>4. O[s] = r
      BY <2>1, <2>4, <3>2 DEF Expire
    <3>5. r \in ObjectKind
      BY <3>3 DEF ObjectKind
    <3>6. ASSUME NEW set PROVE ObjectSound(r, set, L, nextHandle)
      BY <2>2, <3>1, <3>3 DEF ObjectSound
    <3>7. s \in Firing(p, t) <=> o.callback /\ ~o.queued
      BY <2>1, <2>4 DEF Firing
    <3>8. (o.queued => o.callback) /\ o.queued \in BOOLEAN /\ o.callback \in BOOLEAN
      BY <2>2, <3>1 DEF ObjectSound, TimerKind
    <3>9. r.queued <=> o.queued \/ s \in Firing(p, t)
      BY <3>3, <3>7, <3>8
    <3> HIDE DEF O, B
    <3> QED  BY <2>1, <3>1, <3>3, <3>4, <3>5, <3>6, <3>9 DEF SameTimer
  <2> QED  BY <2>3, <2>4
<1>5. O \in [Slots -> ObjectKind] /\ B \subseteq Slots
  <2>1. p.signaled \subseteq Slots
    BY <1>1, PlanParts
  <2> QED  BY <1>4, <2>1
<1> HIDE DEF O, B
<1>6. q.objects = O /\ q.signaled = B /\ q.waits = p.waits /\ q \in Plans(D)
  BY <1>1, <1>3, <1>5, PlanParts DEF Plans
<1>7. SoundPlan(q, D, L)
  <2>1. TimersDiffer(p)
    BY DEF SoundPlan
  <2>2. TimersDiffer(q)
    BY <1>4, <1>6, <2>1 DEF TimersDiffer, SameTimer
  <2>3. ObjectsSound(q, L, nextHandle)
    BY <1>4, <1>6 DEF ObjectsSound
  <2>4. \A s \in Slots : q.objects[s].type = objects[s].type
    BY <1>4, <1>6 DEF SoundPlan
  <2>5. WaitsFit(q.waits, D, L)
    BY <1>6 DEF SoundPlan
  <2> QED  BY <1>6, <2>2, <2>3, <2>4, <2>5 DEF SoundPlan
<1> QED  BY <1>2, <1>4, <1>6, <1>7

(* The entries of the queue after the timers F pushed theirs.              *)
Numbered(rank, F) ==
    /\ rank \in [F -> nextInvocation + 1 .. nextInvocation']
    /\ \A s, k \in F : rank[s] = rank[k] => s = k
    /\ DOMAIN invocations' = DOMAIN invocations \cup {rank[s] : s \in F}
    /\ invocations' = [i \in DOMAIN invocations' |-> invocations'[i]]
    /\ \A i \in DOMAIN invocations : invocations'[i] = invocations[i]
    /\ \A s \in F : invocations'[rank[s]] =
           [target |-> objects[s].thread, timer |-> objects[s].id,
            generation |-> objects[s].generation]

(* The callbacks that a clock observation pushes: one of each timer that   *)
(* fires, numbered in slot order after the callbacks there are.            *)
LEMMA Pushed ==
    ASSUME IInv, NEW t, Tick(t), NEW F, F = Firing(Plan, t)
    PROVE  /\ F \in SUBSET Slots /\ Cardinality(F) \in Nat
           /\ nextInvocation' = nextInvocation + Cardinality(F)
           /\ \E rank : Numbered(rank, F)
<1> DEFINE pushed == {Rank(Plan, s, t) : s \in F}
           Slot(i) == CHOOSE s \in F : Rank(Plan, s, t) = i
<1>1. F \in SUBSET Slots
  BY DEF Firing
<1>2. /\ nextInvocation' = nextInvocation + Cardinality(F)
      /\ invocations' = [i \in DOMAIN invocations \cup pushed |->
                             IF i \in DOMAIN invocations THEN invocations[i]
                             ELSE [target |-> objects[Slot(i)].thread,
                                   timer |-> objects[Slot(i)].id,
                                   generation |-> objects[Slot(i)].generation]]
  BY DEF Tick
<1>3. /\ Cardinality(F) \in Nat
      /\ \A s \in F : Position(s, F) \in 1 .. Cardinality(F)
      /\ \A s, k \in F : Position(s, F) = Position(k, F) => s = k
  BY <1>1, Ranks
<1>4. nextInvocation \in Nat /\ \A i \in DOMAIN invocations : i \in Nat /\ i <= nextInvocation
  BY DEF IInv, QueueInv, QueueTyped
<1>5. \A s \in F : Rank(Plan, s, t) = nextInvocation + Position(s, F)
  BY DEF Rank, Position
<1>6. \A s \in F : Rank(Plan, s, t) \in nextInvocation + 1 .. nextInvocation'
  BY <1>2, <1>3, <1>4, <1>5
<1>7. \A s, k \in F : Rank(Plan, s, t) = Rank(Plan, k, t) => s = k
  <2>1. ASSUME NEW s \in F, NEW k \in F, Rank(Plan, s, t) = Rank(Plan, k, t) PROVE s = k
    <3>1. Position(s, F) \in Nat /\ Position(k, F) \in Nat
      BY <1>3
    <3>2. Position(s, F) = Position(k, F)
      BY <1>4, <1>5, <2>1, <3>1
    <3> QED  BY <1>3, <3>2
  <2> QED  BY <2>1
<1>8. \A s \in F : Slot(Rank(Plan, s, t)) = s
  BY <1>7
<1>9. \A s \in F : Rank(Plan, s, t) \notin DOMAIN invocations
  BY <1>2, <1>3, <1>4, <1>6
<1> HIDE DEF Slot
<1>10. PICK rank : rank = [s \in F |-> Rank(Plan, s, t)]
  OBVIOUS
<1>11. rank \in [F -> nextInvocation + 1 .. nextInvocation']
  BY <1>6, <1>10
<1>12. \A s, k \in F : rank[s] = rank[k] => s = k
  BY <1>7, <1>10
<1>13. pushed = {rank[s] : s \in F}
  BY <1>10
<1> HIDE DEF pushed
<1>14. /\ DOMAIN invocations' = DOMAIN invocations \cup pushed
       /\ invocations' = [i \in DOMAIN invocations' |-> invocations'[i]]
       /\ \A i \in DOMAIN invocations : invocations'[i] = invocations[i]
  BY <1>2
<1>15. ASSUME NEW s \in F
       PROVE  invocations'[rank[s]] =
                 [target |-> objects[s].thread, timer |-> objects[s].id,
                  generation |-> objects[s].generation]
  <2>1. rank[s] \in pushed /\ rank[s] \notin DOMAIN invocations /\ Slot(rank[s]) = s
    BY <1>8, <1>9, <1>10, <1>13
  <2>2. PICK i : i = rank[s]
    OBVIOUS
  <2>3. invocations'[i] = [target |-> objects[Slot(i)].thread, timer |-> objects[Slot(i)].id,
                           generation |-> objects[Slot(i)].generation]
    BY <1>2, <2>1, <2>2
  <2> QED  BY <2>1, <2>2, <2>3
<1>16. Numbered(rank, F)
  BY <1>11, <1>12, <1>13, <1>14, <1>15 DEF Numbered
<1> QED  BY <1>1, <1>2, <1>3, <1>16

(* prepare_synchronization_clock: the clock is observed.                   *)
LEMMA TickKeeps ==
    ASSUME IInv, NEW t \in now .. Horizon, Tick(t)
    PROVE  IInv' /\ Steady
<1>1. t \in Nat /\ now \in Nat
  BY NowNat, BoundsAssumption
<1>2. PICK F : F = Firing(Plan, t)
  OBVIOUS
<1>3. PICK alerted : alerted = {objects[s].thread : s \in F}
  OBVIOUS
<1>4. /\ alerted \subseteq live
      /\ Commit(ResolveWaiters(AlertThreads(ExpireTimers(Plan, t), alerted), nextWait, t))
      /\ apcs' = apcs \cup alerted
      /\ now' = t
      /\ UNCHANGED <<refs, handles, nextHandle, nextWait, active, reply, live>>
  BY <1>2, <1>3 DEF Tick
<1>5. F \in SUBSET Slots /\ Cardinality(F) \in Nat
      /\ nextInvocation' = nextInvocation + Cardinality(F)
  BY <1>2, Pushed
<1>6. PICK rank : Numbered(rank, F)
  BY <1>2, Pushed
<1>6a. /\ rank \in [F -> nextInvocation + 1 .. nextInvocation']
       /\ DOMAIN invocations' = DOMAIN invocations \cup {rank[s] : s \in F}
       /\ invocations' = [i \in DOMAIN invocations' |-> invocations'[i]]
       /\ \A i \in DOMAIN invocations : invocations'[i] = invocations[i]
       /\ \A s \in F : invocations'[rank[s]] =
              [target |-> objects[s].thread, timer |-> objects[s].id,
               generation |-> objects[s].generation]
  BY <1>6 DEF Numbered
<1>7. \A s \in F : objects[s].type = "timer" /\ ~objects[s].queued
  BY <1>2 DEF Firing, TimerExpired, Plan
<1>8. \A s \in F : /\ objects[s] \in TimerKind /\ objects[s].id \in 1 .. nextHandle
                   /\ objects[s].thread \in live
  BY <1>3, <1>4, <1>5, <1>7, TimerFacts
<1>9. PICK a : a = ExpireTimers(Plan, t)
  OBVIOUS
<1>10. /\ SoundPlan(a, DOMAIN waits, live) /\ a.waits = waits
       /\ \A s \in Slots : objects[s].type = "timer" =>
             /\ SameTimer(objects[s], a.objects[s])
             /\ a.objects[s].queued <=> objects[s].queued \/ s \in F
  BY <1>1, <1>2, <1>9, SoundExpire, PlanFacts
<1>11. PICK b : b = AlertThreads(a, alerted)
  OBVIOUS
<1>12. /\ SoundPlan(b, DOMAIN waits, live) /\ b.objects = a.objects
       /\ Kept(waits, b.waits, DOMAIN waits)
       /\ \A k \in DOMAIN waits : waits[k].thread \in alerted /\ waits[k].alertable
             => b.waits[k].result # Pending
       /\ \A k \in DOMAIN waits : waits[k].thread \notin alerted \/ waits[k].result # Pending
             => b.waits[k] = waits[k]
  BY <1>10, <1>11, SoundAlert
<1>13. PICK q : q = ResolveWaiters(b, nextWait, t)
  OBVIOUS
<1>14. /\ Commit(q) /\ SoundPlan(q, DOMAIN waits, live) /\ Resolved(b, q, DOMAIN waits)
  BY <1>4, <1>9, <1>11, <1>12, <1>13, SoundWaiters, NowNat
<1>15. /\ Kept(b.waits, q.waits, DOMAIN waits)
       /\ \A s \in Slots : a.objects[s].type = "timer" => q.objects[s] = a.objects[s]
  BY <1>12, <1>14, ResolvedKeeps
<1>16. ObjectInv'
  BY <1>4, <1>14, CommitKeepsObjects DEF IInv
<1>17. /\ waits' = q.waits /\ waits' \in [DOMAIN waits -> WaitRecord] /\ q.signaled \subseteq Slots
       /\ q \in Plans(DOMAIN waits)
  BY <1>14, PlanParts DEF Commit, SoundPlan
<1>18. WaitInv'
  <2>1. ASSUME NEW w \in DOMAIN waits
        PROVE  /\ SameWait(waits[w], waits'[w])
               /\ waits[w].result # Pending => waits'[w].result # Pending
               /\ waits[w].thread \in alerted /\ waits[w].alertable => waits'[w].result # Pending
    BY <1>12, <1>15, <1>17 DEF Kept, SameWait
  <2>2. Unalerted'
    <3>1. ASSUME NEW w \in DOMAIN waits, waits'[w].result = Pending, waits'[w].alertable
          PROVE  waits'[w].thread \notin apcs \cup alerted
      <4>1. waits[w].result = Pending /\ waits[w].alertable /\ waits'[w].thread = waits[w].thread
        BY <2>1, <3>1 DEF SameWait
      <4>2. waits[w].thread \notin apcs
        BY <4>1 DEF IInv, WaitInv, Unalerted, Undecided
      <4> QED  BY <2>1, <3>1, <4>1, <4>2
    <3> QED  BY <1>4, <1>17, <3>1 DEF Unalerted, Undecided
  <2>3. RepliesKept
    BY <1>4 DEF RepliesKept, IInv, WaitInv, FramesTyped
  <2>4. now' \in Nat
    BY <1>1, <1>4
  <2> QED  BY <1>4, <1>17, <2>1, <2>2, <2>3, <2>4, KeptWaits DEF IInv
<1>19. /\ nextInvocation \in Nat /\ nextInvocation' \in Nat
       /\ DOMAIN invocations \subseteq 1 .. nextInvocation
       /\ invocations \in [DOMAIN invocations -> Invocation]
       /\ \A i \in DOMAIN invocations :
             invocations[i].target \in live /\ invocations[i].timer <= nextHandle
  BY <1>5 DEF IInv, QueueInv, QueueTyped
<1>20. \A s \in F : rank[s] \in 1 .. nextInvocation' /\ rank[s] \notin DOMAIN invocations
  BY <1>6a, <1>19
<1>21. ASSUME NEW s \in F
       PROVE  /\ invocations'[rank[s]].target = objects[s].thread
              /\ invocations'[rank[s]].timer = objects[s].id
              /\ invocations'[rank[s]].generation = objects[s].generation
              /\ invocations'[rank[s]] \in Invocation
  <2>1. PICK e : e = [target |-> objects[s].thread, timer |-> objects[s].id,
                      generation |-> objects[s].generation]
    OBVIOUS
  <2>2. e.target = objects[s].thread /\ e.timer = objects[s].id /\ e.generation = objects[s].generation
    BY <2>1
  <2>3. objects[s].thread \in Threads /\ objects[s].id \in Nat /\ objects[s].generation \in Nat
    BY <1>8 DEF IInv, WaitInv, WaitsTyped, TimerKind
  <2>4. e \in Invocation
    BY <2>1, <2>3 DEF Invocation
  <2>5. invocations'[rank[s]] = e
    BY <1>6a, <2>1
  <2> QED  BY <2>2, <2>4, <2>5
<1>22. QueueTyped'
  <2>1. ASSUME NEW i \in DOMAIN invocations'
        PROVE  /\ i \in 1 .. nextInvocation' /\ invocations'[i] \in Invocation
               /\ invocations'[i].target \in live /\ invocations'[i].timer <= nextHandle
    <3>1. CASE i \in DOMAIN invocations
      <4>1. nextInvocation <= nextInvocation'
        BY <1>5, <1>19
      <4> QED  BY <1>6a, <1>19, <3>1, <4>1
    <3>2. CASE i \notin DOMAIN invocations
      <4>1. PICK s \in F : i = rank[s]
        BY <1>6a, <3>2
      <4>2. objects[s].id <= nextHandle
        BY <1>8
      <4> QED  BY <1>8, <1>20, <1>21, <4>1, <4>2
    <3> QED  BY <3>1, <3>2
  <2>2. invocations' \in [DOMAIN invocations' -> Invocation]
    BY <1>6a, <2>1
  <2> QED  BY <1>4, <1>19, <2>1, <2>2 DEF QueueTyped
<1>23. ApcListExact'
  <2>1. apcs = {v \in Threads : Queued(v) # {}}
    BY DEF IInv, QueueInv, ApcListExact
  <2>2. ASSUME NEW v \in Threads
        PROVE  v \in apcs \cup alerted <=> \E i \in DOMAIN invocations' : invocations'[i].target = v
    <3>1. v \in apcs <=> \E i \in DOMAIN invocations : invocations[i].target = v
      BY <2>1 DEF Queued
    <3>2. v \in alerted <=> \E s \in F : objects[s].thread = v
      BY <1>3
    <3>3. ASSUME v \in apcs PROVE \E i \in DOMAIN invocations' : invocations'[i].target = v
      BY <1>6a, <3>1, <3>3
    <3>4. ASSUME v \in alerted PROVE \E i \in DOMAIN invocations' : invocations'[i].target = v
      <4>1. PICK s \in F : objects[s].thread = v
        BY <3>2, <3>4
      <4>2. rank[s] \in DOMAIN invocations'
        BY <1>6a
      <4> QED  BY <1>21, <4>1, <4>2
    <3>5. ASSUME NEW i \in DOMAIN invocations', invocations'[i].target = v
          PROVE  v \in apcs \cup alerted
      <4>1. CASE i \in DOMAIN invocations
        BY <1>6a, <3>1, <3>5, <4>1
      <4>2. CASE i \notin DOMAIN invocations
        <5>1. PICK s \in F : i = rank[s]
          BY <1>6a, <4>2
        <5> QED  BY <1>21, <3>2, <3>5, <5>1
      <4> QED  BY <4>1, <4>2
    <3> QED  BY <3>3, <3>4, <3>5
  <2>3. alerted \subseteq Threads /\ apcs \subseteq Threads
    BY <1>4, <2>1 DEF IInv, WaitInv, WaitsTyped
  <2>4. apcs' = {v \in Threads : \E i \in DOMAIN invocations' : invocations'[i].target = v}
    BY <1>4, <2>2, <2>3
  <2> QED  BY <2>4 DEF ApcListExact, Queued
<1>24. ASSUME NEW s \in Slots PROVE CallbackSound(objects'[s], invocations')
  <2>1. CASE objects'[s].type # "timer"
    BY <2>1 DEF CallbackSound
  <2>2. CASE objects'[s].type = "timer"
    <3>1. objects[s].type = "timer" /\ objects'[s] = a.objects[s]
      <4>1. objects'[s] = q.objects[s]
        BY <1>14, <1>17, <2>2, CommitTimers
      <4>2. objects[s].type = "timer" /\ a.objects[s].type = "timer"
        BY <1>10, <1>14, <2>2, <4>1 DEF SoundPlan
      <4> QED  BY <1>15, <4>1, <4>2
    <3>2. /\ objects'[s].id = objects[s].id /\ objects'[s].thread = objects[s].thread
          /\ objects'[s].generation = objects[s].generation
          /\ objects'[s].queued <=> objects[s].queued \/ s \in F
      BY <1>10, <3>1 DEF SameTimer
    <3>3. CallbackSound(objects[s], invocations)
      BY <3>1, TimerFacts
    <3>4. PICK id : id = objects[s].id
      OBVIOUS
    <3>5. \A k \in F : objects[k].id = id => k = s
      BY <1>5, <1>7, <3>1, <3>4, PlanFacts DEF SoundPlan, TimersDiffer
    <3>6. CASE s \in F
      <4>1. Callbacks(id, invocations) = {}
        BY <1>7, <3>1, <3>3, <3>4, <3>6 DEF CallbackSound
      <4>2. Callbacks(id, invocations') = {rank[s]}
        <5>1. rank[s] \in Callbacks(id, invocations')
          BY <1>6a, <1>21, <3>4, <3>6 DEF Callbacks
        <5>2. ASSUME NEW i \in Callbacks(id, invocations') PROVE i = rank[s]
          <6>1. i \in DOMAIN invocations' /\ invocations'[i].timer = id
            BY DEF Callbacks
          <6>2. i \notin DOMAIN invocations
            BY <1>6a, <4>1, <6>1 DEF Callbacks
          <6>3. PICK k \in F : i = rank[k]
            BY <1>6a, <6>1, <6>2
          <6> QED  BY <1>21, <3>5, <6>1, <6>3
        <5> QED  BY <5>1, <5>2
      <4>3. rank[s] \in DOMAIN invocations'
        BY <1>6a, <3>6
      <4> QED  BY <1>21, <3>1, <3>2, <3>4, <3>6, <4>2, <4>3 DEF CallbackSound
    <3>7. CASE s \notin F
      <4>1. Callbacks(id, invocations') = Callbacks(id, invocations)
        <5>1. ASSUME NEW i \in Callbacks(id, invocations') PROVE i \in Callbacks(id, invocations)
          <6>1. i \in DOMAIN invocations' /\ invocations'[i].timer = id
            BY DEF Callbacks
          <6>2. i \in DOMAIN invocations
            <7>1. SUFFICES ASSUME i \notin DOMAIN invocations PROVE FALSE
              OBVIOUS
            <7>2. PICK k \in F : i = rank[k]
              BY <1>6a, <6>1, <7>1
            <7> QED  BY <1>21, <3>5, <3>7, <6>1, <7>2
          <6> QED  BY <1>6a, <6>1, <6>2 DEF Callbacks
        <5>2. Callbacks(id, invocations) \subseteq Callbacks(id, invocations')
          BY <1>6a DEF Callbacks
        <5> QED  BY <5>1, <5>2
      <4>2. \A i \in Callbacks(id, invocations) :
               i \in DOMAIN invocations' /\ invocations'[i] = invocations[i]
        BY <1>6a DEF Callbacks
      <4>3. \A i \in DOMAIN invocations : i \in DOMAIN invocations'
        BY <1>6a
      <4> QED  BY <3>1, <3>2, <3>3, <3>4, <3>7, <4>1, <4>2, <4>3 DEF CallbackSound
    <3> QED  BY <3>6, <3>7
  <2> QED  BY <2>1, <2>2
<1>25. QueueInv'
  BY <1>22, <1>23, <1>24 DEF QueueInv, CallbacksSound
<1>26. Steady
  <2>1. LoneWaits(b.waits, DOMAIN waits)
    BY <1>12, LoneDecided DEF IInv, Kept
  <2>2. \A k \in DOMAIN waits : MayBecome(waits[k], b.waits[k])
    BY <1>4, <1>12, Unmoved DEF Kept
  <2>3. /\ SettledPlan(q, DOMAIN waits, t)
        /\ \A k \in DOMAIN waits : MayBecome(waits[k], q.waits[k])
    BY <1>12, <1>13, <2>1, <2>2, PassAdvances
  <2> QED  BY <1>4, <1>14, <1>17, <2>3, CommitAdvances
<1> QED  BY <1>16, <1>18, <1>25, <1>26 DEF IInv

(* prepare_thread_exit: what the exit of thread u makes of one object.     *)
Exited(o, u) ==
    CASE o.type = "mutex" /\ o.owner = u ->
            [o EXCEPT !.owner = NoThread, !.depth = 0, !.abandoned = TRUE]
      [] o.type = "thread" /\ o.thread = u -> [o EXCEPT !.terminated = TRUE]
      [] o.type = "timer" /\ o.thread = u /\ o.callback ->
            [o EXCEPT !.due = Never, !.queued = FALSE]
      [] OTHER -> o

Announces(o, u) == \/ o.type = "mutex" /\ o.owner = u
                   \/ o.type = "thread" /\ o.thread = u

(* The object o of slot s, with the signal bits S.                         *)
SoundIn(o, s, S, L) == ObjectSound(o, s \in S, L, nextHandle)

(* The object r is the object o after the exit of u.                       *)
LeftBy(o, r, u) ==
    /\ r.type = o.type
    /\ o.type = "timer" =>
          /\ SameTimer(o, r)
          /\ o.thread = u => ~r.queued
          /\ o.thread # u => r = o

(* An object after the exit of thread u holds nothing of u.                *)
LEMMA ExitedObject ==
    ASSUME NEW o \in ObjectKind, NEW L, NEW u, NEW s, NEW S, NEW B,
           SoundIn(o, s, S, L),
           s \in B <=> s \in S \/ Announces(o, u),
           NEW r, r = Exited(o, u)
    PROVE  r \in ObjectKind /\ SoundIn(r, s, B, L \ {u}) /\ LeftBy(o, r, u)
<1>1. CASE o.type = "mutex" /\ o.owner = u
  <2>1. r = [o EXCEPT !.owner = NoThread, !.depth = 0, !.abandoned = TRUE]
    BY <1>1 DEF Exited
  <2>2. o \in MutexKind
    BY <1>1, Kinds
  <2>3. r = [type |-> "mutex", owner |-> NoThread, depth |-> 0, abandoned |-> TRUE]
    BY <2>1, <2>2 DEF MutexKind
  <2>4. r \in MutexKind
    BY <2>3 DEF MutexKind
  <2>5. s \in B
    BY <1>1 DEF Announces
  <2>6. r \in ObjectKind
    BY <2>4 DEF ObjectKind
  <2> QED  BY <1>1, <2>3, <2>5, <2>6 DEF SoundIn, ObjectSound, MutexSound, LeftBy
<1>2. CASE o.type = "thread" /\ o.thread = u
  <2>1. r = [o EXCEPT !.terminated = TRUE]
    BY <1>2 DEF Exited
  <2>2. o \in ThreadKind
    BY <1>2, Kinds
  <2>3. r = [type |-> "thread", thread |-> o.thread, terminated |-> TRUE]
    BY <2>1, <2>2 DEF ThreadKind
  <2>4. r \in ThreadKind
    BY <2>2, <2>3 DEF ThreadKind
  <2>5. r \in ObjectKind
    BY <2>4 DEF ObjectKind
  <2> QED  BY <1>2, <2>3, <2>5 DEF SoundIn, ObjectSound, LeftBy
<1>3. CASE o.type = "timer" /\ o.thread = u /\ o.callback
  <2>1. r = [o EXCEPT !.due = Never, !.queued = FALSE]
    BY <1>3 DEF Exited
  <2>2. o \in TimerKind
    BY <1>3, Kinds
  <2>3. r = [type |-> "timer", manual |-> o.manual, id |-> o.id, due |-> Never,
             period |-> o.period, thread |-> o.thread, callback |-> o.callback,
             generation |-> o.generation, queued |-> FALSE]
    BY <2>1, <2>2 DEF TimerKind
  <2>4. r \in TimerKind
    BY <2>2, <2>3 DEF TimerKind
  <2>5. r \in ObjectKind
    BY <2>4 DEF ObjectKind
  <2>6. /\ r.type = "timer" /\ r.id = o.id /\ r.thread = o.thread /\ r.due = Never
        /\ r.generation = o.generation /\ r.callback = o.callback /\ r.queued = FALSE
        /\ r.manual = o.manual
    BY <2>3
  <2> QED  BY <1>3, <2>5, <2>6 DEF SoundIn, ObjectSound, SameTimer, LeftBy
<1>4. CASE /\ ~(o.type = "mutex" /\ o.owner = u)
           /\ ~(o.type = "thread" /\ o.thread = u)
           /\ ~(o.type = "timer" /\ o.thread = u /\ o.callback)
  <2>1. r = o
    BY <1>4 DEF Exited
  <2>2. s \in B <=> s \in S
    BY <1>4 DEF Announces
  <2>3. ASSUME o.type = "timer", o.thread = u PROVE ~o.queued
    BY <1>4, <2>3 DEF SoundIn, ObjectSound, LeftBy
  <2>4. SoundIn(o, s, B, L \ {u})
    BY <1>4, <2>2 DEF SoundIn, ObjectSound, MutexSound, LeftBy
  <2> QED  BY <2>1, <2>2, <2>3, <2>4 DEF SameTimer, LeftBy
<1> QED  BY <1>1, <1>2, <1>3, <1>4

(* prepare_thread_exit keeps a plan sound for the threads that are left.   *)
LEMMA SoundExit ==
    ASSUME NEW D, NEW L, NEW p, SoundPlan(p, D, L), NEW u, WaitsFit(p.waits, D, L \ {u})
    PROVE  /\ SoundPlan(ExitThreadObjects(p, u), D, L \ {u})
           /\ ExitThreadObjects(p, u).waits = p.waits
           /\ \A s \in Slots : p.objects[s].type = "timer" =>
                 /\ SameTimer(p.objects[s], ExitThreadObjects(p, u).objects[s])
                 /\ p.objects[s].thread = u => ~ExitThreadObjects(p, u).objects[s].queued
                 /\ p.objects[s].thread # u =>
                        ExitThreadObjects(p, u).objects[s] = p.objects[s]
<1> DEFINE O == [s \in Slots |-> Exited(p.objects[s], u)]
           B == p.signaled \cup {s \in Slots : Announces(p.objects[s], u)}
<1>1. p \in Plans(D)
  BY DEF SoundPlan
<1>2. PICK q : q = ExitThreadObjects(p, u)
  OBVIOUS
<1>3. q = [objects |-> O, signaled |-> B, waits |-> p.waits]
  <2>1. q = [p EXCEPT !.objects = O, !.signaled = B]
    BY <1>2 DEF ExitThreadObjects, Exited, Announces
  <2> HIDE DEF O, B
  <2> QED  BY <1>1, <2>1 DEF Plans
<1>4. ASSUME NEW s \in Slots
      PROVE  /\ O[s] \in ObjectKind /\ O[s].type = p.objects[s].type
             /\ ObjectSound(O[s], s \in B, L \ {u}, nextHandle)
             /\ p.objects[s].type = "timer" =>
                   /\ SameTimer(p.objects[s], O[s])
                   /\ p.objects[s].thread = u => ~O[s].queued
                   /\ p.objects[s].thread # u => O[s] = p.objects[s]
  <2>1. PICK o \in ObjectKind : o = p.objects[s]
    BY <1>1, PlanParts
  <2>4. s \in B <=> s \in p.signaled \/ Announces(o, u)
    BY <2>1
  <2>5. ObjectSound(o, s \in p.signaled, L, nextHandle)
    BY <2>1 DEF SoundPlan, ObjectsSound
  <2>6. PICK r : r = Exited(o, u)
    OBVIOUS
  <2>7. O[s] = r
    BY <2>1, <2>6
  <2> HIDE DEF O, B
  <2>2. PICK S : S = p.signaled
    OBVIOUS
  <2>3. PICK C : C = B
    OBVIOUS
  <2>9. SoundIn(o, s, S, L) /\ (s \in C <=> s \in S \/ Announces(o, u))
    BY <2>2, <2>3, <2>4, <2>5 DEF SoundIn
  <2>8. r \in ObjectKind /\ SoundIn(r, s, C, L \ {u}) /\ LeftBy(o, r, u)
    BY <2>6, <2>9, ExitedObject
  <2> QED  BY <2>1, <2>3, <2>7, <2>8 DEF SoundIn, LeftBy
<1>5. O \in [Slots -> ObjectKind] /\ B \subseteq Slots
  <2>1. p.signaled \subseteq Slots
    BY <1>1, PlanParts
  <2> QED  BY <1>4, <2>1
<1> HIDE DEF O, B
<1>6. q.objects = O /\ q.signaled = B /\ q.waits = p.waits /\ q \in Plans(D)
  BY <1>1, <1>3, <1>5, PlanParts DEF Plans
<1>7. SoundPlan(q, D, L \ {u})
  <2>1. TimersDiffer(p)
    BY DEF SoundPlan
  <2>2. TimersDiffer(q)
    BY <1>4, <1>6, <2>1 DEF TimersDiffer, SameTimer
  <2>3. ObjectsSound(q, L \ {u}, nextHandle)
    BY <1>4, <1>6 DEF ObjectsSound
  <2>4. \A s \in Slots : q.objects[s].type = objects[s].type
    BY <1>4, <1>6 DEF SoundPlan
  <2>5. WaitsFit(q.waits, D, L \ {u})
    BY <1>6
  <2> QED  BY <1>6, <2>2, <2>3, <2>4, <2>5 DEF SoundPlan
<1> QED  BY <1>2, <1>4, <1>6, <1>7

(* cancel_thread and the calls of the threads that go on.                  *)
LEMMA ExitWaits ==
    ASSUME WaitInv, NEW u \in Threads,
           NEW D, D = {k \in DOMAIN waits : waits[k].thread # u},
           waits' \in [D -> WaitRecord], Kept(waits, waits', D),
           WaitsFit(waits', D, live \ {u}),
           reply' = [reply EXCEPT ![u] = NoReply], active' = [active EXCEPT ![u] = <<>>],
           live' = live \ {u}, apcs' \subseteq apcs, UNCHANGED <<nextWait, now>>
    PROVE  WaitInv'
<1>1. DOMAIN waits' = D /\ D \subseteq DOMAIN waits
  OBVIOUS
<1>2. WaitsTyped'
  BY <1>1 DEF WaitInv, WaitsTyped
<1>3. reply \in [Threads -> Reply] /\ active \in [Threads -> Seq(Reply)]
  BY DEF WaitInv, FramesTyped
<1>4. NoReply \in Reply /\ NoReply.wait = 0 /\ <<>> \in Seq(Reply)
  BY DEF NoReply, Reply, Results
<1>5. FramesTyped'
  BY <1>3, <1>4 DEF FramesTyped
<1>6. WaitsFit(waits, DOMAIN waits, live)'
  BY <1>1
<1>7. ASSUME NEW v \in Threads PROVE ThreadHolds(v, reply'[v], active'[v], waits')
  <2>1. CASE v = u
    <3>1. reply'[v] = NoReply /\ active'[v] = <<>>
      BY <1>3, <2>1
    <3> QED  BY <1>4, <3>1 DEF ThreadHolds, FrameHolds
  <2>2. CASE v # u
    <3>1. reply'[v] = reply[v] /\ active'[v] = active[v]
      BY <1>3, <2>2
    <3>2. ThreadHolds(v, reply[v], active[v], waits)
      BY DEF WaitInv, FramesHold
    <3>3. \A k \in DOMAIN waits : waits[k].thread = v => k \in D
      BY <2>2
    <3>4. \A f : FrameHolds(f, v, waits) => FrameHolds(f, v, waits')
      BY <1>1, <3>3 DEF FrameHolds, Kept, SameWait
    <3>5. ASSUME NEW i \in DOMAIN active[v], active[v][i].wait # 0
          PROVE  waits'[active[v][i].wait].result # Pending
      <4>1. PICK k : k = active[v][i].wait
        OBVIOUS
      <4>2. k \in DOMAIN waits /\ waits[k].thread = v /\ waits[k].result # Pending
        BY <3>2, <3>5, <4>1 DEF ThreadHolds, FrameHolds
      <4> QED  BY <3>3, <4>1, <4>2 DEF Kept
    <3> QED  BY <3>1, <3>2, <3>4, <3>5 DEF ThreadHolds
  <2> QED  BY <2>1, <2>2
<1>8. WaitsTaken'
  <2>1. ASSUME NEW w \in D
        PROVE  Takes(reply'[waits'[w].thread], active'[waits'[w].thread], w)
    <3>1. PICK v \in Threads : v = waits[w].thread /\ waits'[w].thread = v
      BY WaitParts DEF WaitInv, WaitsTyped, Kept, SameWait
    <3>2. v # u /\ reply'[v] = reply[v] /\ active'[v] = active[v]
      BY <1>3, <3>1
    <3>3. Takes(reply[v], active[v], w)
      BY <3>1 DEF WaitInv, WaitsTaken
    <3> QED  BY <3>1, <3>2, <3>3
  <2> QED  BY <1>1, <2>1 DEF WaitsTaken
<1>9. Unalerted'
  <2>1. ASSUME NEW w \in D, waits'[w].result = Pending, waits'[w].alertable
        PROVE  waits'[w].thread \notin apcs
    BY <1>1, <2>1 DEF WaitInv, Unalerted, Undecided, Kept, SameWait
  <2> QED  BY <1>1, <2>1 DEF Unalerted, Undecided
<1> QED  BY <1>2, <1>5, <1>6, <1>7, <1>8, <1>9 DEF WaitInv, FramesHold

(* terminate_windows_thread                                                *)
LEMMA TerminateThreadKeeps ==
    ASSUME IInv, NEW t \in Threads, NEW u \in Threads, TerminateThread(t, u)
    PROVE  IInv' /\ Steady
<1>1. /\ Commit(ResolveWaiters(ExitThreadObjects(DropThread(Plan, u), u), nextWait, now))
      /\ apcs' = apcs \ {u}
      /\ invocations' = [i \in DOMAIN invocations \ Queued(u) |-> invocations[i]]
      /\ active' = [active EXCEPT ![u] = <<>>]
      /\ reply' = [reply EXCEPT ![u] = NoReply]
      /\ live' = live \ {u}
      /\ UNCHANGED <<refs, handles, nextHandle, nextWait, now, nextInvocation>>
  BY DEF TerminateThread
<1>2. PICK D : D = {k \in DOMAIN waits : waits[k].thread # u}
  OBVIOUS
<1>3. PICK V : V = [k \in D |-> waits[k]]
  OBVIOUS
<1>4. V \in [D -> WaitRecord] /\ \A k \in D : V[k] = waits[k]
  BY <1>2, <1>3 DEF IInv, WaitInv, WaitsTyped
<1>5. WaitsFit(V, D, live) /\ WaitsFit(V, D, live \ {u})
  BY <1>2, <1>4 DEF IInv, WaitInv, WaitsFit
<1>6. PICK a : a = DropThread(Plan, u)
  OBVIOUS
<1>7. a = [Plan EXCEPT !.waits = V]
  BY <1>2, <1>3, <1>6 DEF DropThread, Plan
<1>8. SoundPlan(a, D, live) /\ a.waits = V /\ a.objects = objects
  <2>1. SoundPlan(a, D, live)
    BY <1>4, <1>5, <1>7, PlanFacts, SoundTable
  <2> QED  BY <1>7, <2>1 DEF Plan
<1>9. PICK b : b = ExitThreadObjects(a, u)
  OBVIOUS
<1>10. /\ SoundPlan(b, D, live \ {u}) /\ b.waits = V
       /\ \A s \in Slots : objects[s].type = "timer" =>
             /\ SameTimer(objects[s], b.objects[s])
             /\ objects[s].thread = u => ~b.objects[s].queued
             /\ objects[s].thread # u => b.objects[s] = objects[s]
  BY <1>5, <1>8, <1>9, SoundExit
<1>11. PICK q : q = ResolveWaiters(b, nextWait, now)
  OBVIOUS
<1>12. Commit(q) /\ SoundPlan(q, D, live \ {u}) /\ Resolved(b, q, D)
  BY <1>1, <1>6, <1>9, <1>10, <1>11, SoundWaiters, NowNat
<1>13. /\ Kept(V, q.waits, D)
       /\ \A s \in Slots : b.objects[s].type = "timer" => q.objects[s] = b.objects[s]
  BY <1>10, <1>12, ResolvedKeeps
<1>14. ObjectInv'
  BY <1>1, <1>12, CommitKeepsObjects DEF IInv
<1>15. /\ waits' = q.waits /\ waits' \in [D -> WaitRecord] /\ q.signaled \subseteq Slots
       /\ WaitsFit(q.waits, D, live \ {u})
  BY <1>12, PlanParts DEF Commit, SoundPlan
<1>16. WaitInv'
  <2>1. Kept(waits, waits', D)
    BY <1>4, <1>13, <1>15 DEF Kept
  <2>2. apcs' \subseteq apcs
    BY <1>1
  <2> QED  BY <1>1, <1>2, <1>15, <2>1, <2>2, ExitWaits DEF IInv
<1>17. /\ DOMAIN invocations' = DOMAIN invocations \ Queued(u)
       /\ \A i \in DOMAIN invocations \ Queued(u) : invocations'[i] = invocations[i]
  BY <1>1
<1>18. QueueTyped'
  <2>1. ASSUME NEW i \in DOMAIN invocations'
        PROVE  /\ i \in 1 .. nextInvocation /\ invocations'[i] \in Invocation
               /\ invocations'[i].target \in live \ {u} /\ invocations'[i].timer <= nextHandle
    BY <1>17 DEF IInv, QueueInv, QueueTyped, Queued
  <2>2. invocations' \in [DOMAIN invocations' -> Invocation]
    BY <1>1, <2>1
  <2> QED  BY <1>1, <2>1, <2>2 DEF IInv, QueueInv, QueueTyped
<1>19. ApcListExact'
  <2>1. \A v \in Threads : Queued(v)' = IF v = u THEN {} ELSE Queued(v)
    BY <1>17 DEF Queued
  <2>2. apcs = {v \in Threads : Queued(v) # {}}
    BY DEF IInv, QueueInv, ApcListExact
  <2>3. apcs' = {v \in Threads : Queued(v)' # {}}
    BY <1>1, <2>1, <2>2
  <2> QED  BY <2>3 DEF ApcListExact
<1>20. ASSUME NEW s \in Slots PROVE CallbackSound(objects'[s], invocations')
  <2>1. CASE objects'[s].type # "timer"
    BY <2>1 DEF CallbackSound
  <2>2. CASE objects'[s].type = "timer"
    <3>1. objects[s].type = "timer" /\ objects'[s] = b.objects[s]
      <4>1. objects'[s] = q.objects[s]
        BY <1>12, <1>15, <2>2, CommitTimers
      <4>2. objects[s].type = "timer" /\ b.objects[s].type = "timer"
        BY <1>10, <1>12, <2>2, <4>1 DEF SoundPlan
      <4> QED  BY <1>13, <4>1, <4>2
    <3>2. CallbackSound(objects[s], invocations)
      BY <3>1, TimerFacts
    <3>3. PICK id : id = objects[s].id
      OBVIOUS
    <3>4. \A i \in Callbacks(id, invocations) : invocations[i].target = objects[s].thread
      BY <3>1, <3>2, <3>3 DEF CallbackSound
    <3>5. Callbacks(id, invocations') = Callbacks(id, invocations) \ Queued(u)
      BY <1>17 DEF Callbacks
    <3>6. CASE objects[s].thread = u
      <4>1. Callbacks(id, invocations) \subseteq Queued(u)
        BY <3>4, <3>6 DEF Callbacks, Queued
      <4>2. objects'[s].id = id /\ ~objects'[s].queued
        BY <1>10, <3>1, <3>3, <3>6 DEF SameTimer
      <4>3. Callbacks(objects'[s].id, invocations') = {}
        BY <3>5, <4>1, <4>2
      <4> QED  BY <4>2, <4>3 DEF CallbackSound
    <3>7. CASE objects[s].thread # u
      <4>1. objects'[s] = objects[s]
        BY <1>10, <3>1, <3>7
      <4>2. \A i \in Callbacks(id, invocations) : i \notin Queued(u)
        BY <3>4, <3>7 DEF Queued
      <4>3. Callbacks(id, invocations') = Callbacks(id, invocations)
        BY <3>5, <4>2
      <4>4. \A i \in Callbacks(id, invocations) :
               i \in DOMAIN invocations' /\ invocations'[i] = invocations[i]
        BY <1>17, <4>2 DEF Callbacks
      <4> QED  BY <3>2, <3>3, <4>1, <4>3, <4>4 DEF CallbackSound
    <3> QED  BY <3>6, <3>7
  <2> QED  BY <2>1, <2>2
<1>21. QueueInv'
  BY <1>18, <1>19, <1>20 DEF QueueInv, CallbacksSound
<1>22. Steady
  <2>1. D \subseteq DOMAIN waits
    BY <1>2
  <2>2. \A k \in D : b.waits[k] = waits[k]
    BY <1>4, <1>10
  <2>3. LoneWaits(b.waits, D)
    BY <2>1, <2>2, LoneDecided DEF IInv, SameWait
  <2>4. \A k \in D : MayBecome(waits[k], b.waits[k])
    BY <2>2, Unmoved
  <2>5. /\ q \in Plans(D) /\ SettledPlan(q, D, now)
        /\ \A k \in D : MayBecome(waits[k], q.waits[k])
    BY <1>10, <1>11, <2>1, <2>3, <2>4, PassAdvances
  <2> QED  BY <1>1, <1>12, <2>1, <2>5, CommitAdvances
<1> QED  BY <1>14, <1>16, <1>21, <1>22 DEF IInv

(* The invariant holds before the program has done anything.               *)
LEMMA InitSound == Init => IInv
<1> SUFFICES ASSUME Init PROVE IInv
  OBVIOUS
<1>1. /\ objects = [s \in Slots |-> Free] /\ signaled = {} /\ refs = [s \in Slots |-> 0]
      /\ DOMAIN handles = {} /\ nextHandle = 0 /\ DOMAIN waits = {} /\ nextWait = 0
      /\ apcs = {} /\ now = 0 /\ DOMAIN invocations = {} /\ nextInvocation = 0
      /\ active = [t \in Threads |-> <<>>] /\ reply = [t \in Threads |-> NoReply]
      /\ live = Threads
  BY DEF Init
<1>2. Free \in ObjectKind /\ Free.type = "free"
  BY DEF ObjectKind, Free
<1>3. \A s \in Slots : Names(s) = {}
  BY <1>1 DEF Names
<1>4. ObjectInv
  <2>1. ObjectsTyped /\ HandlesTyped
    <3>1. handles = [h \in {} |-> 1]
      BY DEF Init
    <3> QED  BY <1>1, <1>2, <3>1 DEF ObjectsTyped, HandlesTyped
  <2>2. HandlesCounted
    BY <1>1, <1>3, FS_EmptySet DEF HandlesCounted
  <2>3. SlotsUsed
    BY <1>1, <1>2 DEF SlotsUsed, Reclaimable
  <2>4. ObjectsSound(Plan, live, nextHandle) /\ TimersDiffer(Plan)
    BY <1>1, <1>2 DEF ObjectsSound, TimersDiffer, ObjectSound, Plan
  <2> QED  BY <2>1, <2>2, <2>3, <2>4 DEF ObjectInv
<1>5. WaitInv
  <2>1. waits \in [DOMAIN waits -> WaitRecord]
    <3>1. waits = [w \in {} |-> 1]
      BY DEF Init
    <3> QED  BY <3>1
  <2>2. WaitsTyped
    BY <1>1, <2>1 DEF WaitsTyped
  <2>3. NoReply \in Reply /\ NoReply.wait = 0
    BY DEF NoReply, Reply, Results
  <2>4. FramesTyped
    BY <1>1, <2>3 DEF FramesTyped
  <2>5. FramesHold
    BY <1>1, <2>3 DEF FramesHold, ThreadHolds, FrameHolds
  <2>6. WaitsFit(waits, DOMAIN waits, live) /\ WaitsTaken /\ Unalerted
    BY <1>1 DEF WaitsFit, WaitsTaken, Unalerted, Undecided
  <2> QED  BY <2>2, <2>4, <2>5, <2>6 DEF WaitInv
<1>6. QueueInv
  <2>1. invocations \in [DOMAIN invocations -> Invocation]
    <3>1. invocations = [i \in {} |-> 1]
      BY DEF Init
    <3> QED  BY <3>1
  <2>2. QueueTyped
    BY <1>1, <2>1 DEF QueueTyped
  <2>3. ApcListExact
    BY <1>1 DEF ApcListExact, Queued
  <2>4. CallbacksSound(objects, invocations)
    BY <1>1, <1>2 DEF CallbacksSound, CallbackSound
  <2> QED  BY <2>2, <2>3, <2>4 DEF QueueInv
<1> QED  BY <1>4, <1>5, <1>6 DEF IInv

(* Everything that a thread of the guest program calls.                    *)
LEMMA GuestKeeps ==
    ASSUME IInv, NEW t \in Threads, NEW usable \in SUBSET DOMAIN handles, Guest(t, usable)
    PROVE  IInv' /\ Steady
<1>1. CASE CreateEvent(t)
  BY <1>1, CreateEventKeeps
<1>2. CASE CreateMutex(t)
  <2>1. t \in live /\ \E initial \in BOOLEAN :
           Create([type |-> "mutex", owner |-> IF initial THEN t ELSE NoThread,
                   depth |-> IF initial THEN 1 ELSE 0, abandoned |-> FALSE], ~initial)
    BY <1>2 DEF CreateMutex, Call, Running
  <2> QED  BY <2>1, CreateMutexKeeps
<1>3. CASE CreateSemaphore(t)
  BY <1>3, CreateSemaphoreKeeps
<1>4. CASE CreateWaitableTimer(t)
  BY <1>4, CreateTimerKeeps
<1>5. ASSUME NEW target \in Threads,
             OpenThread(t, target) \/ QueueUserAPC(t, target) \/ TerminateThread(t, target)
      PROVE  IInv' /\ Steady
  BY <1>5, OpenThreadKeeps, QueueUserAPCKeeps, TerminateThreadKeeps
<1>6. ASSUME NEW h \in usable,
             \/ DuplicateHandle(t, h) \/ CloseHandle(t, h)
             \/ SetEvent(t, h) \/ ResetEvent(t, h) \/ PulseEvent(t, h) \/ ReleaseMutex(t, h)
             \/ CancelWaitableTimer(t, h)
      PROVE  IInv' /\ Steady
  <2>1. h \in DOMAIN handles
    OBVIOUS
  <2>2. CASE CloseHandle(t, h)
    BY <2>1, <2>2, CloseKeeps DEF CloseHandle, Call, HandlesStay, NoClose
  <2>3. CASE ReleaseMutex(t, h)
    BY <2>1, <2>3, ReleaseKeeps DEF ReleaseMutex
  <2>4. CASE CancelWaitableTimer(t, h)
    BY <2>1, <2>4, CancelSets, TimerSetKeeps
  <2>5. CASE DuplicateHandle(t, h) \/ SetEvent(t, h) \/ ResetEvent(t, h) \/ PulseEvent(t, h)
    BY <2>1, <2>5, DuplicateKeeps, SetEventKeeps, ResetEventKeeps, PulseEventKeeps
  <2> QED  BY <1>6, <2>2, <2>3, <2>4, <2>5
<1>7. ASSUME NEW h \in usable, NEW count \in 1 .. MaxCount, ReleaseSemaphore(t, h, count)
      PROVE  IInv' /\ Steady
  <2>1. h \in DOMAIN handles
    OBVIOUS
  <2> QED  BY <1>7, <2>1, ReleaseSemaphoreKeeps
<1>8. ASSUME NEW h \in usable, NEW awaited \in usable, SignalObjectAndWait(t, h, awaited)
      PROVE  IInv' /\ Steady
  <2>1. h \in DOMAIN handles /\ awaited \in DOMAIN handles
    OBVIOUS
  <2> QED  BY <1>8, <2>1, SignalObjectAndWaitKeeps
<1>9. ASSUME NEW h \in usable, NEW delay \in Delays, NEW period \in {0, 1},
             NEW callback \in BOOLEAN, SetWaitableTimer(t, h, delay, period, callback)
      PROVE  IInv' /\ Steady
  <2>1. h \in DOMAIN handles /\ delay \in Nat /\ period \in Nat
    BY BoundsAssumption
  <2> QED  BY <1>9, <2>1, SetSets, TimerSetKeeps
<1>10. CASE WaitForObjects(t, usable)
  BY <1>10, WaitForObjectsKeeps
<1>11. CASE Sleep(t)
  BY <1>11, SleepKeeps
<1> QED  BY <1>1, <1>2, <1>3, <1>4, <1>5, <1>6, <1>7, <1>8, <1>9, <1>10, <1>11 DEF Guest

(* What the host does, and the ends of calls.                              *)
LEMMA HostKeeps ==
    ASSUME IInv, NEW t \in Threads,
           FinishReply(t) \/ CancelWait(t) \/ DeliverApc(t) \/ ReturnApc(t)
    PROVE  IInv' /\ Steady
<1>1. CASE FinishReply(t) \/ CancelWait(t)
  <2>1. /\ waits' = Forget(reply[t].wait) /\ reply' = [reply EXCEPT ![t] = NoReply]
        /\ UNCHANGED <<objects, signaled, refs, handles, nextHandle, nextWait, apcs, now,
                       queue, live>>
    BY <1>1 DEF FinishReply, CancelWait
  <2> QED  BY <2>1, ForgetKeeps
<1> QED  BY <1>1, DeliverApcKeeps, ReturnApcKeeps

(* A step that leaves every variable alone.                                *)
LEMMA StutterKeeps == ASSUME IInv, UNCHANGED vars PROVE IInv' /\ Steady
<1>1. UNCHANGED <<objects, signaled, refs, handles, nextHandle, waits, nextWait, apcs, now,
                  invocations, nextInvocation, active, reply, live>>
  BY DEF vars, context, queue
<1>2. ObjectInv'
  BY <1>1 DEF IInv, ObjectInv, ObjectsTyped, HandlesTyped, HandlesCounted, Names, SlotsUsed,
         ObjectsSound, TimersDiffer, Plan
<1>3. WaitInv'
  BY <1>1 DEF IInv, WaitInv, WaitsTyped, FramesTyped, FramesHold, WaitsTaken, Unalerted,
         Undecided
<1>4. QueueInv'
  BY <1>1 DEF IInv, QueueInv, QueueTyped, ApcListExact, Queued
<1>5. Steady
  <2>1. HandlesGrow
    BY <1>1 DEF HandlesGrow
  <2>2. waits \in [DOMAIN waits -> WaitRecord]
    BY DEF IInv, WaitInv, WaitsTyped
  <2>3. \A w \in DOMAIN waits' : /\ MayBecome(waits[w], waits'[w])
                                 /\ waits'[w].result = Pending => waits[w].result = Pending
    BY <1>1, Unmoved
  <2> QED  BY <1>1, <2>1, <2>2, <2>3, WaitsAlone
<1> QED  BY <1>2, <1>3, <1>4, <1>5 DEF IInv

(* Every step keeps the invariant.                                         *)
LEMMA NextSound == IInv /\ [Next]_vars => IInv' /\ Steady
<1> SUFFICES ASSUME IInv, [Next]_vars PROVE IInv' /\ Steady
  OBVIOUS
<1>1. ASSUME NEW t \in Threads, Guest(t, DOMAIN handles) PROVE IInv' /\ Steady
  BY <1>1, GuestKeeps
<1>2. ASSUME NEW t \in Threads,
             FinishReply(t) \/ CancelWait(t) \/ DeliverApc(t) \/ ReturnApc(t)
      PROVE  IInv' /\ Steady
  BY <1>2, HostKeeps
<1>3. ASSUME NEW t \in now .. Horizon, Tick(t) PROVE IInv' /\ Steady
  BY <1>3, TickKeeps
<1>4. CASE UNCHANGED vars
  BY <1>4, StutterKeeps
<1> QED  BY <1>1, <1>2, <1>3, <1>4 DEF Next

(* The inductive invariant of the dispatcher.                              *)
THEOREM DispatcherSound == Spec => []IInv
<1>1. IInv /\ [Next]_vars => IInv'
  BY NextSound
<1> QED  BY <1>1, InitSound, PTL DEF Spec

(* Every part of the dispatcher's state keeps its type.                    *)
THEOREM TypeCorrect == Spec => []TypeOK
<1>1. IInv => TypeOK
  BY DEF IInv, ObjectInv, ObjectsTyped, HandlesTyped, WaitInv, WaitsTyped, FramesTyped,
         QueueInv, QueueTyped, ApcListExact, TypeOK
<1> QED  BY <1>1, DispatcherSound, PTL

(* What the invariant says of mutexes.                                     *)
LEMMA CoherentMutexes == ASSUME IInv PROVE MutexCoherent
<1>1. ASSUME NEW s \in Slots, objects[s].type = "mutex"
      PROVE  MutexSound(objects[s], s \in signaled, live)
  BY <1>1 DEF IInv, ObjectInv, ObjectsSound, ObjectSound, Plan
<1> QED  BY <1>1 DEF MutexCoherent, MutexSound

(* The encodings of a mutex agree, after any mix of calls, grants and      *)
(* thread exits.                                                           *)
THEOREM MutexesAreCoherent == Spec => []MutexCoherent
<1>1. IInv => MutexCoherent
  BY CoherentMutexes
<1> QED  BY <1>1, DispatcherSound, PTL

(* What the invariant says of the counts of handles.                       *)
LEMMA ExactHandles == ASSUME IInv PROVE HandlesExact
BY DEF IInv, ObjectInv, HandlesCounted, SlotsUsed, Names, ObjectsSound, ObjectSound, Plan,
       HandlesExact

(* Each slot counts its open handles, and is in use exactly as long as     *)
(* there is a reason for it.                                               *)
THEOREM HandlesAreExact == Spec => []HandlesExact
<1>1. IInv => HandlesExact
  BY ExactHandles
<1> QED  BY <1>1, DispatcherSound, PTL

(* What the invariant says of terminated threads and of callers.           *)
LEMMA CleanExits == ASSUME IInv PROVE ExitsAreClean
<1>1. ASSUME IInv PROVE DeadThreadsOwnNothing
  <2>1. ASSUME NEW t \in Threads \ live
        PROVE  /\ \A w \in DOMAIN waits : waits[w].thread # t
               /\ Queued(t) = {} /\ t \notin apcs
    <3>1. \A w \in DOMAIN waits : waits[w].thread # t
      BY <1>1 DEF IInv, WaitInv, WaitsFit
    <3>2. Queued(t) = {}
      BY <1>1 DEF IInv, QueueInv, QueueTyped, Queued
    <3> QED  BY <1>1, <3>1, <3>2 DEF IInv, QueueInv, ApcListExact
  <2>2. ASSUME NEW t \in Threads \ live, NEW s \in Slots
        PROVE  /\ objects[s].type = "mutex" => objects[s].owner # t
               /\ objects[s].type = "timer" /\ objects[s].thread = t
                    /\ objects[s].callback => objects[s].due = Never
               /\ objects[s].type = "thread" /\ objects[s].thread = t
                    => objects[s].terminated
    <3>1. ObjectSound(objects[s], s \in signaled, live, nextHandle)
      BY <1>1 DEF IInv, ObjectInv, ObjectsSound, Plan
    <3> QED  BY <3>1, NoThreadAssumption DEF ObjectSound, MutexSound
  <2> QED  BY <2>1, <2>2 DEF DeadThreadsOwnNothing
<1>2. ASSUME IInv PROVE WaitsHaveCallers
  <2> DEFINE Frames(t) == {reply[t]} \cup {active[t][i] : i \in DOMAIN active[t]}
  <2>1. ASSUME NEW t \in Threads, NEW f \in Frames(t), f.wait # 0
        PROVE  f.wait \in DOMAIN waits /\ waits[f.wait].thread = t
    <3>1. ThreadHolds(t, reply[t], active[t], waits)
      BY <1>2 DEF IInv, WaitInv, FramesHold
    <3>2. FrameHolds(f, t, waits)
      BY <3>1 DEF ThreadHolds
    <3> QED  BY <2>1, <3>2 DEF FrameHolds
  <2>2. ASSUME NEW w \in DOMAIN waits PROVE \E f \in Frames(waits[w].thread) : f.wait = w
    <3>1. Takes(reply[waits[w].thread], active[waits[w].thread], w)
      BY <1>2 DEF IInv, WaitInv, WaitsTaken
    <3> QED  BY <3>1 DEF Takes
  <2> QED  BY <2>1, <2>2 DEF WaitsHaveCallers
<1> QED  BY <1>1, <1>2 DEF ExitsAreClean

(* A terminated thread leaves nothing behind, and every wait in the table  *)
(* has its caller.                                                         *)
THEOREM ExitsLeaveNothing == Spec => []ExitsAreClean
<1>1. IInv => ExitsAreClean
  BY CleanExits
<1> QED  BY <1>1, DispatcherSound, PTL

(* The three lists that know of a queued callback agree.                   *)
THEOREM CallbacksStayExact == Spec => []CallbacksAreExact
<1>1. ASSUME IInv, NEW s \in Slots, objects[s].type = "timer"
      PROVE  /\ Cardinality(Callbacks(objects[s].id, invocations))
                   = IF objects[s].queued THEN 1 ELSE 0
             /\ \A i \in Callbacks(objects[s].id, invocations) :
                   /\ invocations[i].generation = objects[s].generation
                   /\ invocations[i].target = objects[s].thread
  <2>1. CallbackSound(objects[s], invocations)
    BY <1>1, TimerFacts
  <2>2. PICK C : C = Callbacks(objects[s].id, invocations)
    OBVIOUS
  <2>3. (objects[s].queued => \E i : C = {i}) /\ (~objects[s].queued => C = {})
    BY <1>1, <2>1, <2>2 DEF CallbackSound
  <2>4. Cardinality(C) = IF objects[s].queued THEN 1 ELSE 0
    BY <2>3, FS_Singleton, FS_EmptySet
  <2> QED  BY <1>1, <2>1, <2>2, <2>4 DEF CallbackSound
<1>2. IInv => TimerCallbackExact
  BY <1>1 DEF TimerCallbackExact, Callbacks
<1>3. IInv => ApcListExact
  BY DEF IInv, QueueInv
<1> QED  BY <1>2, <1>3, DispatcherSound, PTL DEF CallbacksAreExact

(* A result is final, but for a cancelled timer that takes its callback    *)
(* back.                                                                   *)
THEOREM DecidedWaitsAreFinal == Spec => DecidedWaitsKeepTheirResult
<1> DEFINE Final == \A w \in DOMAIN waits \ Undecided :
                       w \in DOMAIN waits' /\ waits'[w].result # waits[w].result
                          => /\ waits[w].result = IoCompletion
                             /\ waits[w].thread \notin apcs'
<1>1. ASSUME IInv, [Next]_vars PROVE Final
  <2>1. WaitsAdvance
    BY <1>1, NextSound DEF Steady
  <2>2. ASSUME NEW w \in DOMAIN waits \ Undecided, w \in DOMAIN waits',
               waits'[w].result # waits[w].result
        PROVE  waits[w].result = IoCompletion /\ waits[w].thread \notin apcs'
    <3>1. MayBecome(waits[w], waits'[w])
      BY <2>1, <2>2 DEF WaitsAdvance
    <3>2. waits[w].result # Pending
      BY <2>2 DEF Undecided
    <3> QED  BY <2>2, <3>1, <3>2 DEF MayBecome
  <2> QED  BY <2>2
<1>2. IInv /\ [Next]_vars => [Final]_vars
  BY <1>1
<1> HIDE DEF Final
<1>3. Spec => [][Final]_vars
  BY <1>2, DispatcherSound, PTL DEF Spec
<1> QED  BY <1>3 DEF DecidedWaitsKeepTheirResult, Final

(* What is undecided stays so: while no timer is set anew, or no handle is *)
(* closed, every wait is settled and its handles are open.  A cancelled    *)
(* timer would make a decided wait undecided again, whose handle may have  *)
(* been closed in the meantime.                                            *)
THEOREM WaitsStaySettled == ASSUME NoRetime \/ NoClose PROVE Spec => []NInv
<1>1. Init => NInv
  BY DEF Init, NInv, HandlesHeld, AllSettled, SettledPlan
<1>2. IInv /\ NInv /\ [Next]_vars => NInv'
  BY NextSound DEF Steady
<1> QED  BY <1>1, <1>2, DispatcherSound, PTL DEF Spec

(* What the two invariants say of undecided waits.                         *)
LEMMA SettledIsAwake == ASSUME IInv, NInv PROVE NoLostWakeup
<1>1. ASSUME NEW w \in Undecided
      PROVE  ~Satisfied(Plan, waits[w]) /\ ~Expired(waits[w], now)
  <2>1. Settled(Plan, w, now)
    BY <1>1 DEF NInv, AllSettled, SettledPlan, Undecided
  <2>2. Plan.waits = waits /\ waits[w].result = Pending
    BY DEF Plan, Undecided
  <2> QED  BY <2>1, <2>2 DEF Settled
<1>2. \A w \in Undecided : ~(waits[w].alertable /\ waits[w].thread \in apcs)
  BY DEF IInv, WaitInv, Unalerted
<1> QED  BY <1>1, <1>2 DEF NoLostWakeup

(* No wakeup is lost: no step leaves an undecided wait that the objects    *)
(* satisfy, that is due, or that a queued callback should have ended.      *)
THEOREM WakeupsAreNotLost == ASSUME NoRetime \/ NoClose PROVE Spec => []NoLostWakeup
<1>1. IInv /\ NInv => NoLostWakeup
  BY SettledIsAwake
<1> QED  BY <1>1, DispatcherSound, WaitsStaySettled, PTL

(* An undecided wait names open handles, and they still name its slots.    *)
THEOREM UndecidedWaitsKeepHandles ==
    ASSUME NoRetime \/ NoClose PROVE Spec => []UndecidedWaitsHoldHandles
<1>1. NInv => UndecidedWaitsHoldHandles
  BY DEF NInv, HandlesHeld, Held, Undecided, UndecidedWaitsHoldHandles
<1> QED  BY <1>1, WaitsStaySettled, PTL

-----------------------------------------------------------------------------
(* Calls end truthfully, for programs that set no timer anew.               *)

(* The result that call f will return, in the table W.                      *)
Outcome(f, W) == IF f.wait # 0 THEN W[f.wait].result ELSE f.result

(* What call f of thread t, the one it is blocked in, says of callbacks: a  *)
(* call that ran one, or was answered before it waited, has its result; and *)
(* one that is to report a callback ran it or is about to.                  *)
Truthful(f, t, W, A) ==
    /\ f.delivered \/ (f.alertable /\ f.wait = 0) => Outcome(f, W) # Pending
    /\ Outcome(f, W) = IoCompletion => f.delivered \/ t \in A

(* A call that a callback interrupted.                                      *)
Interrupted(f) == f.delivered /\ (f.wait = 0 => f.result # Pending)

TruthInv == \A t \in Threads : /\ Truthful(reply[t], t, waits, apcs)
                               /\ \A i \in DOMAIN active[t] : Interrupted(active[t][i])

(* A step that leaves the calls alone and takes no callback back.           *)
LEMMA QuietMoves == ASSUME UNCHANGED <<reply, active>>, apcs \subseteq apcs' PROVE CallsMove
  BY DEF CallsMove, CallMoves

(* What every call of the guest program does to the calls.                  *)
LEMMA GuestMoves ==
    ASSUME IInv, NoRetime, NEW t \in Threads, NEW usable \in SUBSET DOMAIN handles,
           Guest(t, usable)
    PROVE  CallsMove
<1>1. reply \in [Threads -> Reply] /\ active \in [Threads -> Seq(Reply)]
  BY DEF IInv, WaitInv, FramesTyped
<1>2. ASSUME NEW o, NEW set, Create(o, set) PROVE CallsMove
  BY <1>2, QuietMoves DEF Create, queue
<1>3. CASE CreateEvent(t) \/ CreateMutex(t) \/ CreateSemaphore(t) \/ CreateWaitableTimer(t)
  BY <1>2, <1>3 DEF CreateEvent, CreateMutex, CreateSemaphore, CreateWaitableTimer
<1>4. ASSUME NEW target \in Threads, OpenThread(t, target) PROVE CallsMove
  BY <1>2, <1>4, QuietMoves DEF OpenThread, queue
<1>5. ASSUME NEW target \in Threads, QueueUserAPC(t, target) PROVE CallsMove
  BY <1>5, QuietMoves DEF QueueUserAPC
<1>6. ASSUME NEW target \in Threads, TerminateThread(t, target) PROVE CallsMove
  <2>1. /\ apcs' = apcs \ {target}
        /\ active' = [active EXCEPT ![target] = <<>>]
        /\ reply' = [reply EXCEPT ![target] = NoReply]
    BY <1>6 DEF TerminateThread
  <2>2. ASSUME NEW u \in Threads PROVE CallMoves(u)
    <3>1. CASE u = target
      BY <1>1, <2>1, <3>1 DEF CallMoves
    <3>2. CASE u # target
      BY <1>1, <2>1, <3>2 DEF CallMoves
    <3> QED  BY <3>1, <3>2
  <2> QED  BY <2>2 DEF CallsMove
<1>7. ASSUME NEW p, Signal(p) PROVE CallsMove
  BY <1>7, QuietMoves DEF Signal, queue
<1>8. ASSUME NEW h \in usable,
             \/ DuplicateHandle(t, h) \/ CloseHandle(t, h)
             \/ SetEvent(t, h) \/ ResetEvent(t, h) \/ PulseEvent(t, h) \/ ReleaseMutex(t, h)
      PROVE  CallsMove
  <2>1. CASE DuplicateHandle(t, h) \/ CloseHandle(t, h) \/ ResetEvent(t, h)
    BY <2>1, QuietMoves DEF DuplicateHandle, CloseHandle, Close, ResetEvent, queue
  <2>2. CASE SetEvent(t, h) \/ PulseEvent(t, h)
    BY <1>7, <2>2 DEF SetEvent, PulseEvent
  <2>3. CASE ReleaseMutex(t, h)
    BY <1>7, <2>3, QuietMoves DEF ReleaseMutex, Release, queue
  <2> QED  BY <1>8, <2>1, <2>2, <2>3
<1>9. ASSUME NEW h \in usable, NEW count \in 1 .. MaxCount, ReleaseSemaphore(t, h, count)
      PROVE  CallsMove
  BY <1>7, <1>9 DEF ReleaseSemaphore
<1>10. ASSUME NEW h \in usable, NEW awaited \in usable, SignalObjectAndWait(t, h, awaited)
       PROVE  CallsMove
  <2>1. h \in DOMAIN handles /\ awaited \in DOMAIN handles
    OBVIOUS
  <2> QED  BY <1>10, <2>1, SignalObjectAndWaitKeeps
<1>11. ASSUME NEW h \in usable, NEW delay \in Delays, NEW period \in {0, 1},
              NEW callback \in BOOLEAN, SetWaitableTimer(t, h, delay, period, callback)
       PROVE  FALSE
  BY <1>11 DEF SetWaitableTimer, Call, NoRetime
<1>12. ASSUME NEW h \in usable, CancelWaitableTimer(t, h) PROVE FALSE
  BY <1>12 DEF CancelWaitableTimer, Call, NoRetime
<1>13. CASE WaitForObjects(t, usable)
  BY <1>13, WaitForObjectsKeeps
<1>14. CASE Sleep(t)
  BY <1>14, SleepKeeps
<1> QED  BY <1>3, <1>4, <1>5, <1>6, <1>8, <1>9, <1>10, <1>11, <1>12, <1>13, <1>14 DEF Guest

(* What the ends of calls and the callbacks do to the calls.                *)
LEMMA HostMoves ==
    ASSUME IInv, NEW t \in Threads,
           FinishReply(t) \/ CancelWait(t) \/ DeliverApc(t) \/ ReturnApc(t)
    PROVE  CallsMove
<1>1. reply \in [Threads -> Reply] /\ active \in [Threads -> Seq(Reply)]
  BY DEF IInv, WaitInv, FramesTyped
<1>2. CASE FinishReply(t) \/ CancelWait(t)
  <2>1. reply' = [reply EXCEPT ![t] = NoReply] /\ UNCHANGED <<active, apcs>>
    BY <1>2 DEF FinishReply, CancelWait, queue
  <2>2. ASSUME NEW u \in Threads PROVE CallMoves(u)
    BY <1>1, <2>1 DEF CallMoves
  <2> QED  BY <2>2 DEF CallsMove
<1>3. CASE DeliverApc(t)
  <2>1. /\ reply[t].alertable /\ reply' = [reply EXCEPT ![t] = NoReply]
        /\ active' = [active EXCEPT ![t] = Append(@, [reply[t] EXCEPT !.delivered = TRUE])]
        /\ \A u \in Threads \ {t} : u \in apcs => u \in apcs'
    BY <1>3 DEF DeliverApc, MarkApcs
  <2>2. ASSUME NEW u \in Threads PROVE CallMoves(u)
    <3>1. CASE u = t
      BY <1>1, <2>1, <3>1 DEF CallMoves
    <3>2. CASE u # t
      BY <1>1, <2>1, <3>2 DEF CallMoves
    <3> QED  BY <3>1, <3>2
  <2> QED  BY <2>2 DEF CallsMove
<1>4. CASE ReturnApc(t)
  <2>1. /\ active[t] # <<>> /\ apcs' = apcs
        /\ reply' = [reply EXCEPT ![t] = active[t][Len(active[t])]]
        /\ active' = [active EXCEPT ![t] = SubSeq(@, 1, Len(@) - 1)]
    BY <1>4 DEF ReturnApc
  <2>2. ASSUME NEW u \in Threads PROVE CallMoves(u)
    <3>1. CASE u = t
      BY <1>1, <2>1, <3>1 DEF CallMoves
    <3>2. CASE u # t
      BY <1>1, <2>1, <3>2 DEF CallMoves
    <3> QED  BY <3>1, <3>2
  <2> QED  BY <2>2 DEF CallsMove
<1> QED  BY <1>2, <1>3, <1>4

(* What every step does to the calls.                                       *)
LEMMA CallsMoved == ASSUME IInv, NoRetime, [Next]_vars PROVE CallsMove
<1>1. ASSUME NEW t \in Threads, Guest(t, DOMAIN handles) PROVE CallsMove
  BY <1>1, GuestMoves
<1>2. ASSUME NEW t \in Threads,
             FinishReply(t) \/ CancelWait(t) \/ DeliverApc(t) \/ ReturnApc(t)
      PROVE  CallsMove
  BY <1>2, HostMoves
<1>3. ASSUME NEW t \in now .. Horizon, Tick(t) PROVE CallsMove
  BY <1>3, QuietMoves DEF Tick
<1>4. CASE UNCHANGED vars
  BY <1>4, QuietMoves DEF vars, queue
<1> QED  BY <1>1, <1>2, <1>3, <1>4 DEF Next

(* What a call says of callbacks stays true.                                *)
LEMMA TruthKeeps ==
    ASSUME IInv, IInv', NoRetime, WaitsAdvance, CallsMove, TruthInv
    PROVE  TruthInv'
<1> SUFFICES ASSUME NEW t \in Threads
             PROVE  /\ Truthful(reply'[t], t, waits', apcs')
                    /\ \A i \in DOMAIN active'[t] : Interrupted(active'[t][i])
  BY DEF TruthInv
<1>1. /\ reply[t] \in Reply /\ active[t] \in Seq(Reply) /\ CallMoves(t)
      /\ Truthful(reply[t], t, waits, apcs)
      /\ \A i \in DOMAIN active[t] : Interrupted(active[t][i])
  BY DEF IInv, WaitInv, FramesTyped, CallsMove, TruthInv
<1>2. Pending # IoCompletion
  BY DEF Pending, IoCompletion
<1>3. ThreadHolds(t, reply[t], active[t], waits) /\ FrameHolds(reply'[t], t, waits')
  BY DEF IInv, WaitInv, FramesHold, ThreadHolds
<1>4. ASSUME NEW f, FrameHolds(f, t, waits), FrameHolds(f, t, waits'), f.wait # 0
      PROVE  \/ waits'[f.wait].result = waits[f.wait].result
             \/ waits[f.wait].result = Pending
                  /\ (waits'[f.wait].result = IoCompletion => t \in apcs')
  <2>1. PICK k : k = f.wait
    OBVIOUS
  <2>2. k \in DOMAIN waits /\ k \in DOMAIN waits' /\ waits[k].thread = t
    BY <1>4, <2>1 DEF FrameHolds
  <2>3. MayBecome(waits[k], waits'[k])
    BY <2>2 DEF WaitsAdvance
  <2> QED  BY <2>1, <2>2, <2>3 DEF MayBecome
<1>5. CASE reply'[t] = reply[t] /\ active'[t] = active[t] /\ (t \in apcs => t \in apcs')
  <2>1. PICK f : f = reply[t]
    OBVIOUS
  <2>2. FrameHolds(f, t, waits) /\ FrameHolds(f, t, waits') /\ Truthful(f, t, waits, apcs)
    BY <1>1, <1>3, <1>5, <2>1 DEF ThreadHolds
  <2>3. Truthful(f, t, waits', apcs')
    <3>1. CASE f.wait = 0
      BY <1>5, <2>2, <3>1 DEF Truthful, Outcome
    <3>2. CASE f.wait # 0
      BY <1>2, <1>4, <1>5, <2>2, <3>2 DEF Truthful, Outcome
    <3> QED  BY <3>1, <3>2
  <2> QED  BY <1>1, <1>5, <2>1, <2>3
<1>6. CASE /\ active'[t] = active[t] /\ t \in apcs'
           /\ reply'[t].wait = 0 /\ reply'[t].result # Pending /\ ~reply'[t].delivered
  BY <1>1, <1>6 DEF Truthful, Outcome
<1>7. CASE /\ active'[t] = active[t] /\ reply'[t].wait \in DOMAIN waits' \ DOMAIN waits
           /\ reply'[t].wait # 0 /\ ~reply'[t].delivered
  <2>1. waits'[reply'[t].wait].result = Pending
    BY <1>7 DEF WaitsAdvance
  <2> QED  BY <1>1, <1>2, <1>7, <2>1 DEF Truthful, Outcome
<1>8. ASSUME reply'[t] = NoReply PROVE Truthful(reply'[t], t, waits', apcs')
  <2>1. ~NoReply.delivered /\ ~NoReply.alertable /\ Outcome(NoReply, waits') = Pending
    BY DEF NoReply, Outcome
  <2> QED  BY <1>2, <1>8, <2>1 DEF Truthful
<1>9. CASE reply'[t] = NoReply /\ active'[t] \in {active[t], <<>>}
  BY <1>1, <1>8, <1>9
<1>10. CASE /\ reply[t].alertable /\ reply'[t] = NoReply
            /\ active'[t] = Append(active[t], [reply[t] EXCEPT !.delivered = TRUE])
  <2>1. PICK f : f = [reply[t] EXCEPT !.delivered = TRUE]
    OBVIOUS
  <2>2. f.delivered /\ f.wait = reply[t].wait /\ f.result = reply[t].result
    BY <1>1, <2>1 DEF Reply
  <2>3. Interrupted(f)
    BY <1>1, <1>10, <2>2 DEF Interrupted, Truthful, Outcome
  <2>4. PICK stack \in Seq(Reply) : stack = active[t]
    BY <1>1
  <2>5. ASSUME NEW i \in DOMAIN Append(stack, f) PROVE Append(stack, f)[i] \in {stack[k] : k \in DOMAIN stack} \cup {f}
    BY <2>4
  <2>6. \A i \in DOMAIN Append(stack, f) : Interrupted(Append(stack, f)[i])
    BY <1>1, <2>3, <2>4, <2>5
  <2> QED  BY <1>8, <1>10, <2>1, <2>4, <2>6
<1>11. CASE /\ active[t] # <<>> /\ reply'[t] = active[t][Len(active[t])]
            /\ active'[t] = SubSeq(active[t], 1, Len(active[t]) - 1)
  <2>1. PICK stack \in Seq(Reply) : stack = active[t]
    BY <1>1
  <2>2. PICK f : f = stack[Len(stack)]
    OBVIOUS
  <2>3. Len(stack) \in DOMAIN stack
    BY <1>11, <2>1
  <2>4. /\ Interrupted(f) /\ FrameHolds(f, t, waits) /\ FrameHolds(f, t, waits')
        /\ f.wait # 0 => waits[f.wait].result # Pending
    BY <1>1, <1>3, <1>11, <2>1, <2>2, <2>3 DEF ThreadHolds
  <2>5. Truthful(f, t, waits', apcs')
    <3>1. CASE f.wait = 0
      BY <2>4, <3>1 DEF Truthful, Outcome, Interrupted
    <3>2. CASE f.wait # 0
      BY <1>4, <2>4, <3>2 DEF Truthful, Outcome, Interrupted
    <3> QED  BY <3>1, <3>2
  <2>6. \A i \in DOMAIN SubSeq(stack, 1, Len(stack) - 1) :
           /\ i \in DOMAIN stack /\ SubSeq(stack, 1, Len(stack) - 1)[i] = stack[i]
    BY <2>1
  <2> QED  BY <1>1, <1>11, <2>1, <2>2, <2>5, <2>6
<1> QED  BY <1>1, <1>5, <1>6, <1>7, <1>9, <1>10, <1>11 DEF CallMoves

(* Calls say the truth about callbacks, while no timer is set anew or       *)
(* cancelled: a cancelled timer takes its callback back, and the answer of  *)
(* a call that was to run it with it.                                       *)
THEOREM CallsStayTruthful == ASSUME NoRetime PROVE Spec => []TruthInv
<1>1. Init => TruthInv
  <2> SUFFICES ASSUME Init PROVE TruthInv
    OBVIOUS
  <2>1. ASSUME NEW t \in Threads PROVE reply[t] = NoReply /\ active[t] = <<>>
    BY DEF Init
  <2>2. ~NoReply.delivered /\ ~NoReply.alertable /\ Outcome(NoReply, waits) = Pending
    BY DEF NoReply, Outcome
  <2>3. Pending # IoCompletion
    BY DEF Pending, IoCompletion
  <2> QED  BY <2>1, <2>2, <2>3 DEF TruthInv, Truthful
<1>2. IInv /\ TruthInv /\ [Next]_vars => TruthInv'
  BY NextSound, CallsMoved, TruthKeeps DEF Steady
<1> QED  BY <1>1, <1>2, DispatcherSound, PTL DEF Spec

(* An alertable call that is about to report a callback, with none left,    *)
(* ran one while it was blocked; and one that a callback interrupted has    *)
(* its result, so it never waits again.                                     *)
THEOREM AlertableCallsAreTruthful ==
    ASSUME NoRetime PROVE Spec => []AlertableCallsEndTruthfully
<1>1. ASSUME IInv, TruthInv PROVE AlertableCallsEndTruthfully
  <2>1. ASSUME NEW t \in live
        PROVE  /\ Outcome(reply[t], waits) = IoCompletion /\ Queued(t) = {}
                    => reply[t].delivered
               /\ reply[t].delivered => Outcome(reply[t], waits) # Pending
    <3>1. t \in Threads
      BY <1>1 DEF IInv, WaitInv, WaitsTyped
    <3>2. Truthful(reply[t], t, waits, apcs) /\ (t \in apcs => Queued(t) # {})
      BY <1>1, <3>1 DEF TruthInv, IInv, QueueInv, ApcListExact
    <3> QED  BY <3>2 DEF Truthful
  <2> QED  BY <2>1 DEF AlertableCallsEndTruthfully, Outcome
<1>2. IInv /\ TruthInv => AlertableCallsEndTruthfully
  BY <1>1
<1> QED  BY <1>2, DispatcherSound, CallsStayTruthful, PTL

-----------------------------------------------------------------------------
(* Whom a pass serves.                                                      *)

(* The waits of D that q grants and p leaves undecided, and those of them   *)
(* that take the object of slot s.                                          *)
Newly(p, q, D) == {w \in D : p.waits[w].result = Pending /\ Success(q.waits[w])}
Takers(p, q, D, s) == {w \in Newly(p, q, D) : s \in TakenBy(q.waits[w])}

(* What is left of object o, with a signal or not, is r after the waits T   *)
(* took it; W are the waits before and V those after.                       *)
Ledger(T, o, r, set, W, V) ==
    /\ o.type = "mutex" =>
          \/ T = {} /\ r = o
          \/ \E w : /\ T = {w} /\ r.owner = W[w].thread
                    /\ o.owner \in {NoThread, W[w].thread}
                    /\ o.abandoned => V[w].result >= Abandoned
    /\ o.type \in {"event", "timer"} /\ ~o.manual => (T = {} \/ (~set /\ \E w : T = {w}))
    /\ o.type = "semaphore" => /\ IsFiniteSet(T)
                               /\ Cardinality(T) + r.count = o.count
                               /\ r.maximum = o.maximum

(* Wait v waits for the same as w.                                          *)
Rival(p, v, w) ==
    /\ p.waits[v].slots = p.waits[w].slots /\ p.waits[v].mode = p.waits[w].mode

(* The objects that wait w of q took were not its thread's before.          *)
TookForeign(p, q, w) ==
    \A s \in TakenBy(q.waits[w]) : \/ p.objects[s].type # "mutex"
                                   \/ p.objects[s].owner # p.waits[w].thread

(* Older rivals of the waits that are granted are decided.                  *)
InOrder(p, q, D) ==
    \A w \in Newly(p, q, D), v \in D :
        v < w /\ Rival(p, v, w) /\ TookForeign(p, q, w) => q.waits[v].result # Pending

(* The waits that are told of abandonment took a mutex that had its mark.   *)
TellsTruth(p, q, D) ==
    \A w \in Newly(p, q, D) : q.waits[w].result >= Abandoned =>
        \E s \in TakenBy(q.waits[w]) : p.objects[s].type = "mutex" /\ p.objects[s].abandoned

Served(p, q, D) ==
    /\ \A s \in Slots : Ledger(Takers(p, q, D, s), p.objects[s], q.objects[s], s \in q.signaled,
                               p.waits, q.waits)
    /\ InOrder(p, q, D)
    /\ \A w \in Newly(p, q, D) : TakenBy(q.waits[w]) \subseteq Slots
    /\ TellsTruth(p, q, D)

(* A result that is a success is none of the special ones.                  *)
LEMMA SuccessIsAnswer ==
    /\ \A w : Success(w) => w.result \notin {Pending, WaitFailed, IoCompletion}
    /\ \A w : w.result = ExpiryResult(w.mode) => ~Success(w)
<1>1. \A w : Success(w) => w.result \in 0 .. 63 \cup Abandoned .. (Abandoned + 63)
  BY DEF Success, Granted
<1>2. \A r \in 0 .. 63 \cup Abandoned .. (Abandoned + 63) :
           r \notin {Pending, WaitFailed, IoCompletion, WaitTimeout}
  BY DEF Abandoned, Pending, WaitFailed, IoCompletion, WaitTimeout
<1>3. \A w : w.result = ExpiryResult(w.mode) /\ w.mode # "sleep" => w.result = WaitTimeout
  BY DEF ExpiryResult
<1>4. \A w : Success(w) => w.mode # "sleep"
  BY DEF Success
<1> QED  BY <1>1, <1>2, <1>3, <1>4

(* A grant answers with what it takes, and tells of abandonment if and only *)
(* if it takes an abandoned mutex.                                          *)
LEMMA GrantTakes ==
    ASSUME NEW p, NEW w \in WaitRecord, Fits(w), Satisfied(p, w), NEW v, SameWait(w, v),
           v.result = GrantResult(p, w)
    PROVE  /\ Success(v) /\ TakenBy(v) = Taken(p, w)
           /\ \A s \in Taken(p, w) : p.objects[s].type = "mutex" /\ p.objects[s].abandoned
                                        => v.result >= Abandoned
           /\ v.result >= Abandoned =>
                 \E s \in Taken(p, w) : p.objects[s].type = "mutex" /\ p.objects[s].abandoned
<1> DEFINE A == {i \in Selected(p, w) : /\ p.objects[w.slots[i]].type = "mutex"
                                        /\ p.objects[w.slots[i]].abandoned}
           F == CHOOSE i \in A : \A j \in A : i <= j
<1>1. /\ w.mode \in {"any", "all"} /\ Selected(p, w) \subseteq DOMAIN w.slots
      /\ w.mode = "any" => FirstReady(p, w) \in DOMAIN w.slots
  BY TakenAreReady
<1>2. DOMAIN w.slots \subseteq 1 .. 64 /\ DOMAIN w.slots \subseteq Nat
  <2>1. DOMAIN w.slots = 1 .. Len(w.slots) /\ Len(w.slots) \in Nat /\ Len(w.slots) <= 64
    BY WaitParts DEF Fits
  <2>2. \A n \in Nat : n <= 64 => 1 .. n \subseteq 1 .. 64 /\ 1 .. n \subseteq Nat
    OBVIOUS
  <2> QED  BY <2>1, <2>2
<1>3. v.slots = w.slots /\ v.mode = w.mode
  BY DEF SameWait
<1>4. Granted(v.result) /\ Success(v)
  BY <1>1, <1>3, GrantIsResult DEF Granted, Success
<1>5. ASSUME A # {} PROVE F \in A /\ v.result = Abandoned + F - 1
  <2>1. A \subseteq Nat
    BY <1>1, <1>2
  <2>2. \E i \in A : \A j \in A : i <= j
    BY <1>5, <2>1, LeastNumber
  <2>3. F \in A
    BY <2>2
  <2> QED  BY <1>5, <2>3 DEF GrantResult
<1>6. ASSUME A = {} PROVE v.result = IF w.mode = "all" THEN 0 ELSE FirstReady(p, w) - 1
  BY <1>6 DEF GrantResult
<1>7. Taken(p, w) = {w.slots[i] : i \in Selected(p, w)}
  BY DEF Taken
<1>8. A \subseteq Selected(p, w)
  OBVIOUS
<1>9. \A s \in Taken(p, w) : p.objects[s].type = "mutex" /\ p.objects[s].abandoned => A # {}
  BY <1>7
<1>10. A # {} => \E s \in Taken(p, w) : p.objects[s].type = "mutex" /\ p.objects[s].abandoned
  BY <1>7, <1>8
<1> HIDE DEF A, F
<1>11. A # {} => F \in 1 .. 64 /\ v.result = Abandoned + F - 1
  BY <1>1, <1>2, <1>5, <1>8
<1>12. \A s \in Taken(p, w) : p.objects[s].type = "mutex" /\ p.objects[s].abandoned
                                 => v.result >= Abandoned
  <2>1. \A i \in 1 .. 64 : Abandoned + i - 1 >= Abandoned
    BY DEF Abandoned
  <2> QED  BY <1>9, <1>11, <2>1
<1>13. v.result >= Abandoned =>
          \E s \in Taken(p, w) : p.objects[s].type = "mutex" /\ p.objects[s].abandoned
  <2>1. ASSUME A = {} PROVE ~(v.result >= Abandoned)
    <3>1. w.mode # "all" => FirstReady(p, w) \in 1 .. 64
      BY <1>1, <1>2
    <3>2. v.result = 0 \/ v.result \in 0 .. 63
      BY <1>6, <2>1, <3>1
    <3> QED  BY <3>2 DEF Abandoned
  <2> QED  BY <1>10, <2>1
<1>14. TakenBy(v) = Taken(p, w)
  <2>1. CASE w.mode = "all"
    BY <1>3, <1>7, <2>1 DEF TakenBy, Selected
  <2>2. CASE w.mode = "any"
    <3>1. PICK i \in 1 .. 64 : i = FirstReady(p, w)
      BY <1>1, <1>2, <2>2
    <3>2. Selected(p, w) = {i}
      BY <2>2, <3>1 DEF Selected
    <3>3. v.result = Abandoned + i - 1 \/ v.result = i - 1
      BY <1>5, <1>6, <1>8, <2>2, <3>1, <3>2
    <3>4. 1 + (IF v.result >= Abandoned THEN v.result - Abandoned ELSE v.result) = i
      BY <3>3 DEF Abandoned
    <3>5. TakenBy(v) = {w.slots[i]}
      BY <1>3, <2>2, <3>4 DEF TakenBy
    <3> QED  BY <1>7, <3>2, <3>5
  <2> QED  BY <1>1, <2>1, <2>2
<1> QED  BY <1>4, <1>12, <1>13, <1>14

(* How resolve_waiters decides one wait, answer by answer.                  *)
LEMMA ResolveOneAnswers ==
    ASSUME NEW D, NEW q \in Plans(D), NEW id, NEW t
    PROVE  \/ ResolveOne(q, id, t) = q
           \/ /\ id \in D /\ q.waits[id].result = Pending
              /\ \/ ResolveOne(q, id, t) = Complete(q, id, ExpiryResult(q.waits[id].mode))
                 \/ /\ Satisfied(q, q.waits[id])
                    /\ ResolveOne(q, id, t) =
                         Complete(TakeObjects(q, q.waits[id]), id, GrantResult(q, q.waits[id]))
  BY PlanParts DEF ResolveOne

(* A plan serves nobody before its pass.                                    *)
LEMMA ServedFirst == ASSUME NEW D, NEW p \in Plans(D) PROVE Served(p, p, D)
<1>1. Newly(p, p, D) = {}
  BY SuccessIsAnswer DEF Newly
<1>2. ASSUME NEW s \in Slots
      PROVE  Ledger(Takers(p, p, D, s), p.objects[s], p.objects[s], s \in p.signaled,
                    p.waits, p.waits)
  <2>1. Takers(p, p, D, s) = {}
    BY <1>1 DEF Takers
  <2>2. p.objects[s] \in ObjectKind
    BY PlanParts
  <2>3. p.objects[s].type = "semaphore" => p.objects[s].count \in Nat
    BY <2>2, Kinds DEF SemaphoreKind
  <2>4. IsFiniteSet({}) /\ Cardinality({}) = 0
    BY FS_EmptySet
  <2> QED  BY <2>1, <2>3, <2>4 DEF Ledger
<1>3. InOrder(p, p, D)
  BY <1>1 DEF InOrder
<1> QED  BY <1>1, <1>2, <1>3 DEF Served, TellsTruth

(* An event or timer that resets itself loses its signal to a grant.        *)
LEMMA TakenSignal ==
    ASSUME NEW D, NEW q \in Plans(D), NEW w, NEW s \in Taken(q, w),
           q.objects[s].type \in {"event", "timer"}, ~q.objects[s].manual
    PROVE  s \notin TakeObjects(q, w).signaled
<1> DEFINE B == {k \in q.signaled : \/ k \notin Taken(q, w)
                                    \/ q.objects[k].type = "thread"
                                    \/ StaysSignaled(q.objects[k])}
<1>1. TakeObjects(q, w).signaled = B
  BY DEF TakeObjects, Plans
<1>2. s \notin B
  BY DEF StaysSignaled
<1> QED  BY <1>1, <1>2

(* A wait that expires is served nothing.                                   *)
LEMMA ExpiryServes ==
    ASSUME NEW D, NEW p, NEW q \in Plans(D), Served(p, q, D),
           \A k \in D : SameWait(p.waits[k], q.waits[k]),
           NEW id \in D, q.waits[id].result = Pending,
           NEW r, r = Complete(q, id, ExpiryResult(q.waits[id].mode))
    PROVE  Served(p, r, D)
<1>1. /\ r.objects = q.objects /\ r.signaled = q.signaled
      /\ \A k \in D \ {id} : r.waits[k] = q.waits[k]
      /\ SameWait(q.waits[id], r.waits[id])
      /\ r.waits[id].result = ExpiryResult(q.waits[id].mode)
  BY AnswersAreResults, CompleteParts
<1>2. ~Success(r.waits[id]) /\ ~Success(q.waits[id]) /\ r.waits[id].result # Pending
  BY <1>1, SuccessIsAnswer, AnswersAreResults DEF SameWait
<1>3. Newly(p, r, D) = Newly(p, q, D) /\ id \notin Newly(p, q, D)
  <2>1. \A k \in D : Success(r.waits[k]) <=> Success(q.waits[k])
    BY <1>1, <1>2
  <2> QED  BY <1>2, <2>1 DEF Newly
<1>4. \A w \in Newly(p, q, D) : w \in D /\ r.waits[w] = q.waits[w]
  BY <1>1, <1>3 DEF Newly
<1>5. ASSUME NEW s \in Slots
      PROVE  Ledger(Takers(p, r, D, s), p.objects[s], r.objects[s], s \in r.signaled,
                    p.waits, r.waits)
  <2>1. PICK T : T = Takers(p, q, D, s)
    OBVIOUS
  <2>2. Takers(p, r, D, s) = T /\ T \subseteq Newly(p, q, D)
    BY <1>3, <1>4, <2>1 DEF Takers
  <2>3. Ledger(T, p.objects[s], q.objects[s], s \in q.signaled, p.waits, q.waits)
    BY <2>1 DEF Served
  <2>4. \A w \in T : r.waits[w] = q.waits[w]
    BY <1>4, <2>2
  <2> QED  BY <1>1, <2>2, <2>3, <2>4 DEF Ledger
<1>6. InOrder(p, r, D)
  <2>1. ASSUME NEW w \in Newly(p, r, D), NEW v \in D, v < w, Rival(p, v, w), TookForeign(p, r, w)
        PROVE  r.waits[v].result # Pending
    <3>1. w \in Newly(p, q, D) /\ TookForeign(p, q, w)
      BY <1>3, <1>4, <2>1 DEF TookForeign
    <3>2. q.waits[v].result # Pending
      BY <2>1, <3>1 DEF Served, InOrder
    <3> QED  BY <1>1, <1>2, <3>2
  <2> QED  BY <2>1 DEF InOrder
<1>7. \A w \in Newly(p, r, D) : TakenBy(r.waits[w]) \subseteq Slots
  BY <1>3, <1>4 DEF Served
<1>8. TellsTruth(p, r, D)
  BY <1>3, <1>4 DEF Served, TellsTruth
<1> QED  BY <1>5, <1>6, <1>7, <1>8 DEF Served

(* A wait that is granted in its turn: its objects are handed to it alone,  *)
(* and no older wait would have had them instead.                           *)
LEMMA GrantServes ==
    ASSUME NEW D, D \subseteq Nat, NEW p \in Plans(D), NEW q \in Plans(D), Resolved(p, q, D),
           Served(p, q, D), LoneWaits(p.waits, D), \A k \in D : Fits(q.waits[k]),
           NEW id \in D, q.waits[id].result = Pending, Satisfied(q, q.waits[id]),
           NEW t, \A k \in D : k < id => Settled(q, k, t),
           NEW r, r = Complete(TakeObjects(q, q.waits[id]), id, GrantResult(q, q.waits[id]))
    PROVE  Served(p, r, D)
<1>1. PICK w \in WaitRecord : w = q.waits[id] /\ Fits(w)
  BY PlanParts
<1>2. PICK m : m = TakeObjects(q, w)
  OBVIOUS
<1>3. m \in Plans(D) /\ m.waits = q.waits
  BY <1>1, <1>2, TakeParts
<1>4. GrantResult(q, w) \in Results \ {Pending, WaitFailed, IoCompletion}
  BY <1>1, GrantIsResult, AnswersAreResults
<1>5. /\ r.objects = m.objects /\ r.signaled = m.signaled
      /\ \A k \in D \ {id} : r.waits[k] = q.waits[k]
      /\ SameWait(w, r.waits[id]) /\ r.waits[id].result = GrantResult(q, w)
  BY <1>1, <1>2, <1>3, <1>4, CompleteParts
<1>6. PICK v : v = r.waits[id]
  OBVIOUS
<1>7. /\ Success(v) /\ TakenBy(v) = Taken(q, w) /\ v.result # Pending
      /\ \A s \in Taken(q, w) : q.objects[s].type = "mutex" /\ q.objects[s].abandoned
                                   => v.result >= Abandoned
      /\ v.result >= Abandoned =>
            \E s \in Taken(q, w) : q.objects[s].type = "mutex" /\ q.objects[s].abandoned
  BY <1>1, <1>4, <1>5, <1>6, GrantTakes
<1>8. /\ p.waits[id].result = Pending /\ p.waits[id].thread = w.thread
      /\ id \notin Newly(p, q, D)
  <2>1. SameWait(p.waits[id], q.waits[id]) /\ Decides(p.waits[id], q.waits[id])
    BY DEF Resolved
  <2> QED  BY <1>1, <2>1, SuccessIsAnswer DEF SameWait, Decides, Newly
<1>9. Newly(p, r, D) = Newly(p, q, D) \cup {id}
  BY <1>5, <1>6, <1>7, <1>8 DEF Newly
<1>10. \A k \in Newly(p, q, D) :
          /\ k \in D /\ k # id /\ r.waits[k] = q.waits[k]
          /\ p.waits[k].thread # w.thread /\ p.waits[k].thread \in Threads
  <2>1. ASSUME NEW k \in Newly(p, q, D)
        PROVE  /\ k \in D /\ k # id /\ r.waits[k] = q.waits[k]
               /\ p.waits[k].thread # w.thread /\ p.waits[k].thread \in Threads
    <3>1. k \in D /\ k # id /\ p.waits[k].result = Pending /\ p.waits[k] \in WaitRecord
      BY <1>8, PlanParts DEF Newly
    <3>2. p.waits[k].thread # p.waits[id].thread
      BY <1>8, <3>1 DEF LoneWaits
    <3> QED  BY <1>5, <1>8, <3>1, <3>2, WaitParts
  <2> QED  BY <2>1
<1>11. ASSUME NEW s \in Slots
       PROVE  /\ s \in Taken(q, w) => Takers(p, r, D, s) = Takers(p, q, D, s) \cup {id}
              /\ s \notin Taken(q, w) => Takers(p, r, D, s) = Takers(p, q, D, s)
  <2>1. \A k \in Newly(p, q, D) : s \in TakenBy(r.waits[k]) <=> s \in TakenBy(q.waits[k])
    BY <1>10
  <2>2. s \in TakenBy(r.waits[id]) <=> s \in Taken(q, w)
    BY <1>6, <1>7
  <2> QED  BY <1>9, <2>1, <2>2 DEF Takers
<1>12. ASSUME NEW s \in Slots
       PROVE  Ledger(Takers(p, r, D, s), p.objects[s], r.objects[s], s \in r.signaled,
                     p.waits, r.waits)
  <2>1. PICK T : T = Takers(p, q, D, s)
    OBVIOUS
  <2>2. PICK o : o = p.objects[s]
    OBVIOUS
  <2>3. PICK x : x = q.objects[s]
    OBVIOUS
  <2>4. Ledger(T, o, x, s \in q.signaled, p.waits, q.waits)
    BY <2>1, <2>2, <2>3 DEF Served
  <2>5. T \subseteq Newly(p, q, D) /\ id \notin T /\ \A k \in T : r.waits[k] = q.waits[k]
    BY <1>8, <1>10, <2>1 DEF Takers
  <2>6. SameObject(o, x)
    BY <2>2, <2>3 DEF Resolved
  <2>7. CASE s \notin Taken(q, w)
    <3>1. r.objects[s] = x /\ (s \in r.signaled <=> s \in q.signaled)
      BY <1>1, <1>2, <1>5, <2>3, <2>7, TakeParts
    <3>2. Takers(p, r, D, s) = T
      BY <1>11, <2>1, <2>7
    <3> QED  BY <2>2, <2>4, <2>5, <3>1, <3>2 DEF Ledger
  <2>8. CASE s \in Taken(q, w)
    <3>1. Takers(p, r, D, s) = T \cup {id}
      BY <1>11, <2>1, <2>8
    <3>2. PICK y : y = r.objects[s]
      OBVIOUS
    <3>3. /\ Ready(q, s, w.thread) /\ w.thread \in Threads
          /\ x.type = "mutex" => y.owner = w.thread
          /\ x.type = "semaphore" => /\ x.count \in Nat \ {0} /\ y.count = x.count - 1
                                    /\ y.maximum = x.maximum
      <4>1. Satisfied(q, w)
        BY <1>1
      <4>2. /\ Ready(q, s, w.thread) /\ w.thread \in Threads
            /\ x.type = "mutex" => m.objects[s].owner = w.thread
            /\ x.type = "semaphore" => /\ x.count \in Nat \ {0}
                                      /\ m.objects[s].count = x.count - 1
                                      /\ m.objects[s].maximum = x.maximum
        BY <1>2, <2>3, <2>8, <4>1, TakenObject, ZenonT(60)
      <4> QED  BY <1>5, <3>2, <4>2
    <3>4. CASE o.type = "mutex"
      <4>1. x.type = "mutex" /\ x.owner \in {NoThread, w.thread} /\ NoThread # w.thread
        BY <2>3, <2>6, <3>3, <3>4, NoThreadAssumption DEF SameObject, Ready
      <4>2. T = {} /\ x = o
        <5>1. ASSUME NEW k, T = {k}, x.owner = p.waits[k].thread PROVE FALSE
          <6>1. k \in Newly(p, q, D)
            BY <2>5, <5>1
          <6>2. p.waits[k].thread # w.thread /\ p.waits[k].thread \in Threads
            BY <1>10, <6>1
          <6> QED  BY <4>1, <5>1, <6>2, NoThreadAssumption
        <5> QED  BY <2>4, <3>4, <5>1 DEF Ledger
      <4>3. Takers(p, r, D, s) = {id}
        BY <3>1, <4>2
      <4>4. o.abandoned => r.waits[id].result >= Abandoned
        BY <1>6, <1>7, <2>3, <2>8, <4>1, <4>2
      <4>5. y.owner = p.waits[id].thread /\ o.owner \in {NoThread, p.waits[id].thread}
        BY <1>8, <3>3, <4>1, <4>2
      <4> QED  BY <2>2, <3>2, <3>4, <4>3, <4>4, <4>5 DEF Ledger
    <3>5. CASE o.type \in {"event", "timer"}
      <4>1. x = o
        BY <2>6, <3>5 DEF SameObject
      <4>2. s \in q.signaled
        BY <2>3, <3>3, <3>5, <4>1 DEF Ready
      <4>3. ~o.manual => T = {} /\ s \notin r.signaled
        <5>1. ~o.manual => s \notin m.signaled
          BY <1>2, <2>2, <2>3, <2>8, <3>5, <4>1, TakenSignal
        <5> QED  BY <1>5, <2>4, <3>5, <4>2, <5>1 DEF Ledger
      <4> QED  BY <2>2, <3>1, <3>5, <4>3 DEF Ledger
    <3>6. CASE o.type = "semaphore"
      <4>1. x.type = "semaphore"
        BY <2>6, <3>6 DEF SameObject
      <4>2. IsFiniteSet(T) /\ Cardinality(T) + x.count = o.count /\ x.maximum = o.maximum
        BY <2>4, <3>6 DEF Ledger
      <4>3. IsFiniteSet(T \cup {id}) /\ Cardinality(T \cup {id}) = Cardinality(T) + 1
        BY <2>5, <4>2, FS_AddElement
      <4>4. Cardinality(T) \in Nat /\ x.count \in Nat /\ y.count = x.count - 1
        BY <3>3, <4>1, <4>2, FS_CardinalityType
      <4>5. Cardinality(T \cup {id}) + y.count = o.count
        BY <4>2, <4>3, <4>4
      <4>6. y.maximum = o.maximum
        BY <3>3, <4>1, <4>2
      <4> QED  BY <2>2, <3>1, <3>2, <3>6, <4>3, <4>5, <4>6 DEF Ledger
    <3>7. CASE o.type \notin {"mutex", "event", "timer", "semaphore"}
      BY <2>2, <3>7 DEF Ledger
    <3> QED  BY <3>4, <3>5, <3>6, <3>7
  <2> QED  BY <2>7, <2>8
<1>13. InOrder(p, r, D)
  <2>1. ASSUME NEW k \in Newly(p, r, D), NEW j \in D, j < k, Rival(p, j, k), TookForeign(p, r, k),
               r.waits[j].result = Pending
        PROVE  FALSE
    <3>1. j # id /\ q.waits[j].result = Pending
      BY <1>5, <1>6, <1>7, <2>1
    <3>2. CASE k # id
      <4>1. k \in Newly(p, q, D) /\ TookForeign(p, q, k)
        BY <1>9, <1>10, <2>1, <3>2 DEF TookForeign
      <4> QED  BY <2>1, <3>1, <4>1 DEF Served, InOrder
    <3>3. CASE k = id
      <4>1. ~Satisfied(q, q.waits[j])
        BY <2>1, <3>1, <3>3 DEF Settled
      <4>2. PICK u \in WaitRecord : u = q.waits[j] /\ u.slots = w.slots /\ u.mode = w.mode
        <5>1. SameWait(p.waits[j], q.waits[j]) /\ SameWait(p.waits[id], q.waits[id])
          BY DEF Resolved
        <5> QED  BY <1>1, <2>1, <3>3, <5>1, PlanParts DEF SameWait, Rival
      <4>3. ASSUME NEW s \in Taken(q, w) PROVE Ready(q, s, w.thread) /\ Ready(q, s, u.thread)
        <5>1. s \in Slots /\ Ready(q, s, w.thread)
          BY <1>1, TakenAreReady
        <5>2. q.objects[s].type = "mutex" => q.objects[s].owner # w.thread
          <6>1. SUFFICES ASSUME q.objects[s].type = "mutex", q.objects[s].owner = w.thread
                         PROVE FALSE
            OBVIOUS
          <6>2. SameObject(p.objects[s], q.objects[s])
            BY <5>1 DEF Resolved
          <6>3. p.objects[s].type = "mutex"
            BY <6>1, <6>2 DEF SameObject
          <6>4. p.objects[s].owner # w.thread
            BY <1>6, <1>7, <1>8, <2>1, <3>3, <6>3 DEF TookForeign
          <6>5. PICK T : T = Takers(p, q, D, s)
            OBVIOUS
          <6>6. T \subseteq Newly(p, q, D)
            BY <6>5 DEF Takers
          <6>7. Ledger(T, p.objects[s], q.objects[s], s \in q.signaled, p.waits, q.waits)
            BY <5>1, <6>5 DEF Served
          <6>8. ASSUME NEW i, T = {i}, q.objects[s].owner = p.waits[i].thread PROVE FALSE
            <7>1. i \in Newly(p, q, D)
              BY <6>6, <6>8
            <7> QED  BY <1>10, <6>1, <6>8, <7>1
          <6> QED  BY <6>1, <6>3, <6>4, <6>7, <6>8 DEF Ledger
        <5> QED  BY <5>1, <5>2 DEF Ready
      <4>4. w.mode \in {"any", "all"}
        BY <1>1, TakenAreReady
      <4>5. CASE w.mode = "any"
        <5>1. FirstReady(q, w) \in DOMAIN w.slots /\ Taken(q, w) = {w.slots[FirstReady(q, w)]}
          BY <1>1, <4>5, TakenAreReady DEF Taken, Selected
        <5>2. Ready(q, u.slots[FirstReady(q, w)], u.thread)
          BY <4>2, <4>3, <5>1
        <5> QED  BY <4>1, <4>2, <4>5, <5>1, <5>2 DEF Satisfied
      <4>6. CASE w.mode = "all"
        <5>1. Taken(q, w) = {w.slots[i] : i \in DOMAIN w.slots}
          BY <4>6 DEF Taken, Selected
        <5>2. \A i \in DOMAIN u.slots : Ready(q, u.slots[i], u.thread)
          BY <4>2, <4>3, <5>1
        <5> QED  BY <4>1, <4>2, <4>6, <5>2 DEF Satisfied
      <4> QED  BY <4>4, <4>5, <4>6
    <3> QED  BY <3>2, <3>3
  <2> QED  BY <2>1 DEF InOrder
<1>14. \A k \in Newly(p, r, D) : TakenBy(r.waits[k]) \subseteq Slots
  <2>1. Taken(q, w) \subseteq Slots
    BY <1>1, TakenAreReady
  <2> QED  BY <1>6, <1>7, <1>9, <1>10, <2>1 DEF Served
<1>15. ASSUME NEW s \in Taken(q, w), q.objects[s].type = "mutex"
       PROVE  q.objects[s] = p.objects[s]
  <2>1. s \in Slots /\ Ready(q, s, w.thread)
    BY <1>1, TakenAreReady
  <2>2. q.objects[s].owner \in {NoThread, w.thread}
    BY <1>15, <2>1 DEF Ready
  <2>3. p.objects[s].type = "mutex"
    BY <1>15, <2>1 DEF Resolved, SameObject
  <2>4. PICK T : T = Takers(p, q, D, s) /\ T \subseteq Newly(p, q, D)
    BY DEF Takers
  <2>5. Ledger(T, p.objects[s], q.objects[s], s \in q.signaled, p.waits, q.waits)
    BY <2>1, <2>4 DEF Served
  <2>6. ASSUME NEW k, T = {k}, q.objects[s].owner = p.waits[k].thread PROVE FALSE
    <3>1. p.waits[k].thread # w.thread /\ p.waits[k].thread \in Threads
      BY <1>10, <2>4, <2>6
    <3> QED  BY <2>2, <2>6, <3>1, NoThreadAssumption
  <2> QED  BY <2>3, <2>5, <2>6 DEF Ledger
<1>16. TellsTruth(p, r, D)
  <2>1. ASSUME v.result >= Abandoned
        PROVE  \E s \in TakenBy(v) : p.objects[s].type = "mutex" /\ p.objects[s].abandoned
    <3>1. PICK s \in Taken(q, w) : q.objects[s].type = "mutex" /\ q.objects[s].abandoned
      BY <1>7, <2>1
    <3> QED  BY <1>7, <1>15, <3>1
  <2>2. ASSUME NEW k \in Newly(p, q, D), r.waits[k].result >= Abandoned
        PROVE  \E s \in TakenBy(r.waits[k]) :
                   p.objects[s].type = "mutex" /\ p.objects[s].abandoned
    BY <1>10, <2>2 DEF Served, TellsTruth
  <2> QED  BY <1>6, <1>9, <2>1, <2>2 DEF TellsTruth
<1> QED  BY <1>12, <1>13, <1>14, <1>16 DEF Served

(* Every pass serves its waits so.                                          *)
LEMMA PassServes ==
    ASSUME NEW last \in Nat, NEW D, D \subseteq 1 .. last, NEW p \in Plans(D), NEW t, NEW L,
           WaitsFit(p.waits, D, L), Mutexes(p, L), LoneWaits(p.waits, D)
    PROVE  /\ Resolved(p, ResolveWaiters(p, last, t), D)
           /\ Served(p, ResolveWaiters(p, last, t), D)
<1> DEFINE H(n) == {q \in Plans(D) : /\ WaitsFit(q.waits, D, L) /\ Mutexes(q, L)
                                     /\ LoneWaits(q.waits, D)
                                     /\ \A k \in D : k <= n => Settled(q, k, t)
                                     /\ Resolved(p, q, D) /\ Served(p, q, D)}
           G == [id \in 0 .. last |-> H(id)]
<1>1. p \in H(0)
  <2>1. \A k \in D : ~(k <= 0)
    OBVIOUS
  <2> QED  BY <2>1, ResolvedSame, ServedFirst
<1>2. ASSUME NEW id \in 1 .. last, NEW q \in H(id - 1) PROVE ResolveOne(q, id, t) \in H(id)
  <2>1. /\ q \in Plans(D) /\ WaitsFit(q.waits, D, L) /\ Mutexes(q, L) /\ LoneWaits(q.waits, D)
        /\ \A k \in D : k <= id - 1 => Settled(q, k, t)
        /\ Resolved(p, q, D) /\ Served(p, q, D)
    BY <1>2
  <2>2. \A k \in D : Fits(q.waits[k])
    BY <2>1 DEF WaitsFit
  <2>3. PICK r : r = ResolveOne(q, id, t)
    OBVIOUS
  <2>4. Resolved(q, r, D) /\ Mutexes(r, L)
    BY <2>1, <2>3, ResolveOneResolves
  <2>5. r \in Plans(D) /\ WaitsFit(r.waits, D, L) /\ Resolved(p, r, D)
    BY <2>1, <2>4, FitsResolved, ResolvedTwice DEF Resolved
  <2>6. /\ id \in D => Settled(r, id, t)
        /\ \A k \in D : Settled(q, k, t) => Settled(r, k, t)
        /\ LoneWaits(r.waits, D)
    BY <2>1, <2>2, <2>3, ResolveOneSettles
  <2>7. ASSUME NEW k \in D, k <= id PROVE Settled(r, k, t)
    <3>1. k = id \/ k <= id - 1
      BY <2>7
    <3> QED  BY <2>1, <2>6, <3>1
  <2>8. Served(p, r, D)
    <3>1. CASE r = q
      BY <2>1, <3>1
    <3>2. ASSUME id \in D, q.waits[id].result = Pending,
                 r = Complete(q, id, ExpiryResult(q.waits[id].mode))
          PROVE  Served(p, r, D)
      <4>1. \A k \in D : SameWait(p.waits[k], q.waits[k])
        BY <2>1 DEF Resolved
      <4> QED  BY <2>1, <3>2, <4>1, ExpiryServes
    <3>3. ASSUME id \in D, q.waits[id].result = Pending, Satisfied(q, q.waits[id]),
                 r = Complete(TakeObjects(q, q.waits[id]), id, GrantResult(q, q.waits[id]))
          PROVE  Served(p, r, D)
      <4>1. D \subseteq Nat /\ \A k \in D : k < id => Settled(q, k, t)
        BY <2>1
      <4> QED  BY <2>1, <2>2, <3>3, <4>1, GrantServes
    <3> QED  BY <2>1, <2>3, <3>1, <3>2, <3>3, ResolveOneAnswers
  <2>9. r \in H(id)
    BY <2>4, <2>5, <2>6, <2>7, <2>8
  <2> QED  BY <2>3, <2>9
<1> HIDE DEF H
<1>3. \A id \in 0 .. last : G[id] = H(id)
  OBVIOUS
<1>4. /\ 0 \in 0 .. last /\ last \in 0 .. last
      /\ \A id \in 1 .. last : id \in 0 .. last /\ id - 1 \in 0 .. last
  OBVIOUS
<1> HIDE DEF G
<1>5. p \in G[0] /\ \A id \in 1 .. last : \A q \in G[id - 1] : ResolveOne(q, id, t) \in G[id]
  BY <1>1, <1>2, <1>3, <1>4
<1>6. ResolveWaiters(p, last, t) \in G[last]
  BY <1>5, ResolveInduction
<1>7. ResolveWaiters(p, last, t) \in H(last)
  BY <1>3, <1>4, <1>6
<1> QED  BY <1>7 DEF H

(* The waits W are those of the table, with callbacks reported at most.     *)
Told(W, D) ==
    \A k \in D : /\ SameWait(waits[k], W[k])
                 /\ waits[k].result = Pending => W[k].result \in {Pending, IoCompletion}

(* The object r is o signaled, given up or filled up.                       *)
Prefigures(o, r) ==
    /\ r.type = o.type
    /\ o.type = "mutex" => r.owner \in {NoThread, o.owner}
    /\ o.type \in {"event", "timer"} => r.manual = o.manual
    /\ o.type = "semaphore" =>
          r.maximum = o.maximum /\ (o.count <= o.maximum => r.count <= o.maximum)

(* The same without an exit: no mutex is given up by its owner's end.       *)
Foretells(o, r) == Prefigures(o, r) /\ (o.type = "mutex" => (r.abandoned <=> o.abandoned))

(* Plan p, from which the pass of an operation starts.                      *)
Prepared(p, D) ==
    /\ D \subseteq DOMAIN waits /\ Told(p.waits, D)
    /\ \A s \in Slots : Prefigures(objects[s], p.objects[s])
    /\ \A s \in Slots :
          objects[s].type = "mutex" => (p.objects[s].abandoned <=> LeftBehind(s))

(* The state that plan q leaves, when nothing but the caller takes more.    *)
Published(q, D) ==
    /\ D \subseteq DOMAIN waits' /\ \A k \in D : waits'[k] = q.waits[k]
    /\ \A k \in DOMAIN waits' : k \in DOMAIN waits => k \in D
    /\ \A s \in Slots : objects'[s].type = "semaphore" =>
          /\ q.objects[s].type = "semaphore"
          /\ objects'[s].maximum = q.objects[s].maximum
          /\ objects'[s].count \in Nat /\ objects'[s].count <= q.objects[s].count
    /\ \A s \in Slots : objects'[s].type = "mutex" /\ objects'[s].owner = NoThread =>
          objects'[s] = q.objects[s]

(* The waits that a step grants and that take the object of slot s.         *)
TakersOf(s) == {w \in NewlyGranted : s \in TakenBy(waits'[w])}

GrantedInOrder ==
    \A w \in NewlyGranted, v \in Undecided \cap DOMAIN waits' :
        /\ v < w
        /\ waits[v].slots = waits'[w].slots
        /\ waits[v].mode = waits'[w].mode
        /\ \A s \in TakenBy(waits'[w]) : \/ objects[s].type # "mutex"
                                         \/ objects[s].owner # waits[w].thread
        => waits'[v].result # Pending

GrantedAlone ==
    \A s \in Slots :
        objects[s].type = "mutex" \/ (objects[s].type \in {"event", "timer"} /\ ~objects[s].manual)
        => Cardinality(TakersOf(s)) <= 1

(* A semaphore that is not over its maximum loses a unit for every grant.   *)
UnitsCounted ==
    \A s \in Slots : objects'[s].type = "semaphore" =>
        /\ objects[s].type = "semaphore" =>
              /\ objects'[s].maximum = objects[s].maximum
              /\ objects[s].count <= objects[s].maximum =>
                    Cardinality(TakersOf(s)) + objects'[s].count <= objects[s].maximum
        /\ objects[s].type # "semaphore" => objects'[s].count <= objects'[s].maximum

AbandonedTold ==
    \A w \in NewlyGranted :
        waits'[w].result >= Abandoned <=> \E s \in TakenBy(waits'[w]) : LeftBehind(s)

(* A mutex without an owner has the mark exactly if it was left behind.     *)
MarkExact(s) ==
    objects'[s].type = "mutex" /\ objects'[s].owner = NoThread =>
        (objects'[s].abandoned <=> LeftBehind(s))
MarksExact == \A s \in Slots : MarkExact(s)

(* What is shown of each operation.                                         *)
Serves == GrantedInOrder /\ GrantedAlone /\ UnitsCounted /\ AbandonedTold /\ MarksExact

(* A set with one element or none.                                          *)
LEMMA AtMostOne ==
    ASSUME NEW T, NEW w, NEW S, S \subseteq T, T = {} \/ T = {w}
    PROVE  Cardinality(S) <= 1
<1>1. S = {} \/ S = {w}
  OBVIOUS
<1>2. Cardinality({}) = 0 /\ Cardinality({w}) = 1
  BY FS_EmptySet, FS_Singleton
<1> QED  BY <1>1, <1>2

(* Operations with a pass.                                                  *)
LEMMA PassedServes ==
    ASSUME IInv, NEW D, NEW p \in Plans(D), NEW q, Resolved(p, q, D), Served(p, q, D),
           Prepared(p, D), Published(q, D)
    PROVE  Serves
<1>1. q \in Plans(D)
  BY DEF Resolved
<1>2. ASSUME NEW w \in NewlyGranted
      PROVE  /\ w \in Newly(p, q, D) /\ w \in D /\ w \in DOMAIN waits /\ waits'[w] = q.waits[w]
             /\ TakenBy(waits'[w]) \subseteq Slots /\ SameWait(waits[w], p.waits[w])
             /\ SameWait(p.waits[w], q.waits[w])
  <2>1. w \in DOMAIN waits' /\ w \in DOMAIN waits /\ waits[w].result = Pending /\ Success(waits'[w])
    BY DEF NewlyGranted, Undecided
  <2>2. w \in D /\ waits'[w] = q.waits[w] /\ Success(q.waits[w])
    BY <2>1 DEF Published
  <2>3. p.waits[w].result \in {Pending, IoCompletion} /\ SameWait(waits[w], p.waits[w])
    BY <2>1, <2>2 DEF Prepared, Told, Prefigures
  <2>4. Decides(p.waits[w], q.waits[w]) /\ SameWait(p.waits[w], q.waits[w])
    BY <2>2 DEF Resolved
  <2>5. p.waits[w].result = Pending
    BY <2>2, <2>3, <2>4, SuccessIsAnswer DEF Decides
  <2>6. w \in Newly(p, q, D)
    BY <2>2, <2>5 DEF Newly
  <2> QED  BY <2>1, <2>2, <2>3, <2>4, <2>6 DEF Served
<1>3. ASSUME NEW s \in Slots
      PROVE  /\ TakersOf(s) \subseteq Takers(p, q, D, s)
             /\ Ledger(Takers(p, q, D, s), p.objects[s], q.objects[s], s \in q.signaled,
                       p.waits, q.waits)
  BY <1>2 DEF TakersOf, Takers, Served
<1>4. GrantedInOrder
  <2>1. ASSUME NEW w \in NewlyGranted, NEW v \in Undecided \cap DOMAIN waits',
               v < w, waits[v].slots = waits'[w].slots, waits[v].mode = waits'[w].mode,
               \A s \in TakenBy(waits'[w]) : \/ objects[s].type # "mutex"
                                             \/ objects[s].owner # waits[w].thread,
               waits'[v].result = Pending
        PROVE  FALSE
    <3>1. /\ v \in D /\ waits'[v] = q.waits[v] /\ SameWait(waits[v], p.waits[v])
      BY <2>1 DEF Undecided, Published, Prepared, Told, Prefigures
    <3>2. Rival(p, v, w)
      BY <1>2, <2>1, <3>1, ZenonT(60) DEF Rival, SameWait
    <3>3. TookForeign(p, q, w)
      <4>1. ASSUME NEW s \in TakenBy(q.waits[w]), p.objects[s].type = "mutex"
            PROVE  p.objects[s].owner # p.waits[w].thread
        <5>1. s \in Slots /\ objects[s].type = "mutex" /\ objects[s].owner # waits[w].thread
          BY <1>2, <2>1, <4>1 DEF Prepared, Told, Prefigures
        <5>2. p.objects[s].owner \in {NoThread, objects[s].owner}
          BY <5>1 DEF Prepared, Told, Prefigures
        <5>3. p.waits[w].thread \in Threads /\ p.waits[w].thread = waits[w].thread
          BY <1>2, PlanParts, WaitParts DEF SameWait
        <5> QED  BY <5>1, <5>2, <5>3, NoThreadAssumption
      <4> QED  BY <4>1 DEF TookForeign
    <3> QED  BY <1>2, <2>1, <3>1, <3>2, <3>3 DEF Served, InOrder
  <2> QED  BY <2>1 DEF GrantedInOrder
<1>5. GrantedAlone
  <2>1. ASSUME NEW s \in Slots,
               \/ objects[s].type = "mutex"
               \/ objects[s].type \in {"event", "timer"} /\ ~objects[s].manual
        PROVE  Cardinality(TakersOf(s)) <= 1
    <3>1. \/ p.objects[s].type = "mutex"
          \/ p.objects[s].type \in {"event", "timer"} /\ ~p.objects[s].manual
      BY <2>1 DEF Prepared, Told, Prefigures
    <3>2. \E w : Takers(p, q, D, s) = {} \/ Takers(p, q, D, s) = {w}
      BY <1>3, <3>1 DEF Ledger
    <3> QED  BY <1>3, <3>2, AtMostOne
  <2> QED  BY <2>1 DEF GrantedAlone
<1>6. UnitsCounted
  <2>1. ASSUME NEW s \in Slots, objects'[s].type = "semaphore"
        PROVE  /\ objects[s].type = "semaphore"
               /\ objects'[s].maximum = objects[s].maximum
               /\ objects[s].count <= objects[s].maximum =>
                     Cardinality(TakersOf(s)) + objects'[s].count <= objects[s].maximum
    <3>1. /\ q.objects[s].type = "semaphore" /\ objects'[s].maximum = q.objects[s].maximum
          /\ objects'[s].count \in Nat /\ objects'[s].count <= q.objects[s].count
      BY <2>1 DEF Published
    <3>2. p.objects[s].type = "semaphore" /\ objects[s].type = "semaphore"
      BY <3>1 DEF Resolved, SameObject, Prepared, Told, Prefigures
    <3>3. /\ p.objects[s].maximum = objects[s].maximum
          /\ objects[s].count <= objects[s].maximum => p.objects[s].count <= objects[s].maximum
      BY <3>2 DEF Prepared, Told, Prefigures
    <3>4. PICK T : T = Takers(p, q, D, s)
      OBVIOUS
    <3>5. IsFiniteSet(T) /\ Cardinality(T) + q.objects[s].count = p.objects[s].count
      BY <1>3, <3>2, <3>4 DEF Ledger
    <3>6. Cardinality(TakersOf(s)) \in Nat /\ Cardinality(TakersOf(s)) <= Cardinality(T)
      BY <1>3, <3>4, <3>5, FS_Subset, FS_CardinalityType
    <3>7. Cardinality(T) \in Nat /\ q.objects[s].count \in Nat /\ p.objects[s].count \in Nat
      BY <1>1, <3>1, <3>2, <3>5, FS_CardinalityType, PlanParts, Kinds DEF SemaphoreKind
    <3>8. objects[s].maximum \in Nat
      BY <3>2, <3>3, PlanParts, Kinds DEF SemaphoreKind
    <3>9. q.objects[s].maximum = p.objects[s].maximum
      BY <1>3, <3>2 DEF Ledger
    <3> QED  BY <3>1, <3>2, <3>3, <3>5, <3>6, <3>7, <3>8, <3>9
  <2> QED  BY <2>1 DEF UnitsCounted
<1>7. AbandonedTold
  <2>1. ASSUME NEW w \in NewlyGranted, NEW s \in TakenBy(waits'[w]), LeftBehind(s)
        PROVE  waits'[w].result >= Abandoned
    <3>1. s \in Slots /\ w \in TakersOf(s)
      BY <1>2, <2>1 DEF TakersOf
    <3>2. p.objects[s].type = "mutex" /\ p.objects[s].abandoned
      BY <2>1, <3>1 DEF Prepared, Prefigures, LeftBehind
    <3>3. w \in Takers(p, q, D, s) /\ q.waits[w].result >= Abandoned
      BY <1>3, <3>1, <3>2 DEF Ledger
    <3> QED  BY <1>2, <3>3
  <2>2. ASSUME NEW w \in NewlyGranted, waits'[w].result >= Abandoned
        PROVE  \E s \in TakenBy(waits'[w]) : LeftBehind(s)
    <3>1. /\ w \in Newly(p, q, D) /\ waits'[w] = q.waits[w]
          /\ TakenBy(waits'[w]) \subseteq Slots
      BY <1>2, <2>2
    <3>2. PICK s \in TakenBy(waits'[w]) : p.objects[s].type = "mutex" /\ p.objects[s].abandoned
      BY <2>2, <3>1 DEF Served, TellsTruth
    <3>3. s \in Slots /\ objects[s].type = "mutex"
      BY <3>1, <3>2 DEF Prepared, Prefigures
    <3> QED  BY <3>2, <3>3 DEF Prepared
  <2> QED  BY <2>1, <2>2 DEF AbandonedTold
<1>8. MarksExact
  <2>1. ASSUME NEW s \in Slots, objects'[s].type = "mutex", objects'[s].owner = NoThread
        PROVE  objects'[s].abandoned <=> LeftBehind(s)
    <3>1. objects'[s] = q.objects[s] /\ q.objects[s].type = "mutex"
      BY <2>1 DEF Published
    <3>2. p.objects[s].type = "mutex"
      BY <3>1 DEF Resolved, SameObject
    <3>3. PICK T : T = Takers(p, q, D, s) /\ T \subseteq D
      BY DEF Takers, Newly
    <3>4. Ledger(T, p.objects[s], q.objects[s], s \in q.signaled, p.waits, q.waits)
      BY <1>3, <3>3
    <3>5. ASSUME NEW k, T = {k}, q.objects[s].owner = p.waits[k].thread PROVE FALSE
      <4>1. p.waits[k] \in WaitRecord
        BY <3>3, <3>5, PlanParts
      <4>2. p.waits[k].thread \in Threads
        BY <4>1, WaitParts
      <4> QED  BY <2>1, <3>1, <3>5, <4>2, NoThreadAssumption
    <3>6. q.objects[s] = p.objects[s]
      BY <3>2, <3>4, <3>5 DEF Ledger
    <3>7. objects[s].type = "mutex"
      BY <3>2 DEF Prepared, Prefigures
    <3> QED  BY <3>1, <3>6, <3>7 DEF Prepared
  <2> QED  BY <2>1 DEF MarksExact, MarkExact
<1> QED  BY <1>4, <1>5, <1>6, <1>7, <1>8 DEF Serves

(* Threads that own a mutex live, so that an operation that ends no thread  *)
(* leaves none behind.                                                      *)
LEMMA LiveOwners ==
    ASSUME IInv, live' = live, NEW s \in Slots, objects[s].type = "mutex"
    PROVE  /\ LeftBehind(s) <=> objects[s].abandoned
           /\ objects[s].abandoned => objects[s].owner = NoThread
<1>1. ObjectSound(objects[s], s \in signaled, live, nextHandle)
  BY DEF IInv, ObjectInv, ObjectsSound, Plan
<1>2. /\ objects[s].owner # NoThread => objects[s].owner \in live
      /\ objects[s].abandoned => objects[s].owner = NoThread
  BY <1>1 DEF ObjectSound, MutexSound
<1> QED  BY <1>2 DEF LeftBehind

LEMMA LivePrepared ==
    ASSUME IInv, live' = live, NEW p, Told(p.waits, DOMAIN waits),
           \A s \in Slots : Foretells(objects[s], p.objects[s])
    PROVE  Prepared(p, DOMAIN waits)
<1>1. \A s \in Slots : Prefigures(objects[s], p.objects[s])
  BY DEF Foretells
<1>2. \A s \in Slots : objects[s].type = "mutex" => (p.objects[s].abandoned <=> LeftBehind(s))
  BY LiveOwners DEF Foretells
<1> QED  BY <1>1, <1>2 DEF Prepared

(* Objects and waits that stay as they are.                                 *)
LEMMA SameTold == /\ \A o : Foretells(o, o)
                  /\ \A D : Told(waits, D)
<1>1. \A o : Foretells(o, o)
  BY DEF Foretells, Prefigures
<1>2. \A D : Told(waits, D)
  BY DEF Told, SameWait
<1> QED  BY <1>1, <1>2

(* commit_signals publishes a plan r that leaves of the semaphores of q     *)
(* what its caller does not take, and adds to the table of q only new waits.*)
LEMMA CommitPublishes ==
    ASSUME NEW D, D \subseteq DOMAIN waits, NEW E, D \subseteq E, E \cap DOMAIN waits \subseteq D,
           NEW q, NEW r \in Plans(E), Commit(r), \A k \in D : r.waits[k] = q.waits[k],
           \A s \in Slots : r.objects[s].type = "semaphore" =>
               /\ q.objects[s].type = "semaphore" /\ r.objects[s].maximum = q.objects[s].maximum
               /\ r.objects[s].count <= q.objects[s].count,
           \A s \in Slots : r.objects[s].type = "mutex" /\ r.objects[s].owner = NoThread =>
               r.objects[s] = q.objects[s]
    PROVE  Published(q, D)
<1>1. r.signaled \subseteq Slots /\ DOMAIN r.waits = E /\ \A s \in Slots : r.objects[s] \in ObjectKind
  BY PlanParts
<1>2. waits' = r.waits /\ \A s \in Slots : objects'[s] = Free \/ objects'[s] = r.objects[s]
  BY <1>1, CommitParts
<1>3. ASSUME NEW s \in Slots, objects'[s].type = "semaphore"
      PROVE  /\ q.objects[s].type = "semaphore"
             /\ objects'[s].maximum = q.objects[s].maximum
             /\ objects'[s].count \in Nat /\ objects'[s].count <= q.objects[s].count
  <2>1. objects'[s] = r.objects[s]
    BY <1>2, <1>3 DEF Free
  <2>2. r.objects[s].count \in Nat
    BY <1>1, <1>3, <2>1, Kinds DEF SemaphoreKind
  <2> QED  BY <1>3, <2>1, <2>2
<1>4. ASSUME NEW s \in Slots, objects'[s].type = "mutex", objects'[s].owner = NoThread
      PROVE  objects'[s] = q.objects[s]
  <2>1. objects'[s] = r.objects[s]
    BY <1>2, <1>4 DEF Free
  <2> QED  BY <1>4, <2>1
<1> QED  BY <1>1, <1>2, <1>3, <1>4 DEF Published

(* A plan that is committed as it is.                                       *)
LEMMA PlanPublishes ==
    ASSUME NEW D, D \subseteq DOMAIN waits, NEW q \in Plans(D), NEW r \in Plans(D), Commit(r),
           r.waits = q.waits, r.objects = q.objects
    PROVE  Published(q, D)
<1>1. ASSUME NEW s \in Slots, q.objects[s].type = "semaphore" PROVE q.objects[s].count \in Nat
  BY <1>1, PlanParts, Kinds DEF SemaphoreKind
<1>2. \A s \in Slots : q.objects[s].type = "semaphore" => q.objects[s].count <= q.objects[s].count
  BY <1>1
<1> QED  BY <1>2, CommitPublishes

(* An operation with a pass, from plan p to q.                              *)
LEMMA PassedOnce ==
    ASSUME IInv, NEW D, NEW L, NEW p, SoundPlan(p, D, L), LoneWaits(p.waits, D),
           Prepared(p, D), NEW t, NEW q, q = ResolveWaiters(p, nextWait, t)
    PROVE  q \in Plans(D) /\ Resolved(p, q, D) /\ Served(p, q, D)
<1>1. p \in Plans(D) /\ Mutexes(p, L) /\ WaitsFit(p.waits, D, L)
  BY SoundMutexes
<1>2. nextWait \in Nat /\ D \subseteq 1 .. nextWait
  BY DEF IInv, WaitInv, WaitsTyped, Prepared
<1>3. Resolved(p, q, D) /\ Served(p, q, D)
  BY <1>1, <1>2, PassServes
<1> QED  BY <1>3 DEF Resolved

(* Its commit, when a signal bit may be taken back after the pass.          *)
LEMMA PassCommitted ==
    ASSUME IInv, NEW D, NEW L, NEW p, SoundPlan(p, D, L), LoneWaits(p.waits, D),
           Prepared(p, D), NEW t, NEW q, q = ResolveWaiters(p, nextWait, t),
           NEW r \in Plans(D), r.waits = q.waits, r.objects = q.objects, Commit(r)
    PROVE  Serves
<1>1. p \in Plans(D) /\ q \in Plans(D) /\ Resolved(p, q, D) /\ Served(p, q, D)
  BY PassedOnce DEF SoundPlan
<1>2. Published(q, D)
  BY <1>1, PlanPublishes DEF Prepared
<1> QED  BY <1>1, <1>2, PassedServes

(* A plan that is committed without a pass.                                 *)
LEMMA PlanCommitted ==
    ASSUME IInv, live' = live, NEW p \in Plans(DOMAIN waits), Commit(p),
           Told(p.waits, DOMAIN waits),
           \A s \in Slots : Foretells(objects[s], p.objects[s])
    PROVE  Serves
<1>1. Prepared(p, DOMAIN waits)
  BY LivePrepared
<1>2. Published(p, DOMAIN waits) /\ Resolved(p, p, DOMAIN waits) /\ Served(p, p, DOMAIN waits)
  BY PlanPublishes, ResolvedSame, ServedFirst
<1> QED  BY <1>1, <1>2, PassedServes

(* An operation with a pass on a plan with the waits of the table.          *)
LEMMA TablePassed ==
    ASSUME IInv, live' = live, NEW p, SoundPlan(p, DOMAIN waits, live), p.waits = waits,
           \A s \in Slots : Foretells(objects[s], p.objects[s]),
           Commit(ResolveWaiters(p, nextWait, now))
    PROVE  Serves
<1>1. PICK D : D = DOMAIN waits
  OBVIOUS
<1>2. PICK q : q = ResolveWaiters(p, nextWait, now)
  OBVIOUS
<1>3. Told(p.waits, D)
  BY SameTold
<1>4. LoneWaits(p.waits, D) /\ Prepared(p, D)
  BY <1>1, <1>3, AloneInTable, LivePrepared DEF IInv
<1>5. q \in Plans(D)
  BY <1>1, <1>2, <1>4, PassedOnce
<1> QED  BY <1>1, <1>2, <1>4, <1>5, PassCommitted

(* A step that grants nothing and makes no semaphore but an empty one.      *)
LEMMA NothingGranted ==
    ASSUME \A w \in Undecided : w \in DOMAIN waits' => ~Success(waits'[w]),
           \A s \in Slots : objects'[s].type = "semaphore" =>
               \/ objects'[s] = objects[s]
               \/ objects[s].type # "semaphore" /\ objects'[s].count <= objects'[s].maximum,
           \A s \in Slots : objects[s].type = "semaphore" => objects[s].count \in Nat,
           MarksExact
    PROVE  Serves
<1>1. NewlyGranted = {}
  BY DEF NewlyGranted
<1>2. \A s : TakersOf(s) = {}
  BY <1>1 DEF TakersOf
<1>3. Cardinality({}) = 0
  BY FS_EmptySet
<1>4. \A s \in Slots : Cardinality(TakersOf(s)) = 0
  BY <1>2, <1>3
<1>5. GrantedInOrder /\ AbandonedTold
  BY <1>1 DEF GrantedInOrder, AbandonedTold
<1>6. GrantedAlone
  BY <1>4 DEF GrantedAlone
<1>7. UnitsCounted
  <2>1. ASSUME NEW s \in Slots, objects'[s].type = "semaphore", objects[s].type = "semaphore"
        PROVE  /\ objects'[s].maximum = objects[s].maximum
               /\ objects[s].count <= objects[s].maximum =>
                     Cardinality(TakersOf(s)) + objects'[s].count <= objects[s].maximum
    <3>1. objects'[s] = objects[s] /\ objects[s].count \in Nat
      BY <2>1
    <3> QED  BY <1>4, <3>1
  <2> QED  BY <2>1 DEF UnitsCounted
<1> QED  BY <1>5, <1>6, <1>7 DEF Serves

(* A mutex that stays as it is, gets an owner, or is new or let go without  *)
(* the mark.                                                                *)
Unmarked(s) ==
    \/ objects'[s] = objects[s]
    \/ objects'[s].type = "mutex" => objects'[s].owner # NoThread
    \/ objects'[s].type = "mutex" /\ ~objects'[s].abandoned /\ objects[s].type = "free"
    \/ /\ objects[s].type = "mutex" /\ objects[s].owner # NoThread
       /\ objects'[s].type = "mutex" /\ objects'[s].abandoned = objects[s].abandoned

(* Such a step on a table of waits that only fail.                          *)
LEMMA WaitsFailed ==
    ASSUME IInv, live' = live, \A s \in Slots : Unmarked(s),
           \A w \in DOMAIN waits' : waits'[w].result \in {waits[w].result, WaitFailed, IoCompletion},
           \A s \in Slots : objects'[s].type = "semaphore" =>
               \/ objects'[s] = objects[s]
               \/ objects[s].type # "semaphore" /\ objects'[s].count <= objects'[s].maximum
    PROVE  Serves
<1>1. ASSUME NEW w \in Undecided, w \in DOMAIN waits' PROVE ~Success(waits'[w])
  <2>1. waits'[w].result \in {Pending, WaitFailed, IoCompletion}
    BY <1>1 DEF Undecided
  <2> QED  BY <2>1, SuccessIsAnswer
<1>2. \A s \in Slots : objects[s].type = "semaphore" => objects[s].count \in Nat
  BY PlanFacts, Kinds DEF SemaphoreKind
<1>3. ASSUME NEW s \in Slots PROVE MarkExact(s)
  <2>1. objects[s].type = "free" => ~LeftBehind(s)
    BY DEF LeftBehind
  <2>2. ASSUME objects[s].type = "mutex"
        PROVE  /\ LeftBehind(s) <=> objects[s].abandoned
               /\ objects[s].abandoned => objects[s].owner = NoThread
    BY <2>2, LiveOwners
  <2>3. Unmarked(s)
    OBVIOUS
  <2>4. CASE objects'[s] = objects[s]
    BY <2>2, <2>4 DEF MarkExact
  <2>5. CASE objects'[s] # objects[s]
    BY <2>1, <2>2, <2>3, <2>5 DEF MarkExact, Unmarked
  <2> QED  BY <2>4, <2>5
<1> QED  BY <1>1, <1>2, <1>3, NothingGranted DEF MarksExact

(* A new object.                                                            *)
LEMMA CreateServes ==
    ASSUME IInv, NEW o, NEW set, Create(o, set),
           o.type = "semaphore" => o.count <= o.maximum,
           o.type = "mutex" => ~o.abandoned
    PROVE  Serves
<1>1. PICK s \in Slots : /\ objects[s].type = "free" /\ objects' = [objects EXCEPT ![s] = o]
                         /\ waits' = waits /\ live' = live
  BY DEF Create, FirstFree
<1>2. \A r \in Slots : r # s => objects'[r] = objects[r]
  BY <1>1, PlanFacts
<1>3. objects'[s] = o
  BY <1>1, PlanFacts
<1>4. \A w \in DOMAIN waits' : waits'[w].result \in {waits[w].result, WaitFailed, IoCompletion}
  BY <1>1
<1>5. \A r \in Slots : objects'[r].type = "semaphore" =>
         \/ objects'[r] = objects[r]
         \/ objects[r].type # "semaphore" /\ objects'[r].count <= objects'[r].maximum
  BY <1>1, <1>2, <1>3
<1>6. \A r \in Slots : Unmarked(r)
  BY <1>1, <1>2, <1>3 DEF Unmarked
<1> QED  BY <1>1, <1>4, <1>5, <1>6, WaitsFailed

(* The calls that create an object.                                         *)
LEMMA CreatesServe ==
    ASSUME IInv, NEW t \in Threads,
           CreateEvent(t) \/ CreateMutex(t) \/ CreateSemaphore(t) \/ CreateWaitableTimer(t)
    PROVE  Serves
<1>1. CASE CreateEvent(t)
  BY <1>1, CreateServes DEF CreateEvent
<1>2. CASE CreateMutex(t)
  BY <1>2, CreateServes DEF CreateMutex
<1>3. CASE CreateSemaphore(t)
  <2>1. PICK maximum \in 1 .. MaxCount : \E initial \in 0 .. maximum :
           Create([type |-> "semaphore", count |-> initial, maximum |-> maximum], initial # 0)
    BY <1>3 DEF CreateSemaphore
  <2>2. PICK initial \in 0 .. maximum :
           Create([type |-> "semaphore", count |-> initial, maximum |-> maximum], initial # 0)
    BY <2>1
  <2>3. initial <= maximum
    OBVIOUS
  <2> QED  BY <2>2, <2>3, CreateServes
<1>4. CASE CreateWaitableTimer(t)
  BY <1>4, CreateServes DEF CreateWaitableTimer
<1> QED  BY <1>1, <1>2, <1>3, <1>4

(* A step that leaves the objects alone and decides no wait but with a      *)
(* failure or a callback.                                                   *)
LEMMA ObjectsAlone ==
    ASSUME IInv, UNCHANGED <<objects, live>>,
           \A w \in DOMAIN waits' : waits'[w].result \in {waits[w].result, WaitFailed, IoCompletion}
    PROVE  Serves
  BY WaitsFailed DEF Unmarked

(* The waits that a closed handle fails.                                    *)
LEMMA FailResults ==
    ASSUME IInv, NEW h
    PROVE  /\ DOMAIN FailWaits(h) = DOMAIN waits
           /\ \A w \in DOMAIN waits : FailWaits(h)[w].result \in {waits[w].result, WaitFailed}
<1>1. ASSUME NEW w \in DOMAIN waits PROVE FailWaits(h)[w].result \in {waits[w].result, WaitFailed}
  <2>1. waits[w] \in WaitRecord
    BY DEF IInv, WaitInv, WaitsTyped
  <2>2. [waits[w] EXCEPT !.result = WaitFailed].result = WaitFailed
    BY <2>1 DEF WaitRecord
  <2> QED  BY <2>2 DEF FailWaits
<1>2. DOMAIN FailWaits(h) = DOMAIN waits
  BY DEF FailWaits
<1> QED  BY <1>1, <1>2

(* Handles: OpenThread, DuplicateHandle and CloseHandle.                    *)
LEMMA HandlesServe ==
    ASSUME IInv, NEW t \in Threads,
           \/ \E target \in Threads : OpenThread(t, target)
           \/ \E h \in DOMAIN handles : DuplicateHandle(t, h) \/ CloseHandle(t, h)
    PROVE  Serves
<1>1. CASE UNCHANGED <<objects, waits, live>>
  BY <1>1, ObjectsAlone
<1>2. ASSUME NEW target \in Threads, OpenThread(t, target) PROVE Serves
  <2>1. \/ UNCHANGED <<objects, waits, live>>
        \/ Create([type |-> "thread", thread |-> target, terminated |-> target \notin live],
                  target \notin live)
    BY <1>2 DEF OpenThread
  <2> QED  BY <1>1, <2>1, CreateServes
<1>3. ASSUME NEW h \in DOMAIN handles, DuplicateHandle(t, h) PROVE Serves
  <2>1. UNCHANGED <<objects, live>> /\ (waits' = waits \/ waits' = FailWaits(h))
    BY <1>3 DEF DuplicateHandle
  <2>2. \A w \in DOMAIN waits' : waits'[w].result \in {waits[w].result, WaitFailed, IoCompletion}
    BY <2>1, FailResults
  <2> QED  BY <2>1, <2>2, ObjectsAlone
<1>4. ASSUME NEW h \in DOMAIN handles, CloseHandle(t, h) PROVE Serves
  <2>1. waits' = FailWaits(h) /\ live' = live
    BY <1>4 DEF CloseHandle, Close
  <2>2. objects' = objects \/ objects' = [objects EXCEPT ![handles[h]] = Free]
    BY <1>4 DEF CloseHandle, Close
  <2>3. \A r \in Slots : objects'[r] = objects[r] \/ objects'[r] = Free
    BY <2>2, HandleNames, PlanFacts
  <2>4. \A r \in Slots : objects'[r].type = "semaphore" => objects'[r] = objects[r]
    BY <2>3 DEF Free
  <2>5. \A w \in DOMAIN waits' : waits'[w].result \in {waits[w].result, WaitFailed, IoCompletion}
    BY <2>1, FailResults
  <2>6. \A r \in Slots : Unmarked(r)
    BY <2>3 DEF Unmarked, Free
  <2> QED  BY <2>1, <2>4, <2>5, <2>6, WaitsFailed
<1> QED  BY <1>2, <1>3, <1>4

(* The ends of calls, and steps that leave the waits alone.                 *)
LEMMA EndsServe ==
    ASSUME IInv, NEW t \in Threads, FinishReply(t) \/ CancelWait(t) \/ ReturnApc(t)
    PROVE  Serves
<1>1. UNCHANGED <<objects, live>>
  BY DEF FinishReply, CancelWait, ReturnApc, context
<1>2. waits' = waits \/ waits' = Forget(reply[t].wait)
  BY DEF FinishReply, CancelWait, ReturnApc, context
<1>3. \A w \in DOMAIN waits' : waits'[w] = waits[w]
  BY <1>2 DEF Forget
<1> QED  BY <1>1, <1>3, ObjectsAlone

(* QueueUserAPC                                                             *)
LEMMA QueueUserAPCServes ==
    ASSUME IInv, NEW t \in Threads, NEW target \in Threads, QueueUserAPC(t, target)
    PROVE  Serves
<1>1. PICK q : q = AlertThreads(Plan, {target})
  OBVIOUS
<1>2. waits' = q.waits /\ UNCHANGED <<objects, live>>
  BY <1>1 DEF QueueUserAPC
<1>3. /\ SoundPlan(q, DOMAIN waits, live)
      /\ \A k \in DOMAIN waits : q.waits[k].result \in {waits[k].result, IoCompletion}
  BY <1>1, PlanFacts, SoundAlert
<1>4. DOMAIN q.waits = DOMAIN waits
  BY <1>3, PlanParts DEF SoundPlan
<1> QED  BY <1>2, <1>3, <1>4, ObjectsAlone

(* Signals.                                                                 *)

(* The plan of SetEvent, PulseEvent and SignalObjectAndWait.                *)
LEMMA EventPlan ==
    ASSUME IInv, live' = live, NEW s \in Slots, objects[s].type = "event",
           NEW p, p = SetSignal(Plan, s)
    PROVE  /\ SoundPlan(p, DOMAIN waits, live) /\ p.waits = waits /\ p.objects = objects
           /\ LoneWaits(p.waits, DOMAIN waits) /\ Prepared(p, DOMAIN waits)
<1>1. SoundPlan(p, DOMAIN waits, live)
  BY PlanFacts, SoundSet
<1>2. p.waits = waits /\ p.objects = objects
  BY DEF SetSignal, Plan
<1>3. Told(p.waits, DOMAIN waits) /\ \A r \in Slots : Foretells(objects[r], p.objects[r])
  BY <1>2, SameTold
<1> QED  BY <1>1, <1>2, <1>3, AloneInTable, LivePrepared DEF IInv

(* SetEvent, ResetEvent and PulseEvent                                      *)
LEMMA EventsServe ==
    ASSUME IInv, NEW t \in Threads, NEW h \in DOMAIN handles,
           SetEvent(t, h) \/ ResetEvent(t, h) \/ PulseEvent(t, h)
    PROVE  Serves
<1>1. PICK s \in Slots : s = handles[h]
  BY HandleNames
<1>2. objects[s].type = "event" /\ live' = live
  BY <1>1 DEF SetEvent, ResetEvent, PulseEvent, Signal
<1>3. PICK p : p = SetSignal(Plan, s)
  OBVIOUS
<1>4. PICK q : q = ResolveWaiters(p, nextWait, now)
  OBVIOUS
<1>5. /\ SoundPlan(p, DOMAIN waits, live)
      /\ LoneWaits(p.waits, DOMAIN waits) /\ Prepared(p, DOMAIN waits)
  BY <1>2, <1>3, EventPlan
<1>6. SoundPlan(q, DOMAIN waits, live) /\ q \in Plans(DOMAIN waits)
  BY <1>2, <1>3, <1>4, SignaledPlan DEF SoundPlan
<1>7. CASE SetEvent(t, h)
  <2>1. Commit(q)
    BY <1>1, <1>3, <1>4, <1>7 DEF SetEvent, Signal
  <2> QED  BY <1>4, <1>5, <1>6, <2>1, PassCommitted
<1>8. CASE PulseEvent(t, h)
  <2>1. PICK r : r = ClearSignal(q, s)
    OBVIOUS
  <2>2. Commit(r)
    BY <1>1, <1>3, <1>4, <1>8, <2>1 DEF PulseEvent, Signal
  <2>3. r \in Plans(DOMAIN waits) /\ r.waits = q.waits /\ r.objects = q.objects
    <3>1. SoundPlan(r, DOMAIN waits, live)
      BY <1>2, <1>6, <2>1, SoundClear
    <3> QED  BY <1>6, <2>1, <3>1 DEF ClearSignal, SoundPlan, Plans
  <2> QED  BY <1>4, <1>5, <2>2, <2>3, PassCommitted
<1>9. CASE ResetEvent(t, h)
  BY <1>9, ObjectsAlone DEF ResetEvent
<1> QED  BY <1>7, <1>8, <1>9

(* ReleaseSemaphore                                                         *)
LEMMA ReleaseSemaphoreServes ==
    ASSUME IInv, NEW t \in Threads, NEW h \in DOMAIN handles, NEW count \in 1 .. MaxCount,
           ReleaseSemaphore(t, h, count)
    PROVE  Serves
<1>1. PICK s \in Slots : s = handles[h]
  BY HandleNames
<1>2. PICK o \in ObjectKind : o = objects[s]
  BY PlanFacts
<1>3. PICK n : n = [o EXCEPT !.count = @ + count]
  OBVIOUS
<1>4. /\ o.type = "semaphore" /\ o.count + count <= o.maximum /\ live' = live
      /\ Commit(ResolveWaiters(SetSignal(PutObject(Plan, s, n), s), nextWait, now))
  BY <1>1, <1>2, <1>3 DEF ReleaseSemaphore, Signal
<1>5. o \in SemaphoreKind
  BY <1>4, Kinds
<1>6. n = [type |-> "semaphore", count |-> o.count + count, maximum |-> o.maximum]
  BY <1>3, <1>5 DEF SemaphoreKind
<1>7. o.count \in Nat /\ o.maximum \in Nat /\ o.count + count \in Nat
  BY <1>5 DEF SemaphoreKind
<1>8. n \in SemaphoreKind
  BY <1>6, <1>7 DEF SemaphoreKind
<1>9. n \in ObjectKind /\ n.type = "semaphore"
  BY <1>6, <1>8 DEF ObjectKind
<1>10. PICK p : p = PutObject(Plan, s, n)
  OBVIOUS
<1>11. ObjectSound(n, s \in Plan.signaled, live, nextHandle)
  BY <1>9 DEF ObjectSound
<1>12. SoundPlan(p, DOMAIN waits, live)
  BY <1>2, <1>4, <1>9, <1>10, <1>11, PlanFacts, SoundPutObject
<1>13. PICK q : q = SetSignal(p, s)
  OBVIOUS
<1>14. SoundPlan(q, DOMAIN waits, live)
  BY <1>2, <1>4, <1>12, <1>13, SoundSet
<1>15. q.waits = waits /\ q.objects[s] = n /\ \A r \in Slots : r # s => q.objects[r] = objects[r]
  <2>1. p.waits = waits /\ p.objects = [objects EXCEPT ![s] = n]
    BY <1>10 DEF PutObject, Plan
  <2>2. q.waits = p.waits /\ q.objects = p.objects
    BY <1>12, <1>13 DEF SetSignal, SoundPlan, Plans
  <2> QED  BY <2>1, <2>2, PlanFacts
<1>16. Commit(ResolveWaiters(q, nextWait, now))
  BY <1>4, <1>10, <1>13
<1>17. Foretells(objects[s], q.objects[s])
  <2>1. n.count = o.count + count /\ n.maximum = o.maximum
    BY <1>6
  <2> QED  BY <1>2, <1>4, <1>9, <1>15, <2>1 DEF Foretells, Prefigures
<1>18. \A r \in Slots : Foretells(objects[r], q.objects[r])
  BY <1>15, <1>17, SameTold
<1> QED  BY <1>4, <1>14, <1>15, <1>16, <1>18, TablePassed

(* ReleaseMutex, with and without waiters.                                  *)
LEMMA ReleaseServes ==
    ASSUME IInv, NEW t \in Threads, NEW h \in DOMAIN handles, Release(t, h)
    PROVE  Serves
<1>1. PICK s \in Slots : s = handles[h] /\ refs[s] # 0
  BY HandleNames
<1>2. PICK o : o = objects[s]
  OBVIOUS
<1>3. PICK r : r = Released(o)
  OBVIOUS
<1>4. o.type = "mutex" /\ o.owner = t
  BY <1>1, <1>2 DEF Release
<1>5. /\ o \in MutexKind /\ r \in ObjectKind /\ r.type = "mutex"
      /\ MutexSound(r, o.depth = 1, live)
  BY <1>2, <1>3, <1>4, ReleasedMutex
<1>6. r.owner \in {NoThread, t} /\ r.abandoned = o.abandoned
  BY <1>3, <1>4, <1>5 DEF Released, MutexKind
<1>7. CASE /\ o.depth = 1 /\ live' = live
           /\ Commit(ResolveWaiters(SetSignal(PutObject(Plan, s, r), s), nextWait, now))
  <2>1. PICK p : p = SetSignal(PutObject(Plan, s, r), s)
    OBVIOUS
  <2>2. PICK O : O = [objects EXCEPT ![s] = r]
    OBVIOUS
  <2>3. PutObject(Plan, s, r) = [objects |-> O, signaled |-> signaled, waits |-> waits]
    BY <2>2 DEF PutObject, Plan
  <2>4. p = [objects |-> O, signaled |-> signaled \cup {s}, waits |-> waits]
    BY <2>1, <2>3 DEF SetSignal
  <2>5. SoundPlan(p, DOMAIN waits, live)
    <3>1. ObjectSound(r, s \in signaled \cup {s}, live, nextHandle)
      BY <1>5, <1>7 DEF ObjectSound, MutexSound
    <3>2. /\ signaled \cup {s} \in SUBSET Slots
          /\ (signaled \cup {s}) \ {s} = Plan.signaled \ {s}
      BY PlanFacts
    <3>3. p = [objects |-> [Plan.objects EXCEPT ![s] = r], signaled |-> signaled \cup {s},
               waits |-> Plan.waits]
      BY <2>2, <2>4, PlanFacts
    <3>4. r.type = objects[s].type /\ (r.type = "timer" => r.id = Plan.objects[s].id)
      BY <1>2, <1>4, <1>5
    <3>5. SoundPlan(Plan, DOMAIN waits, live)
      BY PlanFacts
    <3> QED  BY <1>5, <3>1, <3>2, <3>3, <3>4, <3>5, SoundPut
  <2>6. p.waits = waits /\ p.objects[s] = r /\ \A k \in Slots \ {s} : p.objects[k] = objects[k]
    BY <2>2, <2>4, PlanFacts
  <2>7. Foretells(objects[s], p.objects[s])
    BY <1>2, <1>4, <1>5, <1>6, <2>6 DEF Foretells, Prefigures
  <2>8. \A k \in Slots : Foretells(objects[k], p.objects[k])
    BY <2>6, <2>7, SameTold
  <2> QED  BY <1>7, <2>1, <2>5, <2>6, <2>8, TablePassed
<1>8. CASE objects' = [objects EXCEPT ![s] = r] /\ waits' = waits /\ live' = live
  <2>1. objects'[s] = r /\ \A k \in Slots \ {s} : objects'[k] = objects[k]
    BY <1>8, PlanFacts
  <2>2. \A k \in Slots : objects'[k].type = "semaphore" => objects'[k] = objects[k]
    BY <1>5, <2>1
  <2>3. \A w \in DOMAIN waits' : waits'[w].result \in {waits[w].result, WaitFailed, IoCompletion}
    BY <1>8
  <2>4. \A k \in Slots : Unmarked(k)
    <3>1. t # NoThread
      BY NoThreadAssumption
    <3> QED  BY <1>2, <1>4, <1>5, <1>6, <2>1, <3>1 DEF Unmarked
  <2> QED  BY <1>8, <2>2, <2>3, <2>4, WaitsFailed
<1>9. \/ /\ o.depth = 1 /\ live' = live
         /\ Commit(ResolveWaiters(SetSignal(PutObject(Plan, s, r), s), nextWait, now))
      \/ objects' = [objects EXCEPT ![s] = r] /\ waits' = waits /\ live' = live
  BY <1>1, <1>2, <1>3 DEF Release, Released, Signal
<1> QED  BY <1>7, <1>8, <1>9

(* Waits.                                                                   *)

(* The tail of a wait call, on the plan q that a pass made of p: the thread *)
(* that calls takes its objects after the waits that were there.            *)
LEMMA WaitOnServes ==
    ASSUME IInv, NEW D, D = DOMAIN waits, NEW p \in Plans(D), NEW q, Resolved(p, q, D),
           Served(p, q, D), Prepared(p, D), SoundPlan(q, D, live),
           NEW w \in WaitRecord, Fits(w), w.thread \in live, NEW timeout, WaitOn(q, w, timeout)
    PROVE  Serves
<1>1. SUFFICES Published(q, D)
  BY PassedServes
<1>2. q \in Plans(D)
  BY DEF SoundPlan
<1>3. CASE Commit(q)
  BY <1>2, <1>3, PlanPublishes
<1>4. ASSUME NEW s \in Slots, q.objects[s].type = "semaphore" PROVE q.objects[s].count \in Nat
  BY <1>2, <1>4, PlanParts, Kinds DEF SemaphoreKind
<1>5. CASE Satisfied(q, w) /\ Commit(TakeObjects(q, w))
  <2>1. PICK r : r = TakeObjects(q, w)
    OBVIOUS
  <2>2. /\ r \in Plans(D) /\ r.waits = q.waits
        /\ \A s \in Slots : s \notin Taken(q, w) => r.objects[s] = q.objects[s]
    BY <1>2, <1>5, <2>1, TakeParts
  <2>3. ASSUME NEW s \in Slots, r.objects[s].type = "semaphore"
        PROVE  /\ q.objects[s].type = "semaphore"
               /\ r.objects[s].maximum = q.objects[s].maximum
               /\ r.objects[s].count <= q.objects[s].count
    <3>1. CASE s \notin Taken(q, w)
      BY <1>4, <2>2, <2>3, <3>1
    <3>2. CASE s \in Taken(q, w)
      <4>1. q.objects[s].type = "semaphore"
        BY <1>2, <1>5, <2>1, <2>3, <3>2, TakenObject, ZenonT(60)
      <4>2. /\ q.objects[s].count \in Nat /\ r.objects[s].count = q.objects[s].count - 1
            /\ r.objects[s].maximum = q.objects[s].maximum
        BY <1>2, <1>5, <2>1, <3>2, <4>1, TakenObject, ZenonT(60)
      <4> QED  BY <4>1, <4>2
    <3> QED  BY <3>1, <3>2
  <2>4. ASSUME NEW s \in Slots, r.objects[s].type = "mutex", r.objects[s].owner = NoThread
        PROVE  r.objects[s] = q.objects[s]
    <3>1. ASSUME s \in Taken(q, w) PROVE FALSE
      <4>1. q.objects[s].type = "mutex"
        BY <1>2, <1>5, <2>1, <2>4, <3>1, TakenObject, ZenonT(60)
      <4>2. r.objects[s].owner = w.thread
        BY <1>2, <1>5, <2>1, <3>1, <4>1, TakenObject, ZenonT(60)
      <4>3. w.thread \in Threads
        BY WaitParts
      <4> QED  BY <2>4, <4>2, <4>3, NoThreadAssumption
    <3> QED  BY <2>2, <3>1
  <2> QED  BY <1>5, <2>1, <2>2, <2>3, <2>4, CommitPublishes
<1>6. CASE Commit(Entered(q, w))
  <2>1. PICK n : n = nextWait + 1
    OBVIOUS
  <2>2. PICK r : r = Entered(q, w)
    OBVIOUS
  <2>3. EnteredIn(q, Entered(q, w), w, DOMAIN waits, nextWait + 1)
    BY EnteredParts
  <2>4. EnteredIn(q, r, w, D, n)
    BY <2>1, <2>2, <2>3
  <2>5. /\ r \in Plans(D \cup {n}) /\ r.objects = q.objects /\ n \notin D
        /\ \A k \in D : r.waits[k] = q.waits[k]
    BY <2>4 DEF EnteredIn, SoundPlan
  <2>6. PICK E : E = D \cup {n} /\ D \subseteq E /\ E \cap DOMAIN waits \subseteq D
    BY <2>5
  <2>7. \A s \in Slots : r.objects[s].type = "semaphore" =>
           /\ q.objects[s].type = "semaphore" /\ r.objects[s].maximum = q.objects[s].maximum
           /\ r.objects[s].count <= q.objects[s].count
    BY <1>4, <2>5
  <2> QED  BY <1>6, <2>2, <2>5, <2>6, <2>7, CommitPublishes
<1> QED  BY <1>3, <1>5, <1>6 DEF WaitOn, Entered

(* The wait calls on the plan as it is.                                     *)
LEMMA PlanWaitServes ==
    ASSUME IInv, NEW w \in WaitRecord, Fits(w), w.thread \in live, NEW timeout,
           WaitOn(Plan, w, timeout)
    PROVE  Serves
<1>1. PICK D : D = DOMAIN waits
  OBVIOUS
<1>2. PICK p : p = Plan
  OBVIOUS
<1>3. SoundPlan(p, D, live) /\ p \in Plans(D) /\ p.waits = waits /\ p.objects = objects
  BY <1>1, <1>2, PlanFacts DEF SoundPlan
<1>4. live' = live
  BY DEF WaitOn
<1>5. Prepared(p, D)
  BY <1>1, <1>3, <1>4, SameTold, LivePrepared
<1>6. Resolved(p, p, D) /\ Served(p, p, D)
  BY <1>3, ResolvedSame, ServedFirst
<1> QED  BY <1>1, <1>2, <1>3, <1>5, <1>6, WaitOnServes

(* WaitForSingleObject[Ex], WaitForMultipleObjects[Ex], Sleep and SleepEx   *)
LEMMA WaitsServe ==
    ASSUME IInv, NEW t \in Threads, NEW usable \in SUBSET DOMAIN handles,
           WaitForObjects(t, usable) \/ Sleep(t)
    PROVE  Serves
<1>1. ASSUME NEW hs \in Seq(DOMAIN handles), Len(hs) <= 64, NEW mode \in {"any", "all", "sleep"},
             NEW timeout \in Timeouts, NEW alertable \in Alertable, Running(t),
             WaitOn(Plan, NewWait(t, hs, mode, timeout, alertable), timeout)
      PROVE  Serves
  <2>1. PICK w : w = NewWait(t, hs, mode, timeout, alertable)
    OBVIOUS
  <2>3. alertable \in BOOLEAN /\ timeout \in Nat \cup {Never}
    BY AlertableTyped, BoundsAssumption
  <2>2. w \in WaitRecord /\ Fits(w) /\ w.thread = t
    BY <1>1, <2>1, <2>3, NewWaitFits
  <2> QED  BY <1>1, <2>1, <2>2, PlanWaitServes DEF Running
<1>2. CASE WaitForObjects(t, usable)
  <2>1. PICK mode \in {"any", "all"}, timeout \in Timeouts, alertable \in Alertable :
          /\ Running(t)
          /\ \E n \in 1 .. 2 : \E hs \in [1 .. n -> usable] :
               WaitOn(Plan, NewWait(t, hs, mode, timeout, alertable), timeout)
    BY <1>2 DEF WaitForObjects, Call
  <2>2. PICK n \in 1 .. 2 : \E hs \in [1 .. n -> usable] :
               WaitOn(Plan, NewWait(t, hs, mode, timeout, alertable), timeout)
    BY <2>1
  <2>3. PICK hs \in [1 .. n -> usable] :
               WaitOn(Plan, NewWait(t, hs, mode, timeout, alertable), timeout)
    BY <2>2
  <2>4. hs \in [1 .. n -> DOMAIN handles] /\ n \in Nat
    OBVIOUS
  <2>5. hs \in Seq(DOMAIN handles) /\ Len(hs) <= 64
    BY <2>4
  <2> QED  BY <1>1, <2>1, <2>3, <2>5
<1>3. CASE Sleep(t)
  <2>1. PICK timeout \in Timeouts, alertable \in Alertable :
          Running(t) /\ WaitOn(Plan, NewWait(t, <<>>, "sleep", timeout, alertable), timeout)
    BY <1>3 DEF Sleep, Call
  <2>2. PICK hs : hs = <<>>
    OBVIOUS
  <2>3. hs \in Seq(DOMAIN handles) /\ Len(hs) <= 64
    BY <2>2
  <2> QED  BY <1>1, <2>1, <2>2, <2>3
<1> QED  BY <1>2, <1>3

(* What SignalObjectAndWait begins to wait with.                            *)
LEMMA SecondWaitFits ==
    ASSUME IInv, NEW t \in Threads, NEW awaited \in DOMAIN handles,
           NEW timeout \in Timeouts, NEW alertable \in Alertable, NEW w,
           w = NewWait(t, <<awaited>>, "any", timeout, alertable)
    PROVE  w \in WaitRecord /\ Fits(w) /\ w.thread = t
<1>1. PICK hs : hs = <<awaited>>
  OBVIOUS
<1>2. hs \in Seq(DOMAIN handles) /\ Len(hs) <= 64
  <2>1. hs \in Seq(DOMAIN handles) /\ Len(hs) = 1
    BY <1>1
  <2> QED  BY <2>1
<1>3. alertable \in BOOLEAN /\ timeout \in Nat \cup {Never}
  BY AlertableTyped, BoundsAssumption
<1>4. PICK mode \in {"any", "all", "sleep"} : w = NewWait(t, hs, mode, timeout, alertable)
  BY <1>1
<1>5. w \in WaitRecord /\ Fits(w) /\ w.thread = t /\ Fresh(w, timeout)
  BY <1>2, <1>3, <1>4, NewWaitFits
<1> QED  BY <1>5

(* SignalObjectAndWait: the waits that are there are served before the      *)
(* thread that calls.                                                       *)
LEMMA SignalObjectAndWaitServes ==
    ASSUME IInv, NEW t \in Threads, NEW h \in DOMAIN handles, NEW awaited \in DOMAIN handles,
           SignalObjectAndWait(t, h, awaited)
    PROVE  Serves
<1>1. PICK timeout \in Timeouts, alertable \in Alertable :
        /\ Running(t) /\ objects[handles[h]].type = "event"
        /\ WaitOn(ResolveWaiters(SetSignal(Plan, handles[h]), nextWait, now),
                  NewWait(t, <<awaited>>, "any", timeout, alertable), timeout)
  BY DEF SignalObjectAndWait, Call
<1>2. PICK w : w = NewWait(t, <<awaited>>, "any", timeout, alertable)
  OBVIOUS
<1>6. w \in WaitRecord /\ Fits(w) /\ w.thread = t
  BY <1>2, SecondWaitFits
<1>7. PICK s \in Slots : s = handles[h]
  BY HandleNames
<1>8. PICK p : p = SetSignal(Plan, s)
  OBVIOUS
<1>9. PICK q : q = ResolveWaiters(p, nextWait, now)
  OBVIOUS
<1>10. WaitOn(q, w, timeout) /\ objects[s].type = "event" /\ t \in live
  BY <1>1, <1>2, <1>7, <1>8, <1>9 DEF Running
<1>11. live' = live
  BY <1>10 DEF WaitOn
<1>12. PICK D : D = DOMAIN waits
  OBVIOUS
<1>13. SoundPlan(p, D, live) /\ p \in Plans(D) /\ LoneWaits(p.waits, D) /\ Prepared(p, D)
  BY <1>8, <1>10, <1>11, <1>12, EventPlan DEF SoundPlan
<1>14. Resolved(p, q, D) /\ Served(p, q, D)
  BY <1>9, <1>13, PassedOnce
<1>15. SoundPlan(q, D, live)
  BY <1>8, <1>9, <1>10, <1>12, SignaledPlan
<1> QED  BY <1>6, <1>10, <1>12, <1>13, <1>14, <1>15, WaitOnServes

(* Callbacks and timers.                                                    *)

(* The delivery of a callback.                                              *)
LEMMA DeliverApcServes == ASSUME IInv, NEW t \in Threads, DeliverApc(t) PROVE Serves
<1>1. PICK i \in Queued(t) :
        /\ LET remaining == Queued(t) # {i}
               p == IF invocations[i].timer # 0 THEN Dequeued(Plan, invocations[i]) ELSE Plan
           IN  Commit(IF remaining THEN AlertThreads(p, {t}) ELSE p)
        /\ live' = live
  BY DEF DeliverApc
<1>2. PICK p : p = IF invocations[i].timer # 0 THEN Dequeued(Plan, invocations[i]) ELSE Plan
  OBVIOUS
<1>3. PICK q : q = IF Queued(t) # {i} THEN AlertThreads(p, {t}) ELSE p
  OBVIOUS
<1>4. Commit(q)
  BY <1>1, <1>2, <1>3
<1>5. /\ SoundPlan(p, DOMAIN waits, live) /\ p.waits = waits
      /\ \A s \in Slots :
            \/ p.objects[s] = objects[s]
            \/ /\ p.objects[s] = [objects[s] EXCEPT !.queued = FALSE] /\ objects[s] \in TimerKind
               /\ objects[s].type = "timer"
  <2>1. CASE invocations[i].timer = 0
    BY <1>2, <2>1, PlanFacts
  <2>2. CASE invocations[i].timer # 0
    <3>1. p = Dequeued(Plan, invocations[i])
      BY <1>2, <2>2
    <3>2. /\ SoundPlan(p, DOMAIN waits, live) /\ p.waits = waits
          /\ \A s \in Slots :
                \/ p.objects[s] = objects[s]
                \/ /\ p.objects[s] = [objects[s] EXCEPT !.queued = FALSE]
                   /\ objects[s] \in TimerKind /\ Matches(objects[s], invocations[i])
      BY <3>1, PlanFacts, SoundDequeued
    <3> QED  BY <3>2 DEF Matches
  <2> QED  BY <2>1, <2>2
<1>6. /\ SoundPlan(q, DOMAIN waits, live) /\ q.objects = p.objects
      /\ Told(q.waits, DOMAIN waits)
  <2>1. CASE q = p
    BY <1>5, <2>1, SameTold
  <2>2. CASE q = AlertThreads(p, {t})
    <3>1. /\ SoundPlan(q, DOMAIN waits, live) /\ q.objects = p.objects
          /\ Kept(waits, q.waits, DOMAIN waits)
          /\ \A k \in DOMAIN waits : q.waits[k].result \in {waits[k].result, IoCompletion}
      BY <1>5, <2>2, SoundAlert
    <3> QED  BY <3>1 DEF Told, Kept
  <2> QED  BY <1>3, <2>1, <2>2
<1>7. ASSUME NEW s \in Slots PROVE Foretells(objects[s], q.objects[s])
  <2>1. CASE q.objects[s] = objects[s]
    BY <2>1, SameTold
  <2>2. CASE /\ q.objects[s] = [objects[s] EXCEPT !.queued = FALSE] /\ objects[s] \in TimerKind
             /\ objects[s].type = "timer"
    <3>1. q.objects[s].type = "timer" /\ q.objects[s].manual = objects[s].manual
      BY <2>2 DEF TimerKind
    <3> QED  BY <2>2, <3>1 DEF Foretells, Prefigures
  <2> QED  BY <1>5, <1>6, <2>1, <2>2
<1>8. q \in Plans(DOMAIN waits)
  BY <1>6 DEF SoundPlan
<1> QED  BY <1>1, <1>4, <1>6, <1>7, <1>8, PlanCommitted

(* Setting a timer anew, and cancelling it.                                 *)
LEMMA RetimeServes ==
    ASSUME IInv, ~NoRetime, NEW s \in Slots, NEW p, TimerWritten(p, s), Retime(p, s),
           p.objects[s].manual = objects[s].manual
    PROVE  Serves
<1>1. /\ SoundPlan(p, DOMAIN waits, live) /\ p.waits = waits /\ live' = live
      /\ objects[s].type = "timer" /\ objects[s] \in TimerKind
  BY TimerFacts DEF TimerWritten, Retime
<1>2. \A r \in Slots : Foretells(objects[r], p.objects[r])
  <2>1. p.objects[s].type = "timer"
    BY <1>1 DEF SoundPlan
  <2>2. Foretells(objects[s], p.objects[s])
    BY <1>1, <2>1 DEF Foretells, Prefigures
  <2> QED  BY <2>2, SameTold DEF TimerWritten
<1>3. PICK u : u = objects[s].thread
  OBVIOUS
<1>4. p \in Plans(DOMAIN waits)
  BY <1>1 DEF SoundPlan
<1>5. CASE Commit(p)
  BY <1>1, <1>2, <1>4, <1>5, SameTold, PlanCommitted
<1>6. CASE Commit(AlertThreads(p, {u}))
  <2>1. PICK q : q = AlertThreads(p, {u})
    OBVIOUS
  <2>2. /\ SoundPlan(q, DOMAIN waits, live) /\ q.objects = p.objects
        /\ Kept(waits, q.waits, DOMAIN waits)
        /\ \A k \in DOMAIN waits : q.waits[k].result \in {waits[k].result, IoCompletion}
    BY <1>1, <2>1, SoundAlert
  <2>3. Told(q.waits, DOMAIN waits) /\ q \in Plans(DOMAIN waits)
    BY <2>2 DEF Told, Kept, SoundPlan
  <2> QED  BY <1>1, <1>2, <1>6, <2>1, <2>2, <2>3, PlanCommitted
<1>7. CASE /\ u # NoThread /\ active[u] = <<>>
           /\ Commit(ResolveWaiters(RearmThread(p, u), nextWait, now))
  <2>1. PICK a : a = RearmThread(p, u)
    OBVIOUS
  <2>2. /\ SoundPlan(a, DOMAIN waits, live) /\ a.objects = p.objects
        /\ \A w \in DOMAIN waits :
              /\ SameWait(waits[w], a.waits[w])
              /\ waits[w].thread # u => a.waits[w] = waits[w]
              /\ a.waits[w].result # waits[w].result => waits[w].result = IoCompletion
    BY <1>1, <2>1, SoundRearm
  <2>3. PICK D : D = DOMAIN waits
    OBVIOUS
  <2>4. u \in Threads
    BY <1>1, <1>3, <1>7 DEF TimerKind
  <2>5. LoneWaits(a.waits, D)
    BY <1>7, <2>2, <2>3, <2>4, RearmedAlone DEF IInv
  <2>6. Pending # IoCompletion
    BY DEF Pending, IoCompletion
  <2>7. Told(a.waits, D)
    BY <2>2, <2>3, <2>6 DEF Told
  <2>8. Prepared(a, D)
    BY <1>1, <1>2, <2>2, <2>3, <2>7, LivePrepared
  <2>9. PICK q : q = ResolveWaiters(a, nextWait, now)
    OBVIOUS
  <2>10. q \in Plans(D) /\ Commit(q)
    BY <1>7, <2>1, <2>2, <2>3, <2>5, <2>8, <2>9, PassedOnce
  <2> QED  BY <2>2, <2>3, <2>5, <2>8, <2>9, <2>10, PassCommitted
<1>8. \/ Commit(p) \/ Commit(AlertThreads(p, {u}))
      \/ /\ u # NoThread /\ active[u] = <<>>
         /\ Commit(ResolveWaiters(RearmThread(p, u), nextWait, now))
  BY <1>3 DEF Retime
<1> QED  BY <1>5, <1>6, <1>7, <1>8

(* SetWaitableTimer and CancelWaitableTimer                                 *)
LEMMA TimerSetServes == ASSUME IInv, \E s \in Slots : \E p : TimerSet(p, s) PROVE Serves
  BY RetimeServes DEF TimerSet

(* A clock observation: timers that expire are still timers, and alerted    *)
(* waits are told of callbacks at most.                                     *)
LEMMA TickServes == ASSUME IInv, NEW t \in now .. Horizon, Tick(t) PROVE Serves
<1>1. t \in Nat
  BY NowNat, BoundsAssumption
<1>2. PICK alerted : alerted = {objects[s].thread : s \in Firing(Plan, t)}
  OBVIOUS
<1>3. /\ Commit(ResolveWaiters(AlertThreads(ExpireTimers(Plan, t), alerted), nextWait, t))
      /\ live' = live
  BY <1>2 DEF Tick
<1>4. PICK D : D = DOMAIN waits
  OBVIOUS
<1>5. PICK a : a = ExpireTimers(Plan, t)
  OBVIOUS
<1>6. /\ SoundPlan(a, D, live) /\ a.waits = waits
      /\ \A s \in Slots : objects[s].type = "timer" => SameTimer(objects[s], a.objects[s])
      /\ \A s \in Slots : objects[s].type # "timer" => a.objects[s] = objects[s]
  BY <1>1, <1>4, <1>5, SoundExpire, PlanFacts
<1>7. PICK b : b = AlertThreads(a, alerted)
  OBVIOUS
<1>8. /\ SoundPlan(b, D, live) /\ b.objects = a.objects /\ Kept(waits, b.waits, D)
      /\ \A k \in D : b.waits[k].result \in {waits[k].result, IoCompletion}
  BY <1>6, <1>7, SoundAlert
<1>9. Told(b.waits, D) /\ LoneWaits(b.waits, D)
  BY <1>4, <1>8, LoneDecided DEF Told, Kept, IInv
<1>10. \A s \in Slots : Foretells(objects[s], b.objects[s])
  BY <1>6, <1>8, SameTold DEF SameTimer, Foretells, Prefigures
<1>11. Prepared(b, D)
  BY <1>3, <1>4, <1>9, <1>10, LivePrepared
<1>12. PICK q : q = ResolveWaiters(b, nextWait, t)
  OBVIOUS
<1>13. q \in Plans(D) /\ Commit(q)
  BY <1>3, <1>5, <1>7, <1>8, <1>9, <1>11, <1>12, PassedOnce
<1> QED  BY <1>8, <1>9, <1>11, <1>12, <1>13, PassCommitted

(* The exit of thread u writes every object so.                             *)
LEMMA ExitObjects ==
    ASSUME NEW D, NEW p \in Plans(D), NEW u
    PROVE  \A s \in Slots : ExitThreadObjects(p, u).objects[s] = Exited(p.objects[s], u)
<1> DEFINE O == [s \in Slots |-> Exited(p.objects[s], u)]
           B == p.signaled \cup {s \in Slots : Announces(p.objects[s], u)}
<1>1. ExitThreadObjects(p, u) = [p EXCEPT !.objects = O, !.signaled = B]
  BY DEF ExitThreadObjects, Exited, Announces
<1>2. O = [s \in Slots |-> Exited(p.objects[s], u)]
  OBVIOUS
<1> HIDE DEF O, B
<1>3. ExitThreadObjects(p, u).objects = O
  BY <1>1 DEF Plans
<1> QED  BY <1>2, <1>3

(* An object after the exit of a thread: a mutex may be given up.           *)
LEMMA ExitPrefigures ==
    ASSUME NEW o \in ObjectKind, NEW u, NEW r, r = Exited(o, u)
    PROVE  /\ Prefigures(o, r)
           /\ o.type = "mutex" /\ o.owner = u => r.abandoned
           /\ o.type = "mutex" /\ o.owner # u => r = o
<1>1. CASE o.type = "mutex" /\ o.owner = u
  <2>1. r = [o EXCEPT !.owner = NoThread, !.depth = 0, !.abandoned = TRUE]
    BY <1>1 DEF Exited
  <2>2. o \in MutexKind
    BY <1>1, Kinds
  <2>3. r = [type |-> "mutex", owner |-> NoThread, depth |-> 0, abandoned |-> TRUE]
    BY <2>1, <2>2 DEF MutexKind
  <2>4. r.type = "mutex" /\ r.owner = NoThread /\ r.abandoned
    BY <2>3
  <2> QED  BY <1>1, <2>4 DEF Prefigures
<1>2. CASE o.type = "thread" /\ o.thread = u
  <2>1. r = [o EXCEPT !.terminated = TRUE]
    BY <1>2 DEF Exited
  <2>2. o \in ThreadKind
    BY <1>2, Kinds
  <2>3. r.type = "thread"
    BY <1>2, <2>1, <2>2 DEF ThreadKind
  <2> QED  BY <1>2, <2>3 DEF Prefigures
<1>3. CASE o.type = "timer" /\ o.thread = u /\ o.callback
  <2>1. r = [o EXCEPT !.due = Never, !.queued = FALSE]
    BY <1>3 DEF Exited
  <2>2. o \in TimerKind
    BY <1>3, Kinds
  <2>3. r.type = "timer" /\ r.manual = o.manual
    BY <1>3, <2>1, <2>2 DEF TimerKind
  <2> QED  BY <1>3, <2>3 DEF Prefigures
<1>4. CASE /\ ~(o.type = "mutex" /\ o.owner = u)
           /\ ~(o.type = "thread" /\ o.thread = u)
           /\ ~(o.type = "timer" /\ o.thread = u /\ o.callback)
  <2>1. r = o
    BY <1>4 DEF Exited
  <2> QED  BY <1>4, <2>1 DEF Prefigures
<1> QED  BY <1>1, <1>2, <1>3, <1>4

(* terminate_windows_thread: the mutexes of the thread are abandoned, and   *)
(* those who wait for them are told.                                        *)
LEMMA TerminateServes ==
    ASSUME IInv, NEW t \in Threads, NEW u \in Threads, TerminateThread(t, u)
    PROVE  Serves
<1>1. /\ Commit(ResolveWaiters(ExitThreadObjects(DropThread(Plan, u), u), nextWait, now))
      /\ live' = live \ {u}
  BY DEF TerminateThread
<1>2. PICK D : D = {k \in DOMAIN waits : waits[k].thread # u}
  OBVIOUS
<1>3. PICK V : V = [k \in D |-> waits[k]]
  OBVIOUS
<1>4. V \in [D -> WaitRecord] /\ \A k \in D : V[k] = waits[k]
  BY <1>2, <1>3 DEF IInv, WaitInv, WaitsTyped
<1>5. WaitsFit(V, D, live) /\ WaitsFit(V, D, live \ {u})
  BY <1>2, <1>4 DEF IInv, WaitInv, WaitsFit
<1>6. PICK a : a = DropThread(Plan, u)
  OBVIOUS
<1>7. a = [Plan EXCEPT !.waits = V]
  BY <1>2, <1>3, <1>6 DEF DropThread, Plan
<1>8. SoundPlan(a, D, live) /\ a.waits = V /\ a.objects = objects
  <2>1. SoundPlan(a, D, live)
    BY <1>4, <1>5, <1>7, PlanFacts, SoundTable
  <2> QED  BY <1>7, <2>1 DEF Plan
<1>9. PICK b : b = ExitThreadObjects(a, u)
  OBVIOUS
<1>10. SoundPlan(b, D, live \ {u}) /\ b.waits = V
  BY <1>5, <1>8, <1>9, SoundExit
<1>11. ASSUME NEW s \in Slots
       PROVE  /\ Prefigures(objects[s], b.objects[s])
              /\ objects[s].type = "mutex" /\ objects[s].owner = u => b.objects[s].abandoned
              /\ objects[s].type = "mutex" /\ objects[s].owner # u => b.objects[s] = objects[s]
  <2>1. a \in Plans(D)
    BY <1>8 DEF SoundPlan
  <2>2. b.objects[s] = Exited(objects[s], u)
    BY <1>8, <1>9, <2>1, ExitObjects
  <2>3. objects[s] \in ObjectKind
    BY PlanFacts
  <2> QED  BY <2>2, <2>3, ExitPrefigures
<1>12. Told(b.waits, D) /\ LoneWaits(b.waits, D) /\ D \subseteq DOMAIN waits
  <2>1. \A k \in D : SameWait(waits[k], V[k]) /\ V[k].result = waits[k].result
    BY <1>4 DEF SameWait
  <2>2. D \subseteq DOMAIN waits
    BY <1>2
  <2> QED  BY <1>10, <2>1, <2>2, LoneDecided DEF Told, IInv
<1>13. Prepared(b, D)
  <2>1. ASSUME NEW s \in Slots, objects[s].type = "mutex"
        PROVE  b.objects[s].abandoned <=> LeftBehind(s)
    <3>1. ObjectSound(objects[s], s \in signaled, live, nextHandle)
      BY DEF IInv, ObjectInv, ObjectsSound, Plan
    <3>2. objects[s].owner # NoThread => objects[s].owner \in live
      BY <2>1, <3>1 DEF ObjectSound, MutexSound
    <3>3. CASE objects[s].owner = u
      <4>1. LeftBehind(s)
        BY <1>1, <2>1, <3>3, NoThreadAssumption DEF LeftBehind
      <4> QED  BY <1>11, <2>1, <3>3, <4>1
    <3>4. CASE objects[s].owner # u
      <4>1. LeftBehind(s) <=> objects[s].abandoned
        BY <1>1, <2>1, <3>2, <3>4 DEF LeftBehind
      <4> QED  BY <1>11, <2>1, <3>4, <4>1
    <3> QED  BY <3>3, <3>4
  <2> QED  BY <1>11, <1>12, <2>1 DEF Prepared
<1>14. PICK q : q = ResolveWaiters(b, nextWait, now)
  OBVIOUS
<1>15. q \in Plans(D) /\ Commit(q)
  BY <1>1, <1>6, <1>9, <1>10, <1>12, <1>13, <1>14, PassedOnce
<1> QED  BY <1>10, <1>12, <1>13, <1>14, <1>15, PassCommitted

(* Everything that a thread of the guest program calls.                     *)
LEMMA GuestServes ==
    ASSUME IInv, NEW t \in Threads, NEW usable \in SUBSET DOMAIN handles, Guest(t, usable)
    PROVE  Serves
<1>1. CASE CreateEvent(t) \/ CreateMutex(t) \/ CreateSemaphore(t) \/ CreateWaitableTimer(t)
  BY <1>1, CreatesServe
<1>2. ASSUME NEW target \in Threads,
             OpenThread(t, target) \/ QueueUserAPC(t, target) \/ TerminateThread(t, target)
      PROVE  Serves
  BY <1>2, HandlesServe, QueueUserAPCServes, TerminateServes
<1>3. ASSUME NEW h \in usable,
             \/ DuplicateHandle(t, h) \/ CloseHandle(t, h)
             \/ SetEvent(t, h) \/ ResetEvent(t, h) \/ PulseEvent(t, h) \/ ReleaseMutex(t, h)
             \/ CancelWaitableTimer(t, h)
      PROVE  Serves
  <2>1. h \in DOMAIN handles
    OBVIOUS
  <2>2. CASE DuplicateHandle(t, h) \/ CloseHandle(t, h)
    BY <2>1, <2>2, HandlesServe
  <2>3. CASE SetEvent(t, h) \/ ResetEvent(t, h) \/ PulseEvent(t, h)
    BY <2>1, <2>3, EventsServe
  <2>4. CASE ReleaseMutex(t, h)
    BY <2>1, <2>4, ReleaseServes DEF ReleaseMutex
  <2>5. CASE CancelWaitableTimer(t, h)
    BY <2>1, <2>5, CancelSets, TimerSetServes
  <2> QED  BY <1>3, <2>2, <2>3, <2>4, <2>5
<1>4. ASSUME NEW h \in usable, NEW count \in 1 .. MaxCount, ReleaseSemaphore(t, h, count)
      PROVE  Serves
  <2>1. h \in DOMAIN handles
    OBVIOUS
  <2> QED  BY <1>4, <2>1, ReleaseSemaphoreServes
<1>5. ASSUME NEW h \in usable, NEW awaited \in usable, SignalObjectAndWait(t, h, awaited)
      PROVE  Serves
  <2>1. h \in DOMAIN handles /\ awaited \in DOMAIN handles
    OBVIOUS
  <2> QED  BY <1>5, <2>1, SignalObjectAndWaitServes
<1>6. ASSUME NEW h \in usable, NEW delay \in Delays, NEW period \in {0, 1},
             NEW callback \in BOOLEAN, SetWaitableTimer(t, h, delay, period, callback)
      PROVE  Serves
  <2>1. h \in DOMAIN handles /\ delay \in Nat /\ period \in Nat
    BY BoundsAssumption
  <2> QED  BY <1>6, <2>1, SetSets, TimerSetServes
<1>7. CASE WaitForObjects(t, usable) \/ Sleep(t)
  BY <1>7, WaitsServe
<1> QED  BY <1>1, <1>2, <1>3, <1>4, <1>5, <1>6, <1>7 DEF Guest

(* Every step serves its waits so.                                          *)
LEMMA NextServes == IInv /\ [Next]_vars => Serves
<1> SUFFICES ASSUME IInv, [Next]_vars PROVE Serves
  OBVIOUS
<1>1. ASSUME NEW t \in Threads, Guest(t, DOMAIN handles) PROVE Serves
  BY <1>1, GuestServes
<1>2. ASSUME NEW t \in Threads,
             FinishReply(t) \/ CancelWait(t) \/ DeliverApc(t) \/ ReturnApc(t)
      PROVE  Serves
  BY <1>2, EndsServe, DeliverApcServes
<1>3. ASSUME NEW t \in now .. Horizon, Tick(t) PROVE Serves
  BY <1>3, TickServes
<1>4. CASE UNCHANGED vars
  <2>1. UNCHANGED <<objects, live>> /\ waits' = waits
    BY <1>4 DEF vars, context
  <2> QED  BY <2>1, ObjectsAlone
<1> QED  BY <1>1, <1>2, <1>3, <1>4 DEF Next

(* The counts of semaphores.                                                *)
CountsInv ==
    \A s \in Slots : objects[s].type = "semaphore" => objects[s].count <= objects[s].maximum

(* No semaphore holds more units than its maximum: the posts and the grants *)
(* of a step are counted together.                                          *)
THEOREM SemaphoresStayBounded == Spec => []CountsInv
<1>1. Init => CountsInv
  BY DEF Init, CountsInv, Free
<1>2. ASSUME IInv, IInv', CountsInv, Serves PROVE CountsInv'
  <2>1. ASSUME NEW s \in Slots, objects'[s].type = "semaphore"
        PROVE  objects'[s].count <= objects'[s].maximum
    <3>1. CASE objects[s].type # "semaphore"
      BY <1>2, <2>1, <3>1 DEF Serves, UnitsCounted
    <3>2. CASE objects[s].type = "semaphore"
      <4>1. /\ objects'[s].maximum = objects[s].maximum
            /\ Cardinality(TakersOf(s)) + objects'[s].count <= objects[s].maximum
        BY <1>2, <2>1, <3>2 DEF Serves, UnitsCounted, CountsInv
      <4>2. objects'[s].count \in Nat /\ objects'[s].maximum \in Nat
        <5>1. objects'[s] \in ObjectKind
          BY <1>2 DEF IInv, ObjectInv, ObjectsTyped
        <5> QED  BY <2>1, <5>1, Kinds DEF SemaphoreKind
      <4>3. Cardinality(TakersOf(s)) \in Nat
        <5>1. TakersOf(s) \subseteq 1 .. nextWait /\ nextWait \in Nat
          BY <1>2 DEF TakersOf, NewlyGranted, Undecided, IInv, WaitInv, WaitsTyped
        <5>2. IsFiniteSet(1 .. nextWait)
          BY <5>1, FS_Interval
        <5> QED  BY <5>1, <5>2, FS_Subset, FS_CardinalityType
      <4> QED  BY <4>1, <4>2, <4>3
    <3> QED  BY <3>1, <3>2
  <2> QED  BY <2>1 DEF CountsInv
<1>3. IInv /\ IInv' /\ CountsInv /\ [Next]_vars => CountsInv'
  BY <1>2, NextServes
<1> QED  BY <1>1, <1>3, DispatcherSound, PTL DEF Spec

(* Waiters are served in the order they began to wait.                      *)
THEOREM WaitersAreServedInOrder == Spec => FirstComeFirstServed
<1> DEFINE InTurn == \A w \in NewlyGranted : \A v \in Undecided \cap DOMAIN waits' :
         LET rivals == /\ v < w
                       /\ waits[v].slots = waits'[w].slots
                       /\ waits[v].mode = waits'[w].mode
                       /\ \A s \in TakenBy(waits'[w]) :
                            \/ objects[s].type # "mutex"
                            \/ objects[s].owner # waits[w].thread
         IN  rivals => waits'[v].result # Pending
<1>1. GrantedInOrder => InTurn
  BY DEF GrantedInOrder
<1> HIDE DEF InTurn
<1>2. IInv /\ [Next]_vars => [InTurn]_vars
  BY <1>1, NextServes DEF Serves
<1>3. Spec => [][InTurn]_vars
  BY <1>2, DispatcherSound, PTL DEF Spec
<1> QED  BY <1>3 DEF FirstComeFirstServed, InTurn

(* One signal, one thread; and never more units than were posted.           *)
THEOREM SignalsServeOnce == Spec => SignalsAreNotShared
<1> DEFINE Shares ==
     \A s \in Slots :
         LET takers == {w \in NewlyGranted : s \in TakenBy(waits'[w])}
             o == objects[s]
         IN  /\ \/ o.type = "mutex"
                \/ o.type \in {"event", "timer"} /\ ~o.manual
                => Cardinality(takers) <= 1
             /\ o.type = "semaphore" /\ objects'[s].type = "semaphore"
                => Cardinality(takers) + objects'[s].count <= o.maximum
<1>1. ASSUME CountsInv, Serves PROVE Shares
  <2>1. GrantedAlone /\ UnitsCounted
    BY <1>1 DEF Serves
  <2>2. ASSUME NEW s \in Slots
        PROVE  /\ \/ objects[s].type = "mutex"
                  \/ objects[s].type \in {"event", "timer"} /\ ~objects[s].manual
                  => Cardinality(TakersOf(s)) <= 1
               /\ objects[s].type = "semaphore" /\ objects'[s].type = "semaphore"
                  => Cardinality(TakersOf(s)) + objects'[s].count <= objects[s].maximum
    BY <1>1, <2>1 DEF GrantedAlone, UnitsCounted, CountsInv
  <2> QED  BY <2>2 DEF TakersOf
<1> HIDE DEF Shares
<1>2. IInv /\ CountsInv /\ [Next]_vars => [Shares]_vars
  BY <1>1, NextServes
<1>3. Spec => [][Shares]_vars
  BY <1>2, DispatcherSound, SemaphoresStayBounded, PTL DEF Spec
<1> QED  BY <1>3, PTL DEF SignalsAreNotShared, Shares

(* What a step that ends in a sound state says of abandonment.              *)
Reports ==
    /\ \A w \in NewlyGranted :
          waits'[w].result >= Abandoned <=> \E s \in TakenBy(waits'[w]) : LeftBehind(s)
    /\ \A s \in Slots : objects'[s].type = "mutex" =>
          (objects'[s].abandoned <=> LeftBehind(s) /\ objects'[s].owner = NoThread)

LEMMA ServedReports == ASSUME IInv', Serves PROVE Reports
<1>1. ASSUME NEW s \in Slots, objects'[s].type = "mutex"
      PROVE  objects'[s].abandoned <=> LeftBehind(s) /\ objects'[s].owner = NoThread
  <2>1. ObjectSound(objects[s], s \in signaled, live, nextHandle)'
    BY DEF IInv, ObjectInv, ObjectsSound, Plan
  <2>2. objects'[s].abandoned => objects'[s].owner = NoThread
    BY <1>1, <2>1 DEF ObjectSound, MutexSound
  <2> QED  BY <1>1, <2>2 DEF Serves, MarksExact, MarkExact
<1> QED  BY <1>1 DEF Serves, AbandonedTold, Reports

(* Who gets a mutex that its owner left by exiting, in the step or long     *)
(* before it, is told, and nobody else; the mark stays until then.          *)
THEOREM AbandonmentIsTold == Spec => AbandonmentIsReported
<1>1. IInv /\ IInv' /\ [Next]_vars => [Reports]_vars
  BY NextServes, ServedReports
<1>2. Spec => [][Reports]_vars
  BY <1>1, DispatcherSound, PTL DEF Spec
<1> QED  BY <1>2 DEF AbandonmentIsReported, Reports
=============================================================================
