------------------------ MODULE ModuleLoadingProofs -------------------------
(***************************************************************************)
(* Theorems about ModuleLoading, for every set of threads and modules,     *)
(* every import graph and every limit.                                     *)
(***************************************************************************)
EXTENDS ModuleLoading, FiniteSetTheorems, SequenceTheorems, WellFoundedInduction, TLAPS

-----------------------------------------------------------------------------
(* Stacks of operations, whatever their elements are. *)

Stack(s) == Len(s) \in Nat /\ s \in Seq({s[i] : i \in 1 .. Len(s)})

LEMMA Widened == ASSUME NEW S, NEW T, NEW r \in Seq(S),
                        \A i \in 1 .. Len(r) : r[i] \in T
                 PROVE  r \in Seq(T)
OBVIOUS

LEMMA IsStack == ASSUME NEW S, NEW r \in Seq(S) PROVE Stack(r)
<1> DEFINE T == {r[i] : i \in 1 .. Len(r)}
<1>1. \A i \in 1 .. Len(r) : r[i] \in T
  OBVIOUS
<1>2. r \in Seq(T)
  <2> HIDE DEF T
  <2> QED
    BY <1>1, Widened
<1> QED
  BY <1>2 DEF Stack

LEMMA EmptyStack == Stack(<<>>) /\ Len(<<>>) = 0
BY DEF Stack

LEMMA Pushed == ASSUME NEW s, Stack(s), NEW e
                PROVE  /\ Stack(Append(s, e))
                       /\ Append(s, e) # <<>>
                       /\ Len(Append(s, e)) = Len(s) + 1
                       /\ \A i \in 1 .. Len(s) : Append(s, e)[i] = s[i]
                       /\ Append(s, e)[Len(s) + 1] = e
<1> DEFINE S == {s[i] : i \in 1 .. Len(s)} \cup {e}
           r == Append(s, e)
<1>1. s \in Seq(S) /\ e \in S
  BY DEF Stack
<1>2. /\ r \in Seq(S) /\ r # <<>> /\ Len(r) = Len(s) + 1
      /\ \A i \in 1 .. Len(s) : r[i] = s[i]
      /\ r[Len(s) + 1] = e
  <2> HIDE DEF S
  <2> QED
    BY <1>1, AppendProperties
<1>3. Stack(r)
  <2> HIDE DEF S, r
  <2> QED
    BY <1>2, IsStack
<1> QED
  BY <1>2, <1>3

LEMMA Popped == ASSUME NEW s, Stack(s), s # <<>>
                PROVE  /\ Stack(Front(s))
                       /\ Len(s) >= 1 /\ Len(Front(s)) = Len(s) - 1
                       /\ \A i \in 1 .. Len(s) - 1 : Front(s)[i] = s[i]
<1> DEFINE S == {s[i] : i \in 1 .. Len(s)}
           n == Len(s) - 1
           r == SubSeq(s, 1, n)
<1>1. s \in Seq(S) /\ Len(s) >= 1
  BY DEF Stack
<1>2. n \in Nat /\ \A i \in 1 .. n : s[i] \in S
  BY <1>1 DEF Stack
<1>3. /\ r \in Seq(S)
      /\ Len(r) = IF 1 <= n THEN n - 1 + 1 ELSE 0
      /\ \A i \in 1 .. n - 1 + 1 : r[i] = s[1 + i - 1]
  <2> HIDE DEF n, S
  <2> QED
    BY <1>2, SubSeqProperties
<1>4. Len(r) = n
  <2> HIDE DEF n, r
  <2> QED
    BY <1>2, <1>3
<1>5. \A i \in 1 .. n : r[i] = s[i]
  <2> HIDE DEF n, r
  <2> QED
    BY <1>2, <1>3
<1>6. Stack(r)
  <2> HIDE DEF r, S
  <2> QED
    BY <1>3, IsStack
<1> HIDE DEF r
<1>7. Front(s) = r
  BY DEF Front, r
<1> QED
  BY <1>1, <1>2, <1>4, <1>5, <1>6, <1>7 DEF Stack

-----------------------------------------------------------------------------
(* The loader lock.  What the proof needs of the variables' types, and that *)
(* a thread whose request is parked does not wait for bytes as well: the    *)
(* request may take the lock when it is tried again.                        *)

Waits(t) == (IF source[t] # NoRequest THEN 1 ELSE 0)
              + (IF notice[t].open THEN 1 ELSE 0)

IsNotice(n) == n \in [open : BOOLEAN, calls : {n.calls}, active : BOOLEAN]

Shape ==
  /\ operations = [t \in Threads |-> operations[t]]
  /\ \A t \in Threads : Stack(operations[t])
  /\ source = [t \in Threads |-> source[t]]
  /\ waiting = [t \in Threads |-> waiting[t]]
  /\ notice = [t \in Threads |-> notice[t]]
  /\ \A t \in Threads : IsNotice(notice[t])
  /\ \A t \in Threads : waiting[t] # NoRequest => source[t] = NoRequest

LockInv == Shape /\ owner \in Threads \cup {NoThread} /\ LoaderLockExact

LEMMA LevelsAdd ==
  ASSUME Shape
  PROVE  \A t \in Threads : /\ Levels(t) = Len(operations[t]) + Waits(t)
                            /\ Waits(t) \in Nat /\ Levels(t) \in Nat
<1> SUFFICES ASSUME NEW t \in Threads
             PROVE  /\ Levels(t) = Len(operations[t]) + Waits(t)
                    /\ Waits(t) \in Nat /\ Levels(t) \in Nat
  OBVIOUS
<1> DEFINE a == IF source[t] # NoRequest THEN 1 ELSE 0
           b == IF notice[t].open THEN 1 ELSE 0
           l == Len(operations[t])
<1>1. l \in Nat
  BY DEF Shape, Stack
<1>2. a \in Nat /\ b \in Nat
  OBVIOUS
<1>3. Levels(t) = l + a + b /\ Waits(t) = a + b
  BY DEF Levels, Waits
<1> HIDE DEF a, b, l
<1>4. l + a + b = l + (a + b) /\ a + b \in Nat /\ l + (a + b) \in Nat
  BY <1>1, <1>2
<1> USE DEF l
<1> QED
  BY <1>3, <1>4

\* The same of the state after a step.
LEMMA LevelsAddNext ==
  ASSUME Shape'
  PROVE  \A t \in Threads : /\ Levels(t)' = Len(operations'[t]) + Waits(t)'
                            /\ Waits(t)' \in Nat /\ Levels(t)' \in Nat
<1> SUFFICES ASSUME NEW t \in Threads
             PROVE  /\ Levels(t)' = Len(operations'[t]) + Waits(t)'
                    /\ Waits(t)' \in Nat /\ Levels(t)' \in Nat
  OBVIOUS
<1> DEFINE a == IF source'[t] # NoRequest THEN 1 ELSE 0
           b == IF notice'[t].open THEN 1 ELSE 0
           l == Len(operations'[t])
<1>1. l \in Nat
  BY DEF Shape, Stack
<1>2. a \in Nat /\ b \in Nat
  OBVIOUS
<1>3. Levels(t)' = l + a + b /\ Waits(t)' = a + b
  BY DEF Levels, Waits, NoRequest, Request
<1> HIDE DEF a, b, l
<1>4. l + a + b = l + (a + b) /\ a + b \in Nat /\ l + (a + b) \in Nat
  BY <1>1, <1>2
<1> USE DEF l
<1> QED
  BY <1>3, <1>4

\* While a thread may take the lock, the others have no loader work.
LEMMA OthersIdle ==
  ASSUME LockInv, NEW t \in Threads, Acquirable(t)
  PROVE  /\ \A u \in Threads \ {t} : Levels(u) = 0
         /\ depth = Levels(t) /\ depth \in Nat
<1>1. \A u \in Threads : Levels(u) \in Nat
  BY LevelsAdd DEF LockInv
<1>2. \A u \in Threads : Levels(u) # 0 => owner = u
  BY DEF LockInv, LoaderLockExact
<1>3. \A u \in Threads : u # NoThread
  BY ModulesAssumption
<1>4. depth = IF owner = NoThread THEN 0 ELSE Levels(owner)
  BY DEF LockInv, LoaderLockExact
<1> QED
  BY <1>1, <1>2, <1>3, <1>4 DEF Acquirable

\* A thread with loader work owns the lock.
LEMMA WorkersOwn ==
  ASSUME LockInv, NEW t \in Threads,
         operations[t] # <<>> \/ source[t] # NoRequest \/ notice[t].open
  PROVE  Acquirable(t) /\ depth >= 1
<1>1. /\ Levels(t) = Len(operations[t]) + Waits(t)
      /\ Waits(t) \in Nat /\ Levels(t) \in Nat
  BY LevelsAdd DEF LockInv
<1>2. operations[t] # <<>> => Len(operations[t]) >= 1
  BY Popped DEF LockInv, Shape
<1>3. source[t] # NoRequest \/ notice[t].open => Waits(t) >= 1
  BY DEF Waits
<1>4. Len(operations[t]) \in Nat
  BY DEF LockInv, Shape, Stack
<1>5. Levels(t) # 0
  BY <1>1, <1>2, <1>3, <1>4
<1>6. Acquirable(t)
  BY <1>5 DEF LockInv, LoaderLockExact, Acquirable
<1> QED
  BY <1>1, <1>5, <1>6, OthersIdle

\* The lock after a step of t that leaves n levels of its work.
LEMMA LockMoves ==
  ASSUME LockInv, Shape', NEW t \in Threads, Acquirable(t),
         NEW n, Held(t, n), Levels(t)' = n,
         \A u \in Threads \ {t} : Levels(u)' = Levels(u)
  PROVE  LockInv'
<1>1. \A u \in Threads \ {t} : Levels(u)' = 0
  BY OthersIdle
<1>2. n \in Nat
  BY LevelsAddNext
<1>3. t # NoThread
  BY ModulesAssumption
<1>4. owner' = IF n = 0 THEN NoThread ELSE t
  BY DEF Held
<1>5. depth' = n
  BY DEF Held
<1>6. \A u \in Threads : Levels(u)' # 0 => owner' = u
  BY <1>1, <1>4
<1>7. depth' = IF owner' = NoThread THEN 0 ELSE Levels(owner)'
  BY <1>3, <1>4, <1>5
<1> QED
  BY <1>3, <1>4, <1>5, <1>6, <1>7 DEF LoaderLockExact, LockInv

-----------------------------------------------------------------------------
(* Every action keeps the lock exact. *)

\* An operation that goes on keeps its level, one that completes drops it.
LEMMA AdvanceMoves ==
  ASSUME operations = [u \in Threads |-> operations[u]], NEW t \in Threads,
         NEW s, NEW op, NEW stack, Stack(stack), NEW levels \in Nat,
         Advance(t, s, op, stack, levels)
  PROVE  \E n \in Nat :
           /\ Held(t, n)
           /\ operations' = [operations EXCEPT ![t] = operations'[t]]
           /\ Stack(operations'[t])
           /\ Len(operations'[t]) + levels = Len(stack) + n
<1> DEFINE ready == NewlyAttached(s, op)
           rest == SubSeq(op.steps, Len(Skipped(op)) + 1, Len(op.steps))
           parked == [op EXCEPT !.steps = IF rest = <<>> THEN <<>> ELSE Tail(rest),
                                !.active = IF rest = <<>> THEN NoStep ELSE Head(rest)]
           done == Completes(op) /\ CanComplete(ready, op)
<1>1. /\ operations' = [operations EXCEPT ![t] = IF done THEN stack
                                                  ELSE Append(stack, parked)]
      /\ Held(t, IF done THEN levels ELSE levels + 1)
  BY DEF Advance
<1>2. Len(stack) \in Nat
  BY DEF Stack
<1>3. CASE done
  <2>1. operations' = [operations EXCEPT ![t] = stack] /\ Held(t, levels)
    BY <1>1, <1>3
  <2> QED
    BY <1>2, <2>1
<1>4. CASE ~done
  <2>1. operations' = [operations EXCEPT ![t] = Append(stack, parked)]
        /\ Held(t, levels + 1)
    BY <1>1, <1>4
  <2> HIDE DEF parked, done
  <2>2. Stack(Append(stack, parked)) /\ Len(Append(stack, parked)) = Len(stack) + 1
    BY Pushed
  <2> QED
    BY <1>2, <2>1, <2>2, SMTT(30)
<1> QED
  BY <1>3, <1>4

\* The shape of the variables that a step may change at t alone.
OnlyAt(t) ==
  /\ operations' = [operations EXCEPT ![t] = operations'[t]]
  /\ Stack(operations'[t])
  /\ source' = [source EXCEPT ![t] = source'[t]]
  /\ waiting' = [waiting EXCEPT ![t] = waiting'[t]]
  /\ notice' = [notice EXCEPT ![t] = notice'[t]]
  /\ IsNotice(notice'[t])
  /\ waiting'[t] # NoRequest => source'[t] = NoRequest

LEMMA StepAt ==
  ASSUME LockInv, NEW t \in Threads, OnlyAt(t)
  PROVE  /\ Shape'
         /\ \A u \in Threads \ {t} : Levels(u)' = Levels(u)
         /\ Levels(t)' = Len(operations'[t]) + Waits(t)'
<1>1. \A u \in Threads \ {t} : /\ operations'[u] = operations[u]
                               /\ source'[u] = source[u]
                               /\ waiting'[u] = waiting[u]
                               /\ notice'[u] = notice[u]
  BY DEF OnlyAt, LockInv, Shape
<1>2. /\ operations' = [u \in Threads |-> operations'[u]]
      /\ source' = [u \in Threads |-> source'[u]]
      /\ waiting' = [u \in Threads |-> waiting'[u]]
      /\ notice' = [u \in Threads |-> notice'[u]]
  <2>1. operations' = [u \in Threads |-> operations'[u]]
    BY DEF OnlyAt, LockInv, Shape
  <2>2. source' = [u \in Threads |-> source'[u]]
    BY DEF OnlyAt, LockInv, Shape
  <2>3. waiting' = [u \in Threads |-> waiting'[u]]
    BY DEF OnlyAt, LockInv, Shape
  <2>4. notice' = [u \in Threads |-> notice'[u]]
    BY DEF OnlyAt, LockInv, Shape
  <2> QED
    BY <2>1, <2>2, <2>3, <2>4
<1>3. Shape'
  <2>1. \A u \in Threads : Stack(operations'[u])
    BY <1>1 DEF OnlyAt, LockInv, Shape
  <2>2. \A u \in Threads : IsNotice(notice'[u])
    BY <1>1 DEF OnlyAt, LockInv, Shape
  <2>3. \A u \in Threads : waiting'[u] # NoRequest => source'[u] = NoRequest
    BY <1>1 DEF OnlyAt, LockInv, Shape
  <2> QED
    BY <1>2, <2>1, <2>2, <2>3 DEF Shape
<1>4. \A u \in Threads \ {t} : Levels(u)' = Levels(u)
  BY <1>1 DEF Levels
<1>5. Levels(t)' = Len(operations'[t]) + Waits(t)'
  BY <1>3, LevelsAddNext
<1> QED
  BY <1>3, <1>4, <1>5

\* A step of t that advances an operation on top of `stack`.
LEMMA AdvanceKeeps ==
  ASSUME LockInv, NEW t \in Threads, Acquirable(t),
         NEW s, NEW op, NEW stack, Stack(stack), NEW levels \in Nat,
         Advance(t, s, op, stack, levels),
         levels = Len(stack) + Waits(t)',
         source' = [source EXCEPT ![t] = source'[t]],
         waiting' = [waiting EXCEPT ![t] = waiting'[t]],
         UNCHANGED notice,
         waiting'[t] # NoRequest => source'[t] = NoRequest
  PROVE  LockInv'
<1>1. PICK n \in Nat :
           /\ Held(t, n)
           /\ operations' = [operations EXCEPT ![t] = operations'[t]]
           /\ Stack(operations'[t])
           /\ Len(operations'[t]) + levels = Len(stack) + n
  BY AdvanceMoves DEF LockInv, Shape
<1>2. OnlyAt(t)
  <2>1. notice' = [notice EXCEPT ![t] = notice'[t]] /\ IsNotice(notice'[t])
    BY DEF LockInv, Shape
  <2> QED
    BY <1>1, <2>1 DEF OnlyAt
<1>3. /\ Shape'
      /\ \A u \in Threads \ {t} : Levels(u)' = Levels(u)
      /\ Levels(t)' = Len(operations'[t]) + Waits(t)'
  BY <1>2, StepAt
<1>4. Waits(t)' \in Nat
  BY <1>3, LevelsAddNext
<1>5. Len(operations'[t]) \in Nat /\ Len(stack) \in Nat
  BY <1>1 DEF Stack
<1>6. Levels(t)' = n
  BY <1>1, <1>3, <1>4, <1>5, SMTT(30)
<1> QED
  BY <1>1, <1>3, <1>6, LockMoves DEF LockInv

\* A step of t that moves the lock to n levels.
LEMMA HeldKeeps ==
  ASSUME LockInv, NEW t \in Threads, Acquirable(t), OnlyAt(t),
         NEW n, Held(t, n), Len(operations'[t]) + Waits(t)' = n
  PROVE  LockInv'
BY StepAt, LockMoves DEF LockInv

\* A step of t that leaves the lock alone.
LEMMA UnlockedKeeps ==
  ASSUME LockInv, NEW t \in Threads, OnlyAt(t), UNCHANGED <<owner, depth>>,
         UNCHANGED <<operations, source>>, notice'[t].open = notice[t].open
  PROVE  LockInv'
<1>1. /\ Shape'
      /\ \A u \in Threads \ {t} : Levels(u)' = Levels(u)
  BY StepAt
<1>2. Levels(t)' = Levels(t)
  BY DEF Levels
<1>3. \A u \in Threads : Levels(u)' = Levels(u)
  BY <1>1, <1>2
<1>4. LoaderLockExact'
  <2>1. \A u \in Threads : Levels(u)' # 0 => owner' = u
    BY <1>3 DEF LockInv, LoaderLockExact
  <2>2. depth' = IF owner' = NoThread THEN 0 ELSE Levels(owner)'
    <3>1. CASE owner = NoThread
      BY <3>1 DEF LockInv, LoaderLockExact
    <3>2. CASE owner \in Threads /\ owner # NoThread
      <4>1. notice'[owner].open = notice[owner].open
        BY <3>2 DEF OnlyAt, LockInv, Shape
      <4>2. depth = Levels(owner)
        BY <3>2 DEF LockInv, LoaderLockExact
      <4> QED
        BY <3>2, <4>1, <4>2 DEF Levels
    <3> QED
      BY <3>1, <3>2 DEF LockInv
  <2>3. owner' # NoThread => depth' # 0
    BY DEF LockInv, LoaderLockExact
  <2> QED
    BY <2>1, <2>2, <2>3 DEF LoaderLockExact
<1> QED
  BY <1>1, <1>4 DEF LockInv

\* Requests that a thread makes while it does not wait for anything.
Asks(t) ==
  /\ Acquirable(t)
  /\ source[t] = NoRequest
  /\ waiting' = [waiting EXCEPT ![t] = NoRequest]
  /\ UNCHANGED notice

LEMMA SameAt ==
  ASSUME LockInv, NEW t \in Threads
  PROVE  /\ operations = [operations EXCEPT ![t] = operations[t]]
         /\ source = [source EXCEPT ![t] = source[t]]
         /\ waiting = [waiting EXCEPT ![t] = waiting[t]]
         /\ notice = [notice EXCEPT ![t] = notice[t]]
         /\ Stack(operations[t]) /\ IsNotice(notice[t])
<1>1. operations = [operations EXCEPT ![t] = operations[t]]
  BY DEF LockInv, Shape
<1>2. source = [source EXCEPT ![t] = source[t]]
  BY DEF LockInv, Shape
<1>3. waiting = [waiting EXCEPT ![t] = waiting[t]]
  BY DEF LockInv, Shape
<1>4. notice = [notice EXCEPT ![t] = notice[t]]
  BY DEF LockInv, Shape
<1>5. Stack(operations[t]) /\ IsNotice(notice[t])
  BY DEF LockInv, Shape
<1> QED
  BY <1>1, <1>2, <1>3, <1>4, <1>5

\* What an asking thread does without touching lock, stack or source.
LEMMA AskingKeeps ==
  ASSUME LockInv, NEW t \in Threads, Asks(t),
         UNCHANGED <<operations, source, owner, depth>>
  PROVE  LockInv'
<1>1. waiting'[t] = NoRequest
  BY DEF Asks, LockInv, Shape
<1>2. OnlyAt(t)
  BY <1>1, SameAt DEF Asks, OnlyAt
<1> QED
  BY <1>2, UnlockedKeeps DEF Asks

LEMMA InstallKeeps ==
  ASSUME LockInv, NEW t \in Threads, Acquirable(t), NEW r, NEW levels \in Nat,
         Install(t, r, levels),
         levels = Len(operations[t]) + Waits(t)',
         source' = [source EXCEPT ![t] = source'[t]],
         waiting' = [waiting EXCEPT ![t] = waiting'[t]],
         UNCHANGED notice,
         waiting'[t] # NoRequest => source'[t] = NoRequest
  PROVE  LockInv'
<1>1. PICK s, op : Advance(t, s, op, operations[t], levels)
  BY DEF Install
<1> QED
  BY <1>1, SameAt, AdvanceKeeps

LEMMA BeginLoadKeeps ==
  ASSUME LockInv, NEW t \in Threads, Asks(t), NEW r, r # NoRequest,
         BeginLoad(t, r)
  PROVE  LockInv'
<1>1. /\ depth = Len(operations[t]) + Waits(t) /\ depth \in Nat
      /\ Len(operations[t]) \in Nat /\ Waits(t) \in Nat
  BY OthersIdle, LevelsAdd DEF LockInv, Shape, Stack, Asks
<1>2. waiting'[t] = NoRequest /\ waiting' = [waiting EXCEPT ![t] = waiting'[t]]
  BY DEF Asks, LockInv, Shape
<1>3. CASE Install(t, r, depth) /\ UNCHANGED source
  <2>1. Waits(t)' = Waits(t)
    BY <1>3 DEF Waits, Asks
  <2> QED
    BY <1>1, <1>2, <1>3, <2>1, SameAt, InstallKeeps DEF Asks
<1>4. CASE /\ source' = [source EXCEPT ![t] = r]
           /\ Held(t, depth + 1)
           /\ UNCHANGED <<modules, operations, exited, late>>
  <2>1. source'[t] = r
    BY <1>4 DEF LockInv, Shape
  <2>2. Waits(t)' = Waits(t) + 1
    BY <2>1 DEF Waits, Asks
  <2>3. OnlyAt(t)
    BY <1>2, <1>4, <2>1, SameAt DEF OnlyAt, Asks
  <2>4. Len(operations'[t]) + Waits(t)' = depth + 1
    BY <1>1, <1>4, <2>2
  <2> QED
    BY <1>4, <2>3, <2>4, HeldKeeps DEF Asks
<1> QED
  BY <1>3, <1>4 DEF BeginLoad

LEMMA PerformKeeps ==
  ASSUME LockInv, NEW t \in Threads, Asks(t), NEW r, Perform(t, r)
  PROVE  LockInv'
<1>1. /\ depth = Len(operations[t]) + Waits(t) /\ depth \in Nat
  BY OthersIdle, LevelsAdd DEF LockInv, Asks
<1>2. waiting'[t] = NoRequest /\ waiting' = [waiting EXCEPT ![t] = waiting'[t]]
  BY DEF Asks, LockInv, Shape
<1>3. ASSUME NEW s, NEW op, Advance(t, s, op, operations[t], depth), UNCHANGED source
      PROVE  LockInv'
  <2>1. Waits(t)' = Waits(t)
    BY <1>3 DEF Waits, Asks
  <2> QED
    BY <1>1, <1>2, <1>3, <2>1, SameAt, AdvanceKeeps DEF Asks
<1>4. CASE LoadLibrary(t, r)
  <2>1. r # NoRequest
    BY <1>4 DEF LoadLibrary, NoRequest, Request
  <2>2. CASE BeginLoad(t, r)
    BY <2>1, <2>2, BeginLoadKeeps
  <2>3. CASE RetainLoaded(t, r)
    BY <2>3, AskingKeeps DEF RetainLoaded
  <2> QED
    BY <1>4, <2>2, <2>3 DEF LoadLibrary
<1>5. CASE GetProcAddress(t, r)
  <2>1. r # NoRequest
    BY <1>5 DEF GetProcAddress, NoRequest, Request
  <2>2. CASE BeginLoad(t, r)
    BY <2>1, <2>2, BeginLoadKeeps
  <2>3. CASE AdoptDependency(t, r)
    BY <2>3, AskingKeeps DEF AdoptDependency
  <2> QED
    BY <1>5, <2>2, <2>3 DEF GetProcAddress
<1>6. CASE FreeLibrary(t, r)
  <2>1. CASE UNCHANGED <<operations, owner, depth, exited, late>>
    BY <1>6, <2>1, AskingKeeps DEF FreeLibrary
  <2>2. CASE \E s, op : Advance(t, s, op, operations[t], depth)
    BY <1>3, <1>6, <2>2 DEF FreeLibrary
  <2> QED
    BY <1>6, <2>1, <2>2 DEF FreeLibrary
<1>7. CASE DetachForExit(t, r)
  BY <1>3, <1>7 DEF DetachForExit
<1> QED
  BY <1>4, <1>5, <1>6, <1>7 DEF Perform

LEMMA InitLock == Init => LockInv
<1> SUFFICES ASSUME Init PROVE LockInv
  OBVIOUS
<1>1. Shape
  BY EmptyStack DEF Init, Shape, IsNotice, NoNotice
<1>2. \A t \in Threads : Levels(t) = 0
  BY EmptyStack DEF Init, Levels, NoNotice
<1> QED
  BY <1>1, <1>2 DEF Init, LockInv, LoaderLockExact

LEMMA CallKeeps ==
  ASSUME LockInv, NEW t \in Threads, NEW r, Call(t, r) PROVE LockInv'
<1>1. Asks(t)
  BY SameAt DEF Call, Guest, Asks
<1> QED
  BY <1>1, PerformKeeps DEF Call

LEMMA StartKeeps == ASSUME LockInv, StartProcess PROVE LockInv'
<1>1. Primary \in Threads
  BY ModulesAssumption
<1>2. Asks(Primary)
  BY <1>1, SameAt DEF StartProcess, Asks
<1>3. Request("start", Main) # NoRequest
  BY DEF Request, NoRequest
<1> QED
  BY <1>1, <1>2, <1>3, BeginLoadKeeps DEF StartProcess

LEMMA RetryKeeps ==
  ASSUME LockInv, NEW t \in Threads, RetryRequest(t) PROVE LockInv'
<1>1. Asks(t)
  BY DEF RetryRequest, Asks, LockInv, Shape
<1>2. CASE Perform(t, waiting[t])
  BY <1>1, <1>2, PerformKeeps
<1>3. CASE UNCHANGED <<modules, operations, owner, depth, source, exited, late>>
  BY <1>1, <1>3, AskingKeeps
<1> QED
  BY <1>2, <1>3 DEF RetryRequest

LEMMA ParkKeeps ==
  ASSUME LockInv, NEW t \in Threads, NEW r, ParkRequest(t, r) PROVE LockInv'
<1>1. OnlyAt(t)
  BY SameAt DEF ParkRequest, Guest, OnlyAt, LockInv, Shape
<1> QED
  BY <1>1, UnlockedKeeps DEF ParkRequest

LEMMA SourceKeeps ==
  ASSUME LockInv, NEW t \in Threads, ResumeSource(t) PROVE LockInv'
<1>1. Acquirable(t) /\ depth >= 1
  BY WorkersOwn DEF ResumeSource
<1>2. source'[t] = NoRequest /\ source' = [source EXCEPT ![t] = source'[t]]
  BY DEF ResumeSource, LockInv, Shape
<1>3. Waits(t) = Waits(t)' + 1 /\ Waits(t)' \in Nat
  BY <1>2 DEF Waits, ResumeSource
<1>4. depth = Len(operations[t]) + Waits(t) /\ depth \in Nat
  BY <1>1, OthersIdle, LevelsAdd DEF LockInv
<1>5. depth - 1 = Len(operations[t]) + Waits(t)' /\ depth - 1 \in Nat
  BY <1>1, <1>3, <1>4 DEF LockInv, Shape, Stack
<1>6. CASE Install(t, source[t], depth - 1)
  BY <1>1, <1>2, <1>5, <1>6, SameAt, InstallKeeps DEF ResumeSource
<1>7. CASE Held(t, depth - 1) /\ UNCHANGED <<modules, operations, exited, late>>
  <2>1. OnlyAt(t)
    BY <1>2, <1>7, SameAt DEF OnlyAt, ResumeSource
  <2> QED
    BY <1>1, <1>5, <1>7, <2>1, HeldKeeps
<1> QED
  BY <1>6, <1>7 DEF ResumeSource

\* The innermost operation of t is taken from the stack and advanced.
LEMMA TopKeeps ==
  ASSUME LockInv, NEW t \in Threads, Guest(t), operations[t] # <<>>,
         NEW s, NEW op, Advance(t, s, op, Front(operations[t]), depth - 1),
         UNCHANGED <<waiting, source, notice>>
  PROVE  LockInv'
<1>1. Acquirable(t) /\ depth >= 1
  BY WorkersOwn
<1>2. depth = Len(operations[t]) + Waits(t) /\ depth \in Nat /\ Waits(t) \in Nat
  BY <1>1, OthersIdle, LevelsAdd DEF LockInv
<1>3. Stack(Front(operations[t])) /\ Len(Front(operations[t])) = Len(operations[t]) - 1
  BY SameAt, Popped
<1>4. Len(operations[t]) \in Nat
  BY SameAt DEF Stack
<1>5. Waits(t)' = Waits(t)
  BY DEF Waits
<1>6. depth - 1 = Len(Front(operations[t])) + Waits(t)' /\ depth - 1 \in Nat
  BY <1>1, <1>2, <1>3, <1>4, <1>5
<1>7. /\ source' = [source EXCEPT ![t] = source'[t]]
      /\ waiting' = [waiting EXCEPT ![t] = waiting'[t]]
      /\ waiting'[t] # NoRequest => source'[t] = NoRequest
  BY SameAt DEF Guest
<1> QED
  BY <1>1, <1>3, <1>6, <1>7, AdvanceKeeps

LEMMA FinishKeeps ==
  ASSUME LockInv, NEW t \in Threads, NEW success, FinishInitializer(t, success)
  PROVE  LockInv'
<1>1. PICK s, op : Advance(t, s, op, Front(operations[t]), depth - 1)
  BY DEF FinishInitializer
<1> QED
  BY <1>1, TopKeeps DEF FinishInitializer

LEMMA AbortKeeps ==
  ASSUME LockInv, NEW t \in Threads, AbortOperation(t) PROVE LockInv'
BY TopKeeps DEF AbortOperation

\* A notification begins or ends.
LEMMA Changed ==
  ASSUME LockInv, NEW t \in Threads
  PROVE  /\ notice' = [notice EXCEPT ![t].active = TRUE] =>
              \E n : /\ notice' = [notice EXCEPT ![t] = n]
                     /\ IsNotice(n) /\ n.open = notice[t].open
         /\ notice' = [notice EXCEPT ![t].active = FALSE, ![t].calls = Tail(@)] =>
              \E n : /\ notice' = [notice EXCEPT ![t] = n]
                     /\ IsNotice(n) /\ n.open = notice[t].open
<1>1. IsNotice(notice[t])
  BY SameAt
<1>2. ASSUME notice' = [notice EXCEPT ![t].active = TRUE]
      PROVE  \E n : /\ notice' = [notice EXCEPT ![t] = n]
                    /\ IsNotice(n) /\ n.open = notice[t].open
  <2> DEFINE n == [notice[t] EXCEPT !.active = TRUE]
  <2>1. notice' = [notice EXCEPT ![t] = n]
    BY <1>2
  <2>2. IsNotice(n) /\ n.open = notice[t].open
    BY <1>1 DEF IsNotice
  <2> HIDE DEF n
  <2> QED
    BY <2>1, <2>2
<1>3. ASSUME notice' = [notice EXCEPT ![t].active = FALSE, ![t].calls = Tail(@)]
      PROVE  \E n : /\ notice' = [notice EXCEPT ![t] = n]
                    /\ IsNotice(n) /\ n.open = notice[t].open
  <2> DEFINE n == [[notice[t] EXCEPT !.active = FALSE] EXCEPT !.calls = Tail(@)]
  <2>1. notice' = [notice EXCEPT ![t] = n]
    BY <1>3 DEF LockInv, Shape
  <2>2. IsNotice(n) /\ n.open = notice[t].open
    BY <1>1 DEF IsNotice
  <2> HIDE DEF n
  <2> QED
    BY <2>1, <2>2
<1> QED
  BY <1>2, <1>3

LEMMA NoticeKeeps ==
  ASSUME LockInv, NEW t \in Threads,
         \/ \E attach \in BOOLEAN : BeginNotice(t, attach)
         \/ CallNotice(t) \/ ReturnNotice(t) \/ EndNotice(t)
  PROVE  LockInv'
<1>1. CASE \E attach \in BOOLEAN : BeginNotice(t, attach)
  <2>1. PICK attach \in BOOLEAN : BeginNotice(t, attach)
    BY <1>1
  <2>2. /\ notice' = [notice EXCEPT ![t] = notice'[t]]
        /\ IsNotice(notice'[t]) /\ notice'[t].open
    <3>1. PICK c : notice' = [notice EXCEPT ![t] =
                     [open |-> TRUE, active |-> FALSE, calls |-> c]]
      BY <2>1 DEF BeginNotice
    <3>2. notice'[t] = [open |-> TRUE, active |-> FALSE, calls |-> c]
      BY <3>1 DEF LockInv, Shape
    <3>3. notice' = [notice EXCEPT ![t] = notice'[t]]
      BY <3>1, <3>2
    <3>4. IsNotice(notice'[t]) /\ notice'[t].open
      BY <3>2 DEF IsNotice
    <3> QED
      BY <3>3, <3>4
  <2>3. OnlyAt(t)
    BY <2>1, <2>2, SameAt DEF BeginNotice, OnlyAt
  <2>4. Acquirable(t) /\ depth = Len(operations[t]) + Waits(t) /\ depth \in Nat
        /\ Waits(t) \in Nat /\ Len(operations[t]) \in Nat
    BY <2>1, OthersIdle, LevelsAdd, SameAt DEF LockInv, BeginNotice, Stack
  <2>5. Waits(t)' = Waits(t) + 1
    BY <2>1, <2>2 DEF Waits, BeginNotice
  <2>6. Held(t, depth + 1) /\ Len(operations'[t]) + Waits(t)' = depth + 1
    BY <2>1, <2>4, <2>5 DEF BeginNotice
  <2> QED
    BY <2>3, <2>4, <2>6, HeldKeeps
<1>2. CASE CallNotice(t)
  <2>1. /\ notice' = [notice EXCEPT ![t] = notice'[t]]
        /\ IsNotice(notice'[t]) /\ notice'[t].open = notice[t].open
    <3>1. PICK n : /\ notice' = [notice EXCEPT ![t] = n]
                   /\ IsNotice(n) /\ n.open = notice[t].open
      <4>1. IsNotice(notice[t])
        BY SameAt
      <4> QED
        BY <1>2, <4>1, Changed DEF CallNotice
    <3>2. notice'[t] = n
      BY <3>1 DEF LockInv, Shape
    <3> QED
      BY <3>1, <3>2
  <2>2. OnlyAt(t)
    BY <1>2, <2>1, SameAt DEF CallNotice, OnlyAt, LockInv, Shape
  <2> QED
    BY <1>2, <2>1, <2>2, UnlockedKeeps DEF CallNotice
<1>3. CASE ReturnNotice(t)
  <2>1. /\ notice' = [notice EXCEPT ![t] = notice'[t]]
        /\ IsNotice(notice'[t]) /\ notice'[t].open = notice[t].open
    <3>1. PICK n : /\ notice' = [notice EXCEPT ![t] = n]
                   /\ IsNotice(n) /\ n.open = notice[t].open
      <4>1. IsNotice(notice[t])
        BY SameAt
      <4> QED
        BY <1>3, <4>1, Changed DEF ReturnNotice
    <3>2. notice'[t] = n
      BY <3>1 DEF LockInv, Shape
    <3> QED
      BY <3>1, <3>2
  <2>2. OnlyAt(t)
    BY <1>3, <2>1, SameAt DEF ReturnNotice, OnlyAt, LockInv, Shape
  <2> QED
    BY <1>3, <2>1, <2>2, UnlockedKeeps DEF ReturnNotice
<1>4. CASE EndNotice(t)
  <2>1. Acquirable(t) /\ depth >= 1
    BY <1>4, WorkersOwn DEF EndNotice
  <2>2. notice'[t] = NoNotice /\ notice' = [notice EXCEPT ![t] = notice'[t]]
    BY <1>4 DEF EndNotice, LockInv, Shape
  <2>3. OnlyAt(t)
    BY <1>4, <2>2, SameAt DEF EndNotice, OnlyAt, IsNotice, NoNotice, LockInv, Shape
  <2>4. depth = Len(operations[t]) + Waits(t) /\ depth \in Nat
        /\ Len(operations[t]) \in Nat
    BY <2>1, OthersIdle, LevelsAdd, SameAt DEF LockInv, Stack
  <2>5. Waits(t) = Waits(t)' + 1 /\ Waits(t)' \in Nat
    BY <1>4, <2>2 DEF Waits, EndNotice, NoNotice
  <2>6. Held(t, depth - 1) /\ Len(operations'[t]) + Waits(t)' = depth - 1
    BY <1>4, <2>4, <2>5 DEF EndNotice
  <2> QED
    BY <2>1, <2>3, <2>6, HeldKeeps
<1> QED
  BY <1>1, <1>2, <1>3, <1>4

LEMMA ReferenceKeeps ==
  ASSUME LockInv, NEW t \in Threads, NEW m, NEW pin, AddReference(t, m, pin)
  PROVE  LockInv'
<1>1. OnlyAt(t)
  BY SameAt DEF AddReference, Guest, OnlyAt
<1> QED
  BY <1>1, UnlockedKeeps DEF AddReference

LEMMA NextKeepsLock == LockInv /\ [Next]_vars => LockInv'
<1> SUFFICES ASSUME LockInv, [Next]_vars PROVE LockInv'
  OBVIOUS
<1>1. CASE StartProcess
  BY <1>1, StartKeeps
<1>2. ASSUME NEW t \in Threads, NEW r \in Calls, Call(t, r) \/ ParkRequest(t, r)
      PROVE  LockInv'
  BY <1>2, CallKeeps, ParkKeeps
<1>3. ASSUME NEW t \in Threads, NEW m \in Modules, NEW pin \in BOOLEAN,
             AddReference(t, m, pin)
      PROVE  LockInv'
  BY <1>3, ReferenceKeeps
<1>4. ASSUME NEW t \in Threads, RetryRequest(t) \/ ResumeSource(t) PROVE LockInv'
  BY <1>4, RetryKeeps, SourceKeeps
<1>5. ASSUME NEW t \in Threads, NEW success \in BOOLEAN, FinishInitializer(t, success)
      PROVE  LockInv'
  BY <1>5, FinishKeeps
<1>6. ASSUME NEW t \in Threads, AbortOperation(t) PROVE LockInv'
  BY <1>6, AbortKeeps
<1>7. ASSUME NEW t \in Threads,
             \/ \E attach \in BOOLEAN : BeginNotice(t, attach)
             \/ CallNotice(t) \/ ReturnNotice(t) \/ EndNotice(t)
      PROVE  LockInv'
  BY <1>7, NoticeKeeps
<1>8. CASE UNCHANGED vars
  BY <1>8 DEF vars, LockInv, Shape, LoaderLockExact, Levels
<1> QED
  BY <1>1, <1>2, <1>3, <1>4, <1>5, <1>6, <1>7, <1>8 DEF Next

(* The loader lock is held by the one thread with loader work, as deep as   *)
(* that work is nested: every acquire_loader_thread meets its release       *)
(* whichever way a load, an operation or a notification ends.              *)
THEOREM LoaderLockHolds == Spec => []LoaderLockExact
<1>1. LockInv => LoaderLockExact
  BY DEF LockInv
<1> QED
  BY <1>1, InitLock, NextKeepsLock, PTL DEF Spec

-----------------------------------------------------------------------------
(* Dependencies.  What the operators make of a sound set of modules.       *)

IsModuleSet(s) ==
  s \in [loaded : SUBSET Modules, dependencies : [Modules -> SUBSET Modules],
         explicit : {s.explicit}, pinned : {s.pinned}, attached : {s.attached},
         uninitialized : {s.uninitialized}]

Sound(s) ==
  /\ IsModuleSet(s)
  /\ \A m \in Modules : s.dependencies[m] # {} =>
       m \in s.loaded /\ s.dependencies[m] \subseteq s.loaded

\* What the dependencies need of an operation.
IsOperation(op) ==
  /\ op \in [purpose : {"load", "unload", "rollback", "shutdown"}, root : {op.root},
             ids : {op.ids}, initial : BOOLEAN, export : BOOLEAN, edges : {op.edges},
             steps : {op.steps}, active : {op.active}]
  /\ op.purpose = "unload" => op.edges = {}

\* The modules reached from the roots hold the roots and what those reach.
LEMMA ClosureIsClosed ==
  ASSUME NEW roots \in SUBSET Modules, NEW next \in [Modules -> SUBSET Modules]
  PROVE  /\ Closure(roots, next) \subseteq Modules
         /\ roots \subseteq Closure(roots, next)
         /\ \A m \in Closure(roots, next) : next[m] \subseteq Closure(roots, next)
BY DEF Closure

\* A plan adds what it needs and is not there.
LEMMA AdditionsSuffice ==
  ASSUME NEW s, Sound(s), NEW m \in Modules
  PROVE  /\ Additions(s, {m}) \subseteq Modules
         /\ m \in Additions(s, {m}) \cup s.loaded
         /\ \A n \in Additions(s, {m}) :
              Imports[n] \subseteq Additions(s, {m}) \cup s.loaded
<1> DEFINE next == [n \in Modules |-> IF n \in s.loaded THEN {} ELSE Imports[n]]
           C == Closure({m}, next)
<1>1. next \in [Modules -> SUBSET Modules]
  BY ModulesAssumption
<1>2. C \subseteq Modules /\ {m} \subseteq C /\ \A n \in C : next[n] \subseteq C
  <2> HIDE DEF next
  <2> QED
    BY <1>1, ClosureIsClosed
<1>3. Additions(s, {m}) = C \ s.loaded
  BY DEF Additions
<1>4. \A n \in C \ s.loaded : next[n] = Imports[n]
  BY <1>2
<1> HIDE DEF C, next
<1> QED
  BY <1>2, <1>3, <1>4

LEMMA AttachKeeps ==
  ASSUME NEW s, Sound(s), NEW a PROVE Sound([s EXCEPT !.attached = a])
BY DEF Sound, IsModuleSet

LEMMA PinKeeps ==
  ASSUME NEW s, Sound(s), NEW p PROVE Sound([s EXCEPT !.pinned = p])
BY DEF Sound, IsModuleSet

LEMMA CountKeeps ==
  ASSUME NEW s, Sound(s), NEW c PROVE Sound([s EXCEPT !.explicit = c])
BY DEF Sound, IsModuleSet

LEMMA NewlyAttachedSound ==
  ASSUME NEW s, Sound(s), NEW op PROVE Sound(NewlyAttached(s, op))
BY AttachKeeps DEF NewlyAttached

\* What is unloaded takes its edges along, and nothing that stays needs it.
LEMMA WithoutSound ==
  ASSUME NEW s, Sound(s), NEW ids, NEW edges, Unloadable(s, ids, edges)
  PROVE  Sound(Without(s, ids, edges))
<1> DEFINE w == Without(s, ids, edges)
           deps == [m \in Modules |-> IF m \in ids THEN {}
                      ELSE {d \in s.dependencies[m] : <<m, d>> \notin edges}]
<1>1. w.loaded = s.loaded \ ids /\ w.dependencies = deps
  BY DEF Without, Sound, IsModuleSet
<1>2. IsModuleSet(w)
  BY DEF Without, Sound, IsModuleSet
<1>3. ASSUME NEW m \in Modules, deps[m] # {}
      PROVE  m \in s.loaded \ ids /\ deps[m] \subseteq s.loaded \ ids
  <2>1. m \notin ids /\ deps[m] = {d \in s.dependencies[m] : <<m, d>> \notin edges}
    BY <1>3
  <2>2. m \in s.loaded /\ s.dependencies[m] \subseteq s.loaded
    BY <1>3, <2>1 DEF Sound
  <2>3. \A d \in s.dependencies[m] : d \in ids => <<m, d>> \in edges
    BY <2>1, <2>2 DEF Unloadable
  <2> QED
    BY <2>1, <2>2, <2>3
<1> HIDE DEF w, deps
<1>4. Sound(w)
  BY <1>1, <1>2, <1>3 DEF Sound
<1> QED
  BY <1>4 DEF w

LEMMA NoModulesSound == Sound(NoModules)
BY DEF NoModules, Sound, IsModuleSet

LEMMA CompletedSound ==
  ASSUME NEW s, Sound(s), NEW op, IsOperation(op), CanComplete(s, op)
  PROVE  Sound(Completed(s, op))
<1>1. CASE op.purpose = "load" /\ op.initial
  BY <1>1, PinKeeps DEF Completed
<1>2. CASE op.purpose = "load" /\ ~op.initial
  <2>1. Completed(s, op) = IF op.export THEN s
                           ELSE [s EXCEPT !.explicit[op.root] = @ + 1]
    BY <1>2 DEF Completed
  <2>2. [s EXCEPT !.explicit[op.root] = @ + 1]
          = [s EXCEPT !.explicit = [s.explicit EXCEPT ![op.root] = @ + 1]]
    BY DEF Sound, IsModuleSet
  <2>3. Sound([s EXCEPT !.explicit = [s.explicit EXCEPT ![op.root] = @ + 1]])
    BY CountKeeps
  <2> QED
    BY <2>1, <2>2, <2>3
<1>3. CASE op.purpose = "shutdown"
  BY <1>3, AttachKeeps DEF Completed
<1>4. CASE op.purpose = "rollback"
  BY <1>4, WithoutSound, NoModulesSound DEF Completed, CanComplete, IsOperation
<1>5. CASE op.purpose = "unload"
  <2> DEFINE rest == Without(s, op.ids, {})
  <2>1. Sound(rest)
    BY <1>5, WithoutSound DEF CanComplete, IsOperation
  <2>2. Completed(s, op) = IF op.root \in op.ids THEN rest
                           ELSE [rest EXCEPT !.explicit[op.root] = @ - 1]
    BY <1>5 DEF Completed
  <2> HIDE DEF rest
  <2>3. [rest EXCEPT !.explicit[op.root] = @ - 1]
          = [rest EXCEPT !.explicit = [rest.explicit EXCEPT ![op.root] = @ - 1]]
    BY <2>1 DEF Sound, IsModuleSet
  <2>4. Sound([rest EXCEPT !.explicit = [rest.explicit EXCEPT ![op.root] = @ - 1]])
    BY <2>1, CountKeeps
  <2> QED
    BY <2>1, <2>2, <2>3, <2>4
<1> QED
  BY <1>1, <1>2, <1>3, <1>4, <1>5 DEF IsOperation

\* An image brings no edges; other additions bring their imports, and the
\* module whose export is resolved an edge to an addition.
LEMMA InstalledSound ==
  ASSUME NEW s, Sound(s), NEW new \in SUBSET Modules, NEW edges, NEW image \in BOOLEAN,
         ~image => \A m \in new : Imports[m] \subseteq new \cup s.loaded,
         \A m, d \in Modules : <<m, d>> \in edges =>
            m \in s.loaded /\ d \in new \cup s.loaded
  PROVE  Sound(Installed(s, new, edges, image))
<1> DEFINE w == Installed(s, new, edges, image)
           deps == [m \in Modules |->
              IF m \in new THEN (IF image THEN {} ELSE Imports[m] \ {m})
              ELSE s.dependencies[m] \cup {d \in Modules : <<m, d>> \in edges}]
<1>1. w.loaded = s.loaded \cup new /\ w.dependencies = deps
  BY DEF Installed, Sound, IsModuleSet
<1>2. IsModuleSet(w)
  BY ModulesAssumption DEF Installed, Sound, IsModuleSet
<1>3. ASSUME NEW m \in Modules, deps[m] # {}
      PROVE  m \in s.loaded \cup new /\ deps[m] \subseteq s.loaded \cup new
  <2>1. CASE m \in new
    BY <2>1
  <2>2. CASE m \notin new
    <3>1. deps[m] = s.dependencies[m] \cup {d \in Modules : <<m, d>> \in edges}
      BY <2>2
    <3>2. s.dependencies[m] # {} => m \in s.loaded /\ s.dependencies[m] \subseteq s.loaded
      BY DEF Sound
    <3> HIDE DEF deps
    <3> QED
      BY <1>3, <3>1, <3>2
  <2> QED
    BY <2>1, <2>2
<1> HIDE DEF w, deps
<1>4. Sound(w)
  BY <1>1, <1>2, <1>3 DEF Sound
<1> QED
  BY <1>4 DEF w

-----------------------------------------------------------------------------
(* Every action keeps the dependencies sound.  A load that waits for bytes  *)
(* relies on the module whose export it resolves: it keeps the lock, so no  *)
(* other thread unloads that module meanwhile.                              *)

AllOperations(stack) == \A i \in 1 .. Len(stack) : IsOperation(stack[i])

Ready(s, r) ==
  /\ r.module \in Modules
  /\ r.call = "export" => r.module \in s.loaded /\ r.module \in DOMAIN Forward

DepInv ==
  /\ Sound(modules)
  /\ \A t \in Threads : AllOperations(operations[t])
  /\ \A t \in Threads : waiting[t].module \in Modules
  /\ \A t \in Threads : Ready(modules, source[t])

LEMMA NoRequestReady ==
  /\ NoRequest.module \in Modules
  /\ \A s : Ready(s, NoRequest)
BY ModulesAssumption DEF NoRequest, Request, Ready

\* A step that changes what is loaded is made by a thread that may take the
\* lock: no other thread waits for bytes.
LEMMA DepMoves ==
  ASSUME LockInv, DepInv, NEW t \in Threads, Acquirable(t), Sound(modules'),
         operations' = [operations EXCEPT ![t] = operations'[t]],
         AllOperations(operations'[t]),
         source' = [source EXCEPT ![t] = source'[t]],
         Ready(modules', source'[t]),
         \A u \in Threads : waiting'[u].module \in Modules
  PROVE  DepInv'
<1>1. \A u \in Threads \ {t} : source[u] = NoRequest
  <2> SUFFICES ASSUME NEW u \in Threads \ {t} PROVE source[u] = NoRequest
    OBVIOUS
  <2>1. Levels(u) = 0
    BY OthersIdle
  <2>2. Levels(u) = Len(operations[u]) + Waits(u) /\ Waits(u) \in Nat
    BY LevelsAdd DEF LockInv
  <2>3. Len(operations[u]) \in Nat
    BY DEF LockInv, Shape, Stack
  <2>4. Waits(u) = 0
    BY <2>1, <2>2, <2>3
  <2> QED
    BY <2>4 DEF Waits
<1>2. \A u \in Threads \ {t} : source'[u] = NoRequest
  BY <1>1 DEF LockInv, Shape
<1>3. \A u \in Threads \ {t} : operations'[u] = operations[u]
  BY DEF LockInv, Shape
<1>4. \A u \in Threads : AllOperations(operations'[u])
  BY <1>3 DEF DepInv
<1>5. \A u \in Threads : Ready(modules', source'[u])
  BY <1>2, NoRequestReady
<1> QED
  BY <1>4, <1>5 DEF DepInv

\* A step that loads and unloads nothing.
LEMMA DepStays ==
  ASSUME DepInv, Sound(modules'), modules'.loaded = modules.loaded,
         UNCHANGED <<operations, source>>,
         \A u \in Threads : waiting'[u].module \in Modules
  PROVE  DepInv'
<1>1. \A u \in Threads : Ready(modules', source'[u])
  BY DEF DepInv, Ready
<1> QED
  BY <1>1 DEF DepInv

LEMMA AdvanceEffects ==
  ASSUME operations = [u \in Threads |-> operations[u]], NEW t \in Threads,
         NEW s, Sound(s), NEW op, IsOperation(op),
         NEW stack, Stack(stack), AllOperations(stack), NEW levels,
         Advance(t, s, op, stack, levels)
  PROVE  /\ Sound(modules')
         /\ operations' = [operations EXCEPT ![t] = operations'[t]]
         /\ AllOperations(operations'[t])
<1> DEFINE ready == NewlyAttached(s, op)
           rest == SubSeq(op.steps, Len(Skipped(op)) + 1, Len(op.steps))
           next == IF rest = <<>> THEN <<>> ELSE Tail(rest)
           call == IF rest = <<>> THEN NoStep ELSE Head(rest)
           parked == [op EXCEPT !.steps = next, !.active = call]
           done == Completes(op) /\ CanComplete(ready, op)
<1>1. /\ operations' = [operations EXCEPT ![t] = IF done THEN stack
                                                  ELSE Append(stack, parked)]
      /\ modules' = IF done THEN Completed(ready, op) ELSE ready
  BY DEF Advance
<1>2. Sound(ready)
  BY NewlyAttachedSound
<1>3. IsOperation(parked)
  <2> HIDE DEF next, call
  <2> QED
    BY DEF IsOperation
<1> HIDE DEF ready, parked
<1>4. Sound(modules')
  BY <1>1, <1>2, CompletedSound
<1>5. AllOperations(Append(stack, parked))
  <2>1. /\ Len(Append(stack, parked)) = Len(stack) + 1
        /\ \A i \in 1 .. Len(stack) : Append(stack, parked)[i] = stack[i]
        /\ Append(stack, parked)[Len(stack) + 1] = parked
    BY Pushed
  <2>2. Len(stack) \in Nat
    BY DEF Stack
  <2> SUFFICES ASSUME NEW i \in 1 .. Len(Append(stack, parked))
               PROVE  IsOperation(Append(stack, parked)[i])
    BY DEF AllOperations
  <2>3. i \in 1 .. Len(stack) \/ i = Len(stack) + 1
    BY <2>1, <2>2
  <2> QED
    BY <1>3, <2>1, <2>3 DEF AllOperations
<1>6. operations'[t] = IF done THEN stack ELSE Append(stack, parked)
  BY <1>1
<1> HIDE DEF done
<1> QED
  BY <1>1, <1>4, <1>5, <1>6

\* A step of t that advances an operation on top of `stack`.
LEMMA AdvanceDep ==
  ASSUME LockInv, DepInv, NEW t \in Threads, Acquirable(t),
         NEW s, Sound(s), NEW op, IsOperation(op),
         NEW stack, Stack(stack), AllOperations(stack), NEW levels,
         Advance(t, s, op, stack, levels),
         source' = [source EXCEPT ![t] = NoRequest],
         \A u \in Threads : waiting'[u].module \in Modules
  PROVE  DepInv'
<1>1. /\ Sound(modules')
      /\ operations' = [operations EXCEPT ![t] = operations'[t]]
      /\ AllOperations(operations'[t])
  BY AdvanceEffects DEF LockInv, Shape
<1>2. source'[t] = NoRequest
  BY DEF LockInv, Shape
<1> QED
  BY <1>1, <1>2, DepMoves, NoRequestReady

LEMMA InstallDep ==
  ASSUME LockInv, DepInv, NEW t \in Threads, Acquirable(t),
         NEW r, Ready(modules, r), NEW levels, Install(t, r, levels),
         source' = [source EXCEPT ![t] = NoRequest],
         \A u \in Threads : waiting'[u].module \in Modules
  PROVE  DepInv'
<1> DEFINE image == r.call = "image"
           new == IF image THEN {r.module} ELSE Additions(modules, {Target(r)})
           edges == IF r.call # "export" \/ Target(r) \in modules.dependencies[r.module]
                    THEN {} ELSE {<<r.module, Target(r)>>}
           s == Installed(modules, new, edges, image)
           Op(steps) ==
             [purpose |-> "load", root |-> r.module, ids |-> new,
              initial |-> r.call = "start", export |-> r.call = "export",
              edges |-> edges, steps |-> steps, active |-> NoStep]
<1>1. PICK order : Advance(t, s, Op(LoadSteps(order)), operations[t], levels)
  BY DEF Install
<1>2. Sound(s)
  <2>1. Target(r) \in Modules
    BY ModulesAssumption DEF Target, Ready
  <2>2. /\ Additions(modules, {Target(r)}) \subseteq Modules
        /\ Target(r) \in Additions(modules, {Target(r)}) \cup modules.loaded
        /\ \A n \in Additions(modules, {Target(r)}) :
             Imports[n] \subseteq Additions(modules, {Target(r)}) \cup modules.loaded
    BY <2>1, AdditionsSuffice DEF DepInv
  <2>3. new \in SUBSET Modules
    BY <2>2 DEF Ready
  <2>4. ~image => \A m \in new : Imports[m] \subseteq new \cup modules.loaded
    BY <2>2
  <2>5. ASSUME NEW m \in Modules, NEW d \in Modules, <<m, d>> \in edges
        PROVE  m \in modules.loaded /\ d \in new \cup modules.loaded
    <3>1. r.call = "export" /\ m = r.module /\ d = Target(r)
      BY <2>5
    <3>2. new = Additions(modules, {Target(r)})
      BY <3>1
    <3> QED
      BY <2>2, <3>1, <3>2 DEF Ready
  <2>6. image \in BOOLEAN /\ Sound(modules)
    BY DEF DepInv
  <2> HIDE DEF image, new, edges
  <2> QED
    BY <2>3, <2>4, <2>5, <2>6, InstalledSound
<1>3. \A steps : IsOperation(Op(steps))
  <2> HIDE DEF new, edges
  <2> QED
    BY DEF IsOperation
<1>4. Stack(operations[t]) /\ AllOperations(operations[t])
  BY DEF LockInv, Shape, DepInv
<1> HIDE DEF s, Op
<1> QED
  BY <1>1, <1>2, <1>3, <1>4, AdvanceDep

\* What the requests of t find: nobody else waits for bytes.
LEMMA AskedModules ==
  ASSUME LockInv, DepInv, NEW t \in Threads, Asks(t)
  PROVE  \A u \in Threads : waiting'[u].module \in Modules
BY NoRequestReady DEF Asks, LockInv, Shape, DepInv

LEMMA BeginLoadDep ==
  ASSUME LockInv, DepInv, NEW t \in Threads, Asks(t), NEW r, Ready(modules, r),
         BeginLoad(t, r)
  PROVE  DepInv'
<1>1. \A u \in Threads : waiting'[u].module \in Modules
  BY AskedModules
<1>2. source = [source EXCEPT ![t] = NoRequest]
  BY SameAt DEF Asks
<1>3. CASE Install(t, r, depth) /\ UNCHANGED source
  BY <1>1, <1>2, <1>3, InstallDep DEF Asks
<1>4. CASE /\ source' = [source EXCEPT ![t] = r]
           /\ Held(t, depth + 1)
           /\ UNCHANGED <<modules, operations, exited, late>>
  <2>1. source'[t] = r /\ source' = [source EXCEPT ![t] = source'[t]]
    BY <1>4 DEF LockInv, Shape
  <2>2. Sound(modules') /\ AllOperations(operations'[t]) /\ Ready(modules', source'[t])
    BY <1>4, <2>1 DEF DepInv
  <2>3. operations' = [operations EXCEPT ![t] = operations'[t]]
    BY <1>4, SameAt
  <2> QED
    BY <1>1, <2>1, <2>2, <2>3, DepMoves DEF Asks
<1> QED
  BY <1>3, <1>4 DEF BeginLoad

LEMMA PerformDep ==
  ASSUME LockInv, DepInv, NEW t \in Threads, Asks(t),
         NEW r, r.module \in Modules, Perform(t, r)
  PROVE  DepInv'
<1>1. \A u \in Threads : waiting'[u].module \in Modules
  BY AskedModules
<1>2. source = [source EXCEPT ![t] = NoRequest]
  BY SameAt DEF Asks
<1>3. /\ Sound(modules) /\ IsModuleSet(modules)
      /\ Stack(operations[t]) /\ AllOperations(operations[t])
  BY DEF DepInv, Sound, LockInv, Shape
<1>4. ASSUME NEW op, IsOperation(op), NEW levels,
             Advance(t, modules, op, operations[t], levels), UNCHANGED source
      PROVE  DepInv'
  BY <1>1, <1>2, <1>3, <1>4, AdvanceDep DEF Asks
<1>5. ASSUME NEW c, modules' = [modules EXCEPT !.explicit = c],
             UNCHANGED <<operations, source>>
      PROVE  DepInv'
  <2>1. Sound(modules') /\ modules'.loaded = modules.loaded
    BY <1>3, <1>5, CountKeeps DEF IsModuleSet
  <2> QED
    BY <1>1, <1>5, <2>1, DepStays
<1>6. CASE LoadLibrary(t, r)
  <2>1. Ready(modules, r)
    BY <1>6 DEF LoadLibrary, Ready
  <2>2. CASE BeginLoad(t, r)
    BY <2>1, <2>2, BeginLoadDep
  <2>3. CASE RetainLoaded(t, r)
    <3>1. modules' = [modules EXCEPT !.explicit = [modules.explicit EXCEPT ![r.module] = @ + 1]]
      BY <1>3, <2>3 DEF RetainLoaded, IsModuleSet
    <3> QED
      BY <1>5, <2>3, <3>1 DEF RetainLoaded
  <2> QED
    BY <1>6, <2>2, <2>3 DEF LoadLibrary
<1>7. CASE GetProcAddress(t, r)
  <2>1. Ready(modules, r)
    BY <1>7 DEF GetProcAddress, Ready
  <2>2. CASE BeginLoad(t, r)
    BY <2>1, <2>2, BeginLoadDep
  <2>3. CASE AdoptDependency(t, r)
    <3> DEFINE deps == [modules.dependencies EXCEPT ![r.module] = @ \cup {Target(r)}]
    <3>1. modules' = [modules EXCEPT !.dependencies = deps]
      BY <1>3, <2>3 DEF AdoptDependency, IsModuleSet
    <3>2. r.module \in modules.loaded /\ Target(r) \in modules.loaded /\ Target(r) \in Modules
      BY <2>1, <2>3, <1>7, ModulesAssumption DEF AdoptDependency, GetProcAddress, Ready, Target
    <3>3. deps \in [Modules -> SUBSET Modules]
      BY <1>3, <3>2 DEF IsModuleSet
    <3>4. ASSUME NEW m \in Modules, deps[m] # {}
          PROVE  m \in modules.loaded /\ deps[m] \subseteq modules.loaded
      <4>1. deps[m] = IF m = r.module THEN modules.dependencies[m] \cup {Target(r)}
                      ELSE modules.dependencies[m]
        BY <1>3 DEF IsModuleSet
      <4>2. modules.dependencies[m] # {} =>
              m \in modules.loaded /\ modules.dependencies[m] \subseteq modules.loaded
        BY <1>3 DEF Sound
      <4> HIDE DEF deps
      <4> QED
        BY <3>2, <3>4, <4>1, <4>2
    <3> HIDE DEF deps
    <3>5. IsModuleSet(modules') /\ modules'.loaded = modules.loaded
          /\ modules'.dependencies = deps
      BY <1>3, <3>1, <3>3 DEF IsModuleSet
    <3>6. Sound(modules')
      BY <3>4, <3>5 DEF Sound
    <3> QED
      BY <1>1, <2>3, <3>5, <3>6, DepStays DEF AdoptDependency
  <2> QED
    BY <1>7, <2>2, <2>3 DEF GetProcAddress
<1>8. CASE FreeLibrary(t, r)
  <2> DEFINE ids == UnreachableAfterRelease(modules, r.module)
             Op(steps) == [purpose |-> "unload", root |-> r.module, ids |-> ids,
                           initial |-> FALSE, export |-> FALSE, edges |-> {},
                           steps |-> steps, active |-> NoStep]
  <2>1. CASE ids = {}
    <3>1. modules' = [modules EXCEPT !.explicit = [modules.explicit EXCEPT ![r.module] = @ - 1]]
      BY <1>3, <1>8, <2>1 DEF FreeLibrary, IsModuleSet
    <3> QED
      BY <1>5, <1>8, <2>1, <3>1 DEF FreeLibrary
  <2>2. CASE ids # {}
    <3>1. Advance(t, modules, Op(DetachSteps(modules, ids)), operations[t], depth)
      BY <1>8, <2>2 DEF FreeLibrary
    <3>2. \A steps : IsOperation(Op(steps))
      <4> HIDE DEF ids
      <4> QED
        BY DEF IsOperation
    <3>3. UNCHANGED source
      BY <1>8 DEF FreeLibrary
    <3> HIDE DEF Op, ids
    <3> QED
      BY <1>4, <3>1, <3>2, <3>3
  <2> QED
    BY <2>1, <2>2
<1>9. CASE DetachForExit(t, r)
  <2> DEFINE ids == ToSet(modules.attached)
             Op(steps) == [purpose |-> "shutdown", root |-> Main, ids |-> ids,
                           initial |-> FALSE, export |-> FALSE, edges |-> {},
                           steps |-> steps, active |-> NoStep]
  <2>1. Advance(t, modules, Op(DetachSteps(modules, ids)), operations[t], depth)
    BY <1>9 DEF DetachForExit
  <2>2. \A steps : IsOperation(Op(steps))
    <3> HIDE DEF ids
    <3> QED
      BY DEF IsOperation
  <2>3. UNCHANGED source
    BY <1>9 DEF DetachForExit
  <2> HIDE DEF Op, ids
  <2> QED
    BY <1>4, <2>1, <2>2, <2>3
<1> QED
  BY <1>6, <1>7, <1>8, <1>9 DEF Perform

\* A failed load becomes a rollback of what it added.
LEMMA RollbackIsOperation ==
  ASSUME NEW s, NEW op, IsOperation(op)
  PROVE  IsOperation(Rollback(s, op)) /\ IsOperation(FailedRollback(s, op))
<1> DEFINE ids == RollbackIds(s, op)
<1>1. \A steps : IsOperation([op EXCEPT !.purpose = "rollback", !.ids = ids,
                                        !.steps = steps, !.active = NoStep])
  <2> HIDE DEF ids
  <2> QED
    BY DEF IsOperation
<1>2. IsOperation(Rollback(s, op))
  BY <1>1 DEF Rollback
<1>3. \A u, steps : IsOperation(u) => IsOperation([u EXCEPT !.steps = steps])
  BY DEF IsOperation
<1>4. FailedRollback(s, op) = Rollback(s, op) \/
        \E steps : FailedRollback(s, op) = [Rollback(s, op) EXCEPT !.steps = steps]
  BY DEF FailedRollback
<1> QED
  BY <1>2, <1>3, <1>4

\* The innermost operation of t, and the ones below it.
LEMMA TopOperations ==
  ASSUME LockInv, DepInv, NEW t \in Threads, operations[t] # <<>>
  PROVE  /\ IsOperation(Last(operations[t]))
         /\ Stack(Front(operations[t])) /\ AllOperations(Front(operations[t]))
<1> DEFINE stack == operations[t]
<1>1. Stack(stack) /\ AllOperations(stack)
  BY DEF LockInv, Shape, DepInv
<1>2. /\ Stack(Front(stack)) /\ Len(stack) >= 1 /\ Len(Front(stack)) = Len(stack) - 1
      /\ \A i \in 1 .. Len(stack) - 1 : Front(stack)[i] = stack[i]
  BY <1>1, Popped
<1>3. Len(stack) \in Nat
  BY <1>1 DEF Stack
<1>4. Last(stack) = stack[Len(stack)] /\ Len(stack) \in 1 .. Len(stack)
  BY <1>2, <1>3 DEF Last
<1> HIDE DEF stack
<1>5. IsOperation(Last(stack))
  BY <1>1, <1>4 DEF AllOperations
<1>6. AllOperations(Front(stack))
  BY <1>1, <1>2, <1>3 DEF AllOperations
<1> USE DEF stack
<1> QED
  BY <1>2, <1>5, <1>6

LEMMA FinishDep ==
  ASSUME LockInv, DepInv, NEW t \in Threads,
         (\E success \in BOOLEAN : FinishInitializer(t, success)) \/ AbortOperation(t)
  PROVE  DepInv'
<1>1. /\ operations[t] # <<>> /\ Guest(t)
      /\ UNCHANGED <<waiting, source>>
  BY DEF FinishInitializer, AbortOperation
<1>2. Acquirable(t)
  BY <1>1, WorkersOwn
<1>3. source' = [source EXCEPT ![t] = NoRequest]
  BY <1>1, SameAt DEF Guest
<1>4. \A u \in Threads : waiting'[u].module \in Modules
  BY <1>1 DEF DepInv
<1> DEFINE last == Last(operations[t])
<1>5. /\ IsOperation(last) /\ Stack(Front(operations[t]))
      /\ AllOperations(Front(operations[t]))
  BY <1>1, TopOperations
<1>6. Sound(modules) /\ \A a : Sound([modules EXCEPT !.attached = a])
  BY AttachKeeps DEF DepInv
<1>7. \E s, op : /\ Advance(t, s, op, Front(operations[t]), depth - 1)
                 /\ Sound(s) /\ IsOperation(op)
  <2>1. CASE AbortOperation(t)
    BY <1>5, <1>6, <2>1, RollbackIsOperation DEF AbortOperation
  <2>2. CASE \E success \in BOOLEAN : FinishInitializer(t, success)
    <3>1. PICK success \in BOOLEAN : FinishInitializer(t, success)
      BY <2>2
    <3> DEFINE undone == FailedRollback(modules, last)
               failed == last.active.call = "main" /\ last.active.attach /\ ~success
               grown == [modules EXCEPT !.attached = Append(@, last.active.module)]
               s == IF failed /\ last.active.module \in undone.ids
                                /\ ~Attached(modules, last.active.module)
                    THEN grown ELSE modules
               op == IF failed THEN undone ELSE last
    <3>2. Advance(t, s, op, Front(operations[t]), depth - 1)
      BY <3>1 DEF FinishInitializer
    <3>3. Sound(grown) /\ IsOperation(undone)
      BY <1>5, <1>6, AttachKeeps, RollbackIsOperation
    <3>4. Sound(s)
      <4> HIDE DEF grown, undone, failed
      <4> QED
        BY <1>6, <3>3
    <3>5. IsOperation(op)
      <4> HIDE DEF last, undone, failed
      <4> QED
        BY <1>5, <3>3
    <3> HIDE DEF s, op
    <3> QED
      BY <3>2, <3>4, <3>5
  <2> QED
    BY <2>1, <2>2
<1> QED
  BY <1>2, <1>3, <1>4, <1>5, <1>7, AdvanceDep

LEMMA SourceDep ==
  ASSUME LockInv, DepInv, NEW t \in Threads, ResumeSource(t) PROVE DepInv'
<1>1. Acquirable(t)
  BY WorkersOwn DEF ResumeSource
<1>2. /\ source' = [source EXCEPT ![t] = NoRequest]
      /\ source'[t] = NoRequest
      /\ source' = [source EXCEPT ![t] = source'[t]]
  BY DEF ResumeSource, LockInv, Shape
<1>3. \A u \in Threads : waiting'[u].module \in Modules
  BY DEF ResumeSource, DepInv
<1>4. CASE Install(t, source[t], depth - 1)
  <2>1. Ready(modules, source[t])
    BY DEF DepInv
  <2> QED
    BY <1>1, <1>2, <1>3, <1>4, <2>1, InstallDep
<1>5. CASE UNCHANGED <<modules, operations, exited, late>>
  <2>1. operations' = [operations EXCEPT ![t] = operations'[t]]
    BY <1>5, SameAt
  <2>2. Sound(modules') /\ AllOperations(operations'[t]) /\ Ready(modules', source'[t])
    BY <1>2, <1>5, NoRequestReady DEF DepInv
  <2> QED
    BY <1>1, <1>2, <1>3, <2>1, <2>2, DepMoves
<1> QED
  BY <1>4, <1>5 DEF ResumeSource

LEMMA ReferenceDep ==
  ASSUME LockInv, DepInv, NEW t \in Threads, NEW m \in Modules, NEW pin,
         AddReference(t, m, pin)
  PROVE  DepInv'
<1>1. Sound(modules) /\ IsModuleSet(modules)
  BY DEF DepInv, Sound
<1>2. Sound(modules') /\ modules'.loaded = modules.loaded
  <2>1. CASE pin
    <3>1. \E p : modules' = [modules EXCEPT !.pinned = p]
      BY <2>1 DEF AddReference
    <3> QED
      BY <1>1, <3>1, PinKeeps DEF IsModuleSet
  <2>2. CASE ~pin
    <3>1. modules' = [modules EXCEPT !.explicit = [modules.explicit EXCEPT ![m] = @ + 1]]
      BY <1>1, <2>2 DEF AddReference, IsModuleSet
    <3> QED
      BY <1>1, <3>1, CountKeeps DEF IsModuleSet
  <2> QED
    BY <2>1, <2>2
<1> QED
  BY <1>2, DepStays DEF AddReference, DepInv

LEMMA ParkDep ==
  ASSUME LockInv, DepInv, NEW t \in Threads, NEW r \in Calls, ParkRequest(t, r)
  PROVE  DepInv'
<1>1. r.module \in Modules
  BY CallsAssumption DEF Requests
<1>2. \A u \in Threads : waiting'[u].module \in Modules
  BY <1>1 DEF ParkRequest, LockInv, Shape, DepInv
<1> QED
  BY <1>2, DepStays DEF ParkRequest, DepInv

LEMMA NextKeepsDep == LockInv /\ DepInv /\ [Next]_vars => DepInv'
<1> SUFFICES ASSUME LockInv, DepInv, [Next]_vars PROVE DepInv'
  OBVIOUS
<1>1. CASE StartProcess
  <2>1. Primary \in Threads /\ Asks(Primary)
    BY <1>1, ModulesAssumption, SameAt DEF StartProcess, Asks
  <2>2. Ready(modules, Request("start", Main))
    BY ModulesAssumption DEF Ready, Request
  <2> QED
    BY <1>1, <2>1, <2>2, BeginLoadDep DEF StartProcess
<1>2. ASSUME NEW t \in Threads, NEW r \in Calls, Call(t, r) PROVE DepInv'
  <2>1. Asks(t)
    BY <1>2, SameAt DEF Call, Guest, Asks
  <2>2. r.module \in Modules
    BY CallsAssumption DEF Requests
  <2> QED
    BY <1>2, <2>1, <2>2, PerformDep DEF Call
<1>3. ASSUME NEW t \in Threads, NEW r \in Calls, ParkRequest(t, r) PROVE DepInv'
  BY <1>3, ParkDep
<1>4. ASSUME NEW t \in Threads, NEW m \in Modules, NEW pin \in BOOLEAN,
             AddReference(t, m, pin)
      PROVE  DepInv'
  BY <1>4, ReferenceDep
<1>5. ASSUME NEW t \in Threads, RetryRequest(t) PROVE DepInv'
  <2>1. Asks(t)
    BY <1>5 DEF RetryRequest, Asks, LockInv, Shape
  <2>2. CASE Perform(t, waiting[t])
    BY <2>1, <2>2, PerformDep DEF DepInv
  <2>3. CASE UNCHANGED <<modules, operations, owner, depth, source, exited, late>>
    BY <2>1, <2>3, AskedModules, DepStays DEF DepInv
  <2> QED
    BY <1>5, <2>2, <2>3 DEF RetryRequest
<1>6. ASSUME NEW t \in Threads, ResumeSource(t) PROVE DepInv'
  BY <1>6, SourceDep
<1>7. ASSUME NEW t \in Threads,
             (\E success \in BOOLEAN : FinishInitializer(t, success)) \/ AbortOperation(t)
      PROVE  DepInv'
  BY <1>7, FinishDep
<1>8. ASSUME NEW t \in Threads,
             \/ \E attach \in BOOLEAN : BeginNotice(t, attach)
             \/ CallNotice(t) \/ ReturnNotice(t) \/ EndNotice(t)
      PROVE  DepInv'
  <2>1. UNCHANGED <<modules, operations, source, waiting>>
    BY <1>8 DEF BeginNotice, CallNotice, ReturnNotice, EndNotice
  <2> QED
    BY <2>1, DepStays DEF DepInv
<1>9. CASE UNCHANGED vars
  BY <1>9, DepStays DEF DepInv, vars
<1> QED
  BY <1>1, <1>2, <1>3, <1>4, <1>5, <1>6, <1>7, <1>8, <1>9 DEF Next

LEMMA InitDep == Init => DepInv
<1> SUFFICES ASSUME Init PROVE DepInv
  OBVIOUS
<1>1. Sound(modules)
  BY NoModulesSound DEF Init
<1>2. \A t \in Threads : AllOperations(operations[t])
  BY EmptyStack DEF Init, AllOperations
<1>3. \A t \in Threads : waiting[t] = NoRequest /\ source[t] = NoRequest
  BY DEF Init
<1> QED
  BY <1>1, <1>2, <1>3, NoRequestReady DEF DepInv

(* A loaded module depends on loaded modules only, however loads that fail, *)
(* nested loads and unloads overlap: the set that complete_module_unload    *)
(* and rollback_module_load remove is checked against the dependents it has *)
(* when they commit, and a load that waits for bytes keeps the lock.        *)
THEOREM DependenciesStayLoaded == Spec => []DependenciesAreLoaded
<1>1. DepInv => DependenciesAreLoaded
  BY DEF DepInv, Sound, DependenciesAreLoaded
<1> QED
  BY <1>1, InitLock, InitDep, NextKeepsLock, NextKeepsDep, PTL DEF Spec

-----------------------------------------------------------------------------
(* What Among keeps of a list.  Its recursion is followed by the least      *)
(* number for which a claim about it would fail.                           *)

Less == {ss \in Nat \X Nat : ss[1] < ss[2]}

LEMMA LessIsWellFounded == IsWellFoundedOn(Less, Nat)
  BY NatLessThanWellFounded, Zenon DEF OpToRel, Less

LEMMA LeastNumber ==
  ASSUME NEW S, S \subseteq Nat, S # {}
  PROVE  \E m \in S : \A k \in S : m <= k
<1>1. PICK m \in S : \A k \in S : <<k, m>> \notin Less
  BY LessIsWellFounded, WFMin
<1>2. ASSUME NEW k \in S PROVE m <= k
  <2>1. ~(k < m)
    BY <1>1 DEF Less
  <2> QED
    BY <2>1
<1> QED
  BY <1>2

\* f[k] are the members among the first k of s, up to n.
IsAmong(f, s, S, n) ==
  f = [k \in 0 .. n |->
         IF k = 0 THEN <<>>
         ELSE IF s[k] \in S THEN Append(f[k - 1], s[k]) ELSE f[k - 1]]

LEMMA AmongExists ==
  ASSUME NEW s, NEW S, NEW n \in Nat
  PROVE  \E f : IsAmong(f, s, S, n)
<1> DEFINE Bad == {k \in Nat : ~ \E f : IsAmong(f, s, S, k)}
<1>1. SUFFICES ASSUME Bad # {} PROVE FALSE
  OBVIOUS
<1>2. PICK m \in Bad : \A k \in Bad : m <= k
  BY <1>1, LeastNumber
<1>3. CASE m = 0
  <2>1. IsAmong([k \in 0 .. 0 |-> <<>>], s, S, 0)
    BY DEF IsAmong
  <2> QED
    BY <1>2, <1>3, <2>1
<1>4. CASE m # 0
  <2>1. m - 1 \in Nat /\ m - 1 \notin Bad
    BY <1>2, <1>4
  <2>2. PICK f : IsAmong(f, s, S, m - 1)
    BY <2>1
  <2> DEFINE last == IF s[m] \in S THEN Append(f[m - 1], s[m]) ELSE f[m - 1]
  <2> HIDE DEF last
  <2> DEFINE g == [k \in 0 .. m |-> IF k = m THEN last ELSE f[k]]
  <2>3. ASSUME NEW k \in 0 .. m
        PROVE  g[k] = IF k = 0 THEN <<>>
                      ELSE IF s[k] \in S THEN Append(g[k - 1], s[k]) ELSE g[k - 1]
    <3>1. CASE k = m
      <4>1. g[k] = last /\ g[k - 1] = f[m - 1] /\ k # 0
        BY <3>1, <1>4, <2>1
      <4> QED
        BY <3>1, <4>1 DEF last
    <3>2. CASE k # m
      <4>1. k \in 0 .. (m - 1) /\ (k # 0 => k - 1 \in 0 .. (m - 1) /\ k - 1 # m /\ k - 1 \in 0 .. m)
        BY <3>2, <2>1, <1>2
      <4>2. f[k] = IF k = 0 THEN <<>>
                   ELSE IF s[k] \in S THEN Append(f[k - 1], s[k]) ELSE f[k - 1]
        BY <4>1, <2>2 DEF IsAmong
      <4>3. g[k] = f[k] /\ (k # 0 => g[k - 1] = f[k - 1])
        BY <3>2, <4>1
      <4> QED
        BY <4>2, <4>3
    <3> QED
      BY <3>1, <3>2
  <2>4. IsAmong(g, s, S, m)
    BY <2>3 DEF IsAmong
  <2> QED
    BY <1>2, <2>4
<1> QED
  BY <1>3, <1>4

\* r are the members in S of the first n of s, r[k] at e[k] in s.
Picks(s, S, n, r, e) ==
  /\ r \in Seq(S)
  /\ e \in [1 .. Len(r) -> 1 .. n]
  /\ \A k \in 1 .. Len(r) : r[k] = s[e[k]]
  /\ \A k, l \in 1 .. Len(r) : k < l => e[k] < e[l]
  /\ \A i \in 1 .. n : s[i] \in S => \E k \in 1 .. Len(r) : e[k] = i

LEMMA PicksNone == ASSUME NEW s, NEW S PROVE Picks(s, S, 0, <<>>, <<>>)
BY DEF Picks

LEMMA PicksNext ==
  ASSUME NEW s, NEW S, NEW n \in Nat, NEW r, NEW e, Picks(s, S, n, r, e)
  PROVE  /\ s[n + 1] \in S =>
              \E d : Picks(s, S, n + 1, Append(r, s[n + 1]), d)
         /\ s[n + 1] \notin S => Picks(s, S, n + 1, r, e)
<1>1. /\ r \in Seq(S) /\ Len(r) \in Nat
      /\ e \in [1 .. Len(r) -> 1 .. n]
      /\ \A k \in 1 .. Len(r) : r[k] = s[e[k]]
      /\ \A k, l \in 1 .. Len(r) : k < l => e[k] < e[l]
      /\ \A i \in 1 .. n : s[i] \in S => \E k \in 1 .. Len(r) : e[k] = i
  BY DEF Picks
<1>2. ASSUME s[n + 1] \notin S PROVE Picks(s, S, n + 1, r, e)
  <2>1. e \in [1 .. Len(r) -> 1 .. n + 1]
    BY <1>1
  <2>2. ASSUME NEW i \in 1 .. n + 1, s[i] \in S PROVE \E k \in 1 .. Len(r) : e[k] = i
    BY <1>1, <1>2, <2>2
  <2> QED
    BY <1>1, <2>1, <2>2 DEF Picks
<1>3. ASSUME s[n + 1] \in S
      PROVE  \E d : Picks(s, S, n + 1, Append(r, s[n + 1]), d)
  <2> DEFINE q == Append(r, s[n + 1])
             d == [k \in 1 .. Len(r) + 1 |-> IF k = Len(r) + 1 THEN n + 1 ELSE e[k]]
  <2>1. /\ q \in Seq(S) /\ Len(q) = Len(r) + 1
        /\ \A k \in 1 .. Len(r) : q[k] = r[k]
        /\ q[Len(r) + 1] = s[n + 1]
    BY <1>1, <1>3, AppendProperties
  <2>2. /\ d[Len(r) + 1] = n + 1
        /\ \A k \in 1 .. Len(r) : d[k] = e[k] /\ d[k] \in 1 .. n
        /\ d \in [1 .. Len(r) + 1 -> 1 .. n + 1]
    <3>1. PICK h : h = Len(r)
      OBVIOUS
    <3>2. h \in Nat /\ e \in [1 .. h -> 1 .. n]
      BY <1>1, <3>1
    <3>3. d = [k \in 1 .. h + 1 |-> IF k = h + 1 THEN n + 1 ELSE e[k]]
      BY <3>1
    <3>4. ASSUME NEW k \in 1 .. h + 1
          PROVE  d[k] = (IF k = h + 1 THEN n + 1 ELSE e[k]) /\ d[k] \in 1 .. n + 1
      <4>1. d[k] = IF k = h + 1 THEN n + 1 ELSE e[k]
        BY <3>3
      <4>2. k # h + 1 => k \in 1 .. h /\ e[k] \in 1 .. n
        BY <3>2
      <4> HIDE DEF d
      <4> QED
        BY <3>2, <4>1, <4>2
    <3>5. d \in [1 .. h + 1 -> 1 .. n + 1]
      BY <3>3, <3>4
    <3> HIDE DEF d
    <3>6. h + 1 \in 1 .. h + 1 /\ \A k \in 1 .. h : k \in 1 .. h + 1 /\ k # h + 1
      BY <3>2
    <3>7. \A k \in 1 .. h : d[k] = e[k] /\ d[k] \in 1 .. n
      BY <3>2, <3>4, <3>6
    <3>8. d[h + 1] = n + 1
      BY <3>4, <3>6
    <3> QED
      BY <3>1, <3>5, <3>7, <3>8, Zenon
  <2> HIDE DEF q, d
  <2>3. ASSUME NEW k \in 1 .. Len(r) + 1 PROVE q[k] = s[d[k]]
    <3>1. CASE k = Len(r) + 1
      BY <2>1, <2>2, <3>1
    <3>2. CASE k # Len(r) + 1
      <4>1. k \in 1 .. Len(r)
        BY <1>1, <3>2
      <4> QED
        BY <1>1, <2>1, <2>2, <4>1
    <3> QED
      BY <3>1, <3>2
  <2>4. ASSUME NEW k \in 1 .. Len(r) + 1, NEW l \in 1 .. Len(r) + 1, k < l
        PROVE  d[k] < d[l]
    <3>1. k \in 1 .. Len(r)
      BY <1>1, <2>4
    <3>2. CASE l = Len(r) + 1
      BY <2>2, <3>1, <3>2
    <3>3. CASE l # Len(r) + 1
      <4>1. l \in 1 .. Len(r)
        BY <1>1, <3>3
      <4> QED
        BY <1>1, <2>2, <2>4, <3>1, <4>1
    <3> QED
      BY <3>2, <3>3
  <2>5. ASSUME NEW i \in 1 .. n + 1, s[i] \in S
        PROVE  \E k \in 1 .. Len(r) + 1 : d[k] = i
    <3>1. CASE i = n + 1
      BY <1>1, <2>2, <3>1
    <3>2. CASE i # n + 1
      <4>1. PICK k \in 1 .. Len(r) : e[k] = i
        BY <1>1, <2>5, <3>2
      <4>2. k \in 1 .. Len(r) + 1 /\ d[k] = i
        BY <1>1, <2>2, <4>1
      <4> QED
        BY <4>2
    <3> QED
      BY <3>1, <3>2
  <2>6. Picks(s, S, n + 1, q, d)
    BY <2>1, <2>2, <2>3, <2>4, <2>5 DEF Picks
  <2> USE DEF q
  <2> QED
    BY <2>6
<1> QED
  BY <1>2, <1>3

LEMMA AmongPicks ==
  ASSUME NEW T, NEW s \in Seq(T), NEW S
  PROVE  \E e : Picks(s, S, Len(s), Among(s, S), e)
<1> DEFINE f == CHOOSE f : IsAmong(f, s, S, Len(s))
           n == Len(s)
<1>1. n \in Nat
  OBVIOUS
<1>2. IsAmong(f, s, S, n)
  BY <1>1, AmongExists
<1>3. Among(s, S) = f[n]
  BY DEF Among, IsAmong
<1> HIDE DEF f, n
<1>4. /\ f[0] = <<>>
      /\ \A k \in 1 .. n : f[k] = IF s[k] \in S THEN Append(f[k - 1], s[k]) ELSE f[k - 1]
  <2>1. \A k \in 0 .. n : f[k] = IF k = 0 THEN <<>>
           ELSE IF s[k] \in S THEN Append(f[k - 1], s[k]) ELSE f[k - 1]
    BY <1>2 DEF IsAmong
  <2>2. 0 \in 0 .. n /\ \A k \in 1 .. n : k \in 0 .. n /\ k # 0
    BY <1>1
  <2> QED
    BY <2>1, <2>2
<1> DEFINE Bad == {k \in 0 .. n : ~ \E e : Picks(s, S, k, f[k], e)}
<1>5. Bad = {}
  <2>1. SUFFICES ASSUME Bad # {} PROVE FALSE
    OBVIOUS
  <2>2. PICK m \in Bad : \A k \in Bad : m <= k
    <3>1. Bad \subseteq Nat
      BY <1>1
    <3> QED
      BY <2>1, <3>1, LeastNumber
  <2>3. m # 0
    BY <2>2, <1>4, PicksNone
  <2>4. m \in 1 .. n /\ m - 1 \in 0 .. n /\ m - 1 \notin Bad /\ m - 1 \in Nat /\ m - 1 + 1 = m
    BY <1>1, <2>2, <2>3
  <2>5. PICK e : Picks(s, S, m - 1, f[m - 1], e)
    BY <2>4
  <2>6. \E d : Picks(s, S, m, f[m], d)
    <3>1. PICK h : h = m - 1
      OBVIOUS
    <3>2. h \in Nat /\ h + 1 = m /\ Picks(s, S, h, f[h], e)
      BY <2>4, <2>5, <3>1
    <3>3. /\ s[m] \in S => \E d : Picks(s, S, m, Append(f[h], s[m]), d)
          /\ s[m] \notin S => Picks(s, S, m, f[h], e)
      BY <3>2, PicksNext
    <3>4. f[m] = IF s[m] \in S THEN Append(f[h], s[m]) ELSE f[h]
      BY <1>4, <2>4, <3>1
    <3> QED
      BY <3>3, <3>4
  <2> QED
    BY <2>2, <2>6
<1>6. n \in 0 .. n
  BY <1>1
<1>7. \E e : Picks(s, S, n, f[n], e)
  BY <1>5, <1>6
<1> QED
  BY <1>3, <1>7 DEF n

-----------------------------------------------------------------------------
(* The lists: the order of attachment and the steps of the operations.     *)

Once(order) ==
  \A i, j \in 1 .. Len(order) : i # j => order[i] # order[j]

\* The steps are calls of modules in ids, and mark none of them twice.
MarksOnce(steps) ==
  \A i, j \in 1 .. Len(steps) :
     i < j /\ steps[i].call = "attached" /\ steps[j].call = "attached"
       => steps[i].module # steps[j].module

StepsIn(steps, ids) == \A j \in 1 .. Len(steps) : steps[j].module \in ids

\* The detach calls among the steps go backwards through the order.
Backwards(steps, order) ==
  /\ \A j \in 1 .. Len(steps) : ~steps[j].attach =>
       \E p \in 1 .. Len(order) : order[p] = steps[j].module
  /\ \A i, j \in 1 .. Len(steps) : i < j /\ ~steps[i].attach /\ ~steps[j].attach =>
       \A p, q \in 1 .. Len(order) :
         order[p] = steps[i].module /\ order[q] = steps[j].module => p >= q

\* A set of modules as a state has it.
ModuleSet ==
  [loaded : SUBSET Modules, dependencies : [Modules -> SUBSET Modules],
   explicit : [Modules -> 0 .. MaxExplicit], pinned : SUBSET Modules,
   attached : Seq(Modules), uninitialized : SUBSET Modules]

Listed(s) ==
  /\ s \in ModuleSet
  /\ \A i \in 1 .. Len(s.attached) : s.attached[i] \in s.loaded
  /\ Once(s.attached)

\* The modules that op is to unload for want of references.
Goes(op) == IF op.purpose \in {"unload", "rollback"} /\ ~op.initial THEN op.ids ELSE {}

\* What references an operation counts on: the one it releases is there, and
\* there is no other to what it unloads, but for the late ones.
Counted(s, gone, op) ==
  /\ op.purpose = "unload" => op.root \in s.loaded /\ s.explicit[op.root] # 0
  /\ \A m \in Goes(op) \ gone :
       /\ m \notin s.pinned
       /\ s.explicit[m] # 0 => op.purpose = "unload" /\ op.root = m /\ s.explicit[m] = 1

\* An operation that fits the set s of modules.
Fits(s, gone, op) ==
  /\ op \in Operations
  /\ op.ids \subseteq s.loaded
  /\ op.purpose = "load" /\ ~op.initial /\ ~op.export => op.root \in op.ids
  /\ op.purpose \in {"unload", "shutdown"} => ~op.initial
  /\ op.active # NoStep => op.active.module \in op.ids
  /\ StepsIn(op.steps, op.ids) /\ MarksOnce(op.steps)
  /\ Backwards(op.steps, s.attached)
  /\ Counted(s, gone, op)

\* An operation that was begun in an initializer of another.
Nests(above, below) ==
  /\ above.purpose \in {"load", "rollback"} /\ ~above.initial
  /\ above.ids \cap below.ids = {}
  /\ below.purpose = "unload" => below.root \notin above.ids

AllFit(s, gone, stack) ==
  /\ \A i \in 1 .. Len(stack) :
       Fits(s, gone, stack[i]) /\ (stack[i].active = NoStep => stack[i].ids # {})
  /\ \A i, j \in 1 .. Len(stack) : i < j => Nests(stack[j], stack[i])

\* A load that waits for bytes.
Pending(s, r) ==
  r # NoRequest =>
    /\ r \in [call : {"load", "image", "export", "start"}, module : Modules]
    /\ r.call = "export" => r.module \in s.loaded \cap DOMAIN Forward
    /\ Target(r) \notin s.loaded

ListInv ==
  /\ Listed(modules)
  /\ operations = [t \in Threads |-> operations[t]]
  /\ \A t \in Threads : /\ operations[t] \in Seq(Operations)
                        /\ Len(operations[t]) <= MaxOperations
                        /\ AllFit(modules, late, operations[t])
  /\ \A t \in Threads : Pending(modules, source[t])
  /\ \A t \in Threads : source[t].call = "start" => operations[t] = <<>>
  /\ waiting \in [Threads -> Requests \cup {NoRequest}]
  /\ notice \in [Threads -> [open : BOOLEAN, calls : Seq(Modules), active : BOOLEAN]]
  /\ \A t \in Threads : notice[t].active => notice[t].calls # <<>>
  /\ exited \in BOOLEAN
  /\ late \in SUBSET Modules

-----------------------------------------------------------------------------
(* What happens to lists. *)

LEMMA AmongKeeps ==
  ASSUME NEW T, NEW s \in Seq(T), NEW S
  PROVE  /\ Among(s, S) \in Seq(T)
         /\ \A k \in 1 .. Len(Among(s, S)) :
              Among(s, S)[k] \in S /\ \E i \in 1 .. Len(s) : Among(s, S)[k] = s[i]
         /\ Once(s) => Once(Among(s, S))
<1>1. PICK r : r = Among(s, S)
  OBVIOUS
<1>2. PICK e : Picks(s, S, Len(s), r, e)
  BY <1>1, AmongPicks
<1>3. /\ r \in Seq(S) /\ Len(r) \in Nat /\ Len(s) \in Nat
      /\ e \in [1 .. Len(r) -> 1 .. Len(s)]
      /\ \A k \in 1 .. Len(r) : r[k] = s[e[k]]
      /\ \A k, l \in 1 .. Len(r) : k < l => e[k] < e[l]
  BY <1>2 DEF Picks
<1>4. ASSUME NEW k \in 1 .. Len(r)
      PROVE  r[k] \in S /\ r[k] \in T /\ \E i \in 1 .. Len(s) : r[k] = s[i]
  <2>1. r[k] = s[e[k]] /\ e[k] \in 1 .. Len(s) /\ r[k] \in S
    BY <1>3
  <2>2. s[e[k]] \in T
    BY <2>1
  <2> QED
    BY <2>1, <2>2
<1>5. r \in Seq(T)
  BY <1>3, <1>4, Widened
<1>6. ASSUME Once(s) PROVE Once(r)
  <2>1. ASSUME NEW i \in 1 .. Len(r), NEW j \in 1 .. Len(r), i # j PROVE r[i] # r[j]
    <3>1. e[i] \in 1 .. Len(s) /\ e[j] \in 1 .. Len(s) /\ r[i] = s[e[i]] /\ r[j] = s[e[j]]
      BY <1>3
    <3>2. i < j \/ j < i
      BY <1>3, <2>1
    <3>3. e[i] < e[j] \/ e[j] < e[i]
      BY <1>3, <3>2
    <3>4. e[i] # e[j]
      BY <3>1, <3>3
    <3> QED
      BY <1>6, <3>1, <3>4 DEF Once
  <2> QED
    BY <2>1 DEF Once
<1> QED
  BY <1>1, <1>4, <1>5, <1>6

\* Detach calls stay backwards when modules without one are taken from the
\* order, and when the order goes on.
LEMMA BackwardsAmong ==
  ASSUME NEW T, NEW s \in Seq(T), NEW S, NEW steps, Backwards(steps, s),
         \A j \in 1 .. Len(steps) : steps[j].module \in S
  PROVE  Backwards(steps, Among(s, S))
<1>1. PICK r : r = Among(s, S)
  OBVIOUS
<1>2. PICK e : Picks(s, S, Len(s), r, e)
  BY <1>1, AmongPicks
<1>3. /\ r \in Seq(S) /\ Len(r) \in Nat /\ Len(s) \in Nat
      /\ e \in [1 .. Len(r) -> 1 .. Len(s)]
      /\ \A k \in 1 .. Len(r) : r[k] = s[e[k]] /\ e[k] \in 1 .. Len(s)
      /\ \A k, l \in 1 .. Len(r) : k < l => e[k] < e[l]
      /\ \A i \in 1 .. Len(s) : s[i] \in S => \E k \in 1 .. Len(r) : e[k] = i
  BY <1>2 DEF Picks
<1>4. ASSUME NEW j \in 1 .. Len(steps), ~steps[j].attach
      PROVE  \E p \in 1 .. Len(r) : r[p] = steps[j].module
  <2>1. PICK i \in 1 .. Len(s) : s[i] = steps[j].module
    BY <1>4 DEF Backwards
  <2>2. PICK k \in 1 .. Len(r) : e[k] = i
    BY <1>3, <2>1
  <2> QED
    BY <1>3, <2>1, <2>2
<1>5. ASSUME NEW i \in 1 .. Len(steps), NEW j \in 1 .. Len(steps), i < j,
             ~steps[i].attach, ~steps[j].attach,
             NEW p \in 1 .. Len(r), NEW q \in 1 .. Len(r),
             r[p] = steps[i].module, r[q] = steps[j].module
      PROVE  p >= q
  <2>1. s[e[p]] = steps[i].module /\ s[e[q]] = steps[j].module
        /\ e[p] \in 1 .. Len(s) /\ e[q] \in 1 .. Len(s)
    BY <1>3, <1>5
  <2>2. e[p] >= e[q]
    BY <1>5, <2>1 DEF Backwards
  <2>3. ~(p < q)
    BY <1>3, <2>1, <2>2
  <2> QED
    BY <1>3, <2>3
<1>6. Backwards(steps, r)
  BY <1>4, <1>5 DEF Backwards
<1> QED
  BY <1>1, <1>6

LEMMA BackwardsLonger ==
  ASSUME NEW s, NEW q, Len(s) \in Nat, Len(q) \in Nat, Len(s) <= Len(q),
         \A i \in 1 .. Len(s) : q[i] = s[i], Once(q),
         NEW steps, Backwards(steps, s)
  PROVE  Backwards(steps, q)
<1>1. ASSUME NEW j \in 1 .. Len(steps), ~steps[j].attach
      PROVE  \E p \in 1 .. Len(s) : /\ s[p] = steps[j].module /\ q[p] = steps[j].module
                                    /\ p \in 1 .. Len(q)
                                    /\ \A i \in 1 .. Len(q) : q[i] = steps[j].module => i = p
  <2>1. PICK p \in 1 .. Len(s) : s[p] = steps[j].module
    BY <1>1 DEF Backwards
  <2>2. q[p] = steps[j].module /\ p \in 1 .. Len(q)
    BY <2>1
  <2> QED
    BY <2>1, <2>2 DEF Once
<1>2. \A j \in 1 .. Len(steps) : ~steps[j].attach =>
        \E p \in 1 .. Len(q) : q[p] = steps[j].module
  BY <1>1
<1>3. ASSUME NEW i \in 1 .. Len(steps), NEW j \in 1 .. Len(steps), i < j,
             ~steps[i].attach, ~steps[j].attach,
             NEW p \in 1 .. Len(q), NEW r \in 1 .. Len(q),
             q[p] = steps[i].module, q[r] = steps[j].module
      PROVE  p >= r
  <2>1. p \in 1 .. Len(s) /\ s[p] = steps[i].module
    BY <1>1, <1>3
  <2>2. r \in 1 .. Len(s) /\ s[r] = steps[j].module
    BY <1>1, <1>3
  <2> QED
    BY <1>3, <2>1, <2>2 DEF Backwards
<1> QED
  BY <1>2, <1>3 DEF Backwards

\* What is left of the steps when the first d are done.
IsRest(q, steps, d) ==
  /\ q \in Seq(Steps)
  /\ Len(q) + d <= Len(steps)
  /\ \A i \in 1 .. Len(q) : q[i] = steps[i + d]

LEMMA RestKeeps ==
  ASSUME NEW steps \in Seq(Steps), NEW d \in Nat, NEW q, IsRest(q, steps, d)
  PROVE  /\ \A ids : StepsIn(steps, ids) => StepsIn(q, ids)
         /\ MarksOnce(steps) => MarksOnce(q)
         /\ \A order : Backwards(steps, order) => Backwards(q, order)
<1>1. /\ Len(q) \in Nat /\ Len(steps) \in Nat
      /\ \A i \in 1 .. Len(q) : i + d \in 1 .. Len(steps) /\ q[i] = steps[i + d]
      /\ \A i, j \in 1 .. Len(q) : i < j => i + d < j + d
  BY DEF IsRest
<1>2. \A ids : StepsIn(steps, ids) => StepsIn(q, ids)
  BY <1>1 DEF StepsIn
<1>3. MarksOnce(steps) => MarksOnce(q)
  <2> SUFFICES ASSUME MarksOnce(steps), NEW i \in 1 .. Len(q), NEW j \in 1 .. Len(q),
                      i < j, q[i].call = "attached", q[j].call = "attached"
               PROVE  q[i].module # q[j].module
    BY DEF MarksOnce
  <2>1. PICK k, l : k = i + d /\ l = j + d
    OBVIOUS
  <2>2. k \in 1 .. Len(steps) /\ l \in 1 .. Len(steps) /\ k < l
        /\ q[i] = steps[k] /\ q[j] = steps[l]
    BY <1>1, <2>1
  <2> QED
    BY <2>2 DEF MarksOnce
<1>4. ASSUME NEW order, Backwards(steps, order) PROVE Backwards(q, order)
  <2>1. \A j \in 1 .. Len(q) : ~q[j].attach =>
          \E p \in 1 .. Len(order) : order[p] = q[j].module
    <3> SUFFICES ASSUME NEW j \in 1 .. Len(q), ~q[j].attach
                 PROVE  \E p \in 1 .. Len(order) : order[p] = q[j].module
      OBVIOUS
    <3>1. PICK k : k = j + d
      OBVIOUS
    <3>2. k \in 1 .. Len(steps) /\ q[j] = steps[k]
      BY <1>1, <3>1
    <3> QED
      BY <1>4, <3>2 DEF Backwards
  <2>2. ASSUME NEW i \in 1 .. Len(q), NEW j \in 1 .. Len(q), i < j,
               ~q[i].attach, ~q[j].attach,
               NEW a \in 1 .. Len(order), NEW b \in 1 .. Len(order),
               order[a] = q[i].module, order[b] = q[j].module
        PROVE  a >= b
    <3>1. PICK k, l : k = i + d /\ l = j + d
      OBVIOUS
    <3>2. k \in 1 .. Len(steps) /\ l \in 1 .. Len(steps) /\ k < l
          /\ q[i] = steps[k] /\ q[j] = steps[l]
      BY <1>1, <2>2, <3>1
    <3> QED
      BY <1>4, <2>2, <3>2 DEF Backwards
  <2> QED
    BY <2>1, <2>2 DEF Backwards
<1> QED
  BY <1>2, <1>3, <1>4

-----------------------------------------------------------------------------
(* Steps. *)

\* The steps before the next call are a first part of the steps.
LEMMA SkippedFirst ==
  ASSUME NEW op, op.steps \in Seq(Steps)
  PROVE  \E n \in 0 .. Len(op.steps) :
           /\ Skipped(op) = SubSeq(op.steps, 1, n)
           /\ Skipped(op) \in Seq(Steps) /\ Len(Skipped(op)) = n
           /\ \A i \in 1 .. n : Skipped(op)[i] = op.steps[i]
<1> DEFINE calls == {i \in DOMAIN op.steps : RunsCode(op.steps[i])}
           last == IF calls = {} THEN Len(op.steps)
                   ELSE (CHOOSE i \in calls : \A j \in calls : i <= j) - 1
<1>1. calls \subseteq 1 .. Len(op.steps) /\ Len(op.steps) \in Nat
  OBVIOUS
<1>2. last \in 0 .. Len(op.steps)
  <2>1. CASE calls = {}
    BY <1>1, <2>1
  <2>2. CASE calls # {}
    <3>1. calls \subseteq Nat
      BY <1>1
    <3>2. \E m \in calls : \A k \in calls : m <= k
      BY <2>2, <3>1, LeastNumber
    <3> DEFINE c == CHOOSE i \in calls : \A j \in calls : i <= j
    <3>3. c \in calls
      BY <3>2
    <3>4. last = c - 1
      BY <2>2
    <3> HIDE DEF c, last, calls
    <3> QED
      BY <1>1, <3>3, <3>4
  <2> QED
    BY <2>1, <2>2
<1>3. Skipped(op) = SubSeq(op.steps, 1, last)
  BY DEF Skipped
<1> HIDE DEF last, calls
<1> DEFINE r == SubSeq(op.steps, 1, last)
<1>4. last \in Nat /\ 1 \in Nat /\ \A i \in 1 .. last : op.steps[i] \in Steps
  BY <1>1, <1>2
<1>5. /\ r \in Seq(Steps)
      /\ Len(r) = IF 1 <= last THEN last - 1 + 1 ELSE 0
      /\ \A i \in 1 .. last - 1 + 1 : r[i] = op.steps[1 + i - 1]
  BY <1>4, SubSeqProperties
<1> HIDE DEF r
<1>6. Len(r) = last /\ \A i \in 1 .. last : r[i] = op.steps[i]
  BY <1>4, <1>5
<1> USE DEF r
<1> QED
  BY <1>2, <1>3, <1>5, <1>6

LEMMA Concatenated ==
  ASSUME NEW S, NEW a \in Seq(S), NEW b \in Seq(S)
  PROVE  /\ a \o b \in Seq(S)
         /\ Len(a) \in Nat /\ Len(b) \in Nat
         /\ Len(a \o b) = Len(a) + Len(b)
         /\ \A i \in 1 .. Len(a) : (a \o b)[i] = a[i]
         /\ \A i \in 1 .. Len(b) : (a \o b)[Len(a) + i] = b[i]
<1> DEFINE c == a \o b
<1>1. /\ c \in Seq(S) /\ Len(c) = Len(a) + Len(b)
      /\ \A i \in 1 .. Len(c) : c[i] = IF i <= Len(a) THEN a[i] ELSE b[i - Len(a)]
  BY ConcatProperties
<1>2. Len(a) \in Nat /\ Len(b) \in Nat
  OBVIOUS
<1> HIDE DEF c
<1>3. \A i \in 1 .. Len(a) : c[i] = a[i]
  BY <1>1, <1>2
<1>4. ASSUME NEW i \in 1 .. Len(b) PROVE c[Len(a) + i] = b[i]
  <2>1. PICK j : j = Len(a) + i
    OBVIOUS
  <2>2. j \in 1 .. Len(c) /\ ~(j <= Len(a)) /\ j - Len(a) = i
    BY <1>1, <1>2, <2>1
  <2> QED
    BY <1>1, <2>1, <2>2
<1> USE DEF c
<1> QED
  BY <1>1, <1>2, <1>3, <1>4

\* Modules whose "attached" step is passed are attached, once and in order.
LEMMA NewlyListed ==
  ASSUME NEW s, Listed(s), NEW op \in Operations, MarksOnce(op.steps),
         StepsIn(op.steps, op.ids), op.ids \subseteq s.loaded
  PROVE  \E a \in Seq(Modules) :
           /\ NewlyAttached(s, op) = [s EXCEPT !.attached = a]
           /\ Listed(NewlyAttached(s, op))
           /\ Len(s.attached) <= Len(a)
           /\ \A i \in 1 .. Len(s.attached) : a[i] = s.attached[i]
<1> DEFINE passed == Skipped(op)
           wanted == {step \in Steps : step.call = "attached" /\ ~Attached(s, step.module)}
<1>1. op.steps \in Seq(Steps)
  BY DEF Operations
<1>2. PICK n \in 0 .. Len(op.steps) :
           /\ passed \in Seq(Steps) /\ Len(passed) = n
           /\ \A i \in 1 .. n : passed[i] = op.steps[i]
  BY <1>1, SkippedFirst
<1>3. PICK marks : marks = Among(passed, wanted)
  OBVIOUS
<1> HIDE DEF passed
<1>4. PICK e : Picks(passed, wanted, Len(passed), marks, e)
  BY <1>2, <1>3, AmongPicks
<1>5. marks \in Seq(Steps)
  BY <1>2, <1>3, AmongKeeps
<1>6. /\ Len(marks) \in Nat /\ Len(op.steps) \in Nat
      /\ \A k \in 1 .. Len(marks) : /\ marks[k] \in wanted /\ marks[k] \in Steps
                                    /\ e[k] \in 1 .. Len(op.steps)
                                    /\ marks[k] = op.steps[e[k]]
      /\ \A k, l \in 1 .. Len(marks) : k < l => e[k] < e[l]
  <2>1. PICK l, k : l = Len(marks) /\ k = Len(op.steps)
    OBVIOUS
  <2>2. l \in Nat /\ k \in Nat /\ n \in 0 .. k
    BY <1>1, <1>5, <2>1
  <2>3. /\ marks \in Seq(wanted) /\ e \in [1 .. l -> 1 .. n]
        /\ \A i \in 1 .. l : marks[i] = passed[e[i]]
        /\ \A i, j \in 1 .. l : i < j => e[i] < e[j]
    BY <1>2, <1>4, <2>1 DEF Picks
  <2>4. \A i \in 1 .. l : e[i] \in 1 .. k /\ marks[i] = op.steps[e[i]]
    BY <1>2, <2>2, <2>3
  <2>5. \A i \in 1 .. l : marks[i] \in wanted /\ marks[i] \in Steps
    BY <1>5, <2>1, <2>3
  <2> QED
    BY <2>1, <2>2, <2>3, <2>4, <2>5
<1> DEFINE new == [i \in 1 .. Len(marks) |-> marks[i].module]
<1>7. /\ new \in Seq(Modules) /\ Len(new) = Len(marks)
      /\ \A i \in 1 .. Len(marks) : new[i] = marks[i].module
  <2>1. \A i \in 1 .. Len(marks) : marks[i].module \in Modules
    BY <1>6 DEF Steps
  <2>2. PICK h : h = Len(marks)
    OBVIOUS
  <2>3. h \in Nat /\ new = [i \in 1 .. h |-> marks[i].module] /\ new \in [1 .. h -> Modules]
    BY <1>6, <2>1, <2>2
  <2>4. new \in Seq(Modules) /\ Len(new) = h
    BY <2>3
  <2> QED
    BY <2>2, <2>4
<1>8. NewlyAttached(s, op) = [s EXCEPT !.attached = s.attached \o new]
  <2>1. DOMAIN marks = 1 .. Len(marks)
    BY <1>5
  <2>2. NewlyAttached(s, op) =
          [s EXCEPT !.attached = @ \o [i \in DOMAIN marks |-> marks[i].module]]
    BY <1>3 DEF NewlyAttached, passed
  <2> QED
    BY <2>1, <2>2
<1>9. \A i \in 1 .. Len(new) : /\ new[i] \in s.loaded
                               /\ \A k \in 1 .. Len(s.attached) : s.attached[k] # new[i]
  <2> SUFFICES ASSUME NEW i \in 1 .. Len(marks)
               PROVE  /\ marks[i].module \in s.loaded
                      /\ \A k \in 1 .. Len(s.attached) : s.attached[k] # marks[i].module
    BY <1>7
  <2>1. marks[i].module \in op.ids
    BY <1>6 DEF StepsIn
  <2>2. ~Attached(s, marks[i].module)
    BY <1>6
  <2>3. DOMAIN s.attached = 1 .. Len(s.attached)
    BY DEF Listed, ModuleSet
  <2> QED
    BY <2>1, <2>2, <2>3 DEF Attached
<1>10. ASSUME NEW i \in 1 .. Len(new), NEW j \in 1 .. Len(new), i < j PROVE new[i] # new[j]
  <2>1. i \in 1 .. Len(marks) /\ j \in 1 .. Len(marks)
    BY <1>7
  <2>2. /\ marks[i] = op.steps[e[i]] /\ marks[j] = op.steps[e[j]] /\ e[i] < e[j]
        /\ e[i] \in 1 .. Len(op.steps) /\ e[j] \in 1 .. Len(op.steps)
        /\ marks[i].call = "attached" /\ marks[j].call = "attached"
    BY <1>6, <1>10, <2>1
  <2>3. marks[i].module # marks[j].module
    BY <2>2 DEF MarksOnce
  <2> QED
    BY <1>7, <2>1, <2>3
<1> HIDE DEF new
<1>11. PICK a : a = s.attached \o new
  OBVIOUS
<1>12. s.attached \in Seq(Modules)
  BY DEF Listed, ModuleSet
<1>13. /\ a \in Seq(Modules) /\ Len(s.attached) \in Nat /\ Len(new) \in Nat
       /\ Len(a) = Len(s.attached) + Len(new)
       /\ \A i \in 1 .. Len(s.attached) : a[i] = s.attached[i]
       /\ \A i \in 1 .. Len(new) : a[Len(s.attached) + i] = new[i]
  <2>1. PICK b : b = s.attached
    OBVIOUS
  <2>2. b \in Seq(Modules) /\ new \in Seq(Modules) /\ a = b \o new
    BY <1>7, <1>11, <1>12, <2>1
  <2>3. /\ a \in Seq(Modules) /\ Len(b) \in Nat /\ Len(new) \in Nat
        /\ Len(a) = Len(b) + Len(new)
        /\ \A i \in 1 .. Len(b) : a[i] = b[i]
        /\ \A i \in 1 .. Len(new) : a[Len(b) + i] = new[i]
    BY ONLY <2>2, Concatenated
  <2> QED
    BY <2>1, <2>3
<1>14. ASSUME NEW i \in 1 .. Len(a)
       PROVE  \/ i \in 1 .. Len(s.attached) /\ a[i] = s.attached[i]
              \/ \E k \in 1 .. Len(new) : i = Len(s.attached) + k /\ a[i] = new[k]
  <2>1. CASE i <= Len(s.attached)
    BY <1>13, <2>1
  <2>2. CASE ~(i <= Len(s.attached))
    <3>1. PICK k : k = i - Len(s.attached)
      OBVIOUS
    <3>2. k \in 1 .. Len(new) /\ i = Len(s.attached) + k
      BY <1>13, <2>2, <3>1
    <3> QED
      BY <1>13, <3>2
  <2> QED
    BY <2>1, <2>2
<1>15. ASSUME NEW i \in 1 .. Len(a) PROVE a[i] \in s.loaded
  <2>1. CASE i \in 1 .. Len(s.attached) /\ a[i] = s.attached[i]
    BY <2>1 DEF Listed
  <2>2. CASE \E k \in 1 .. Len(new) : i = Len(s.attached) + k /\ a[i] = new[k]
    BY <1>9, <2>2
  <2> QED
    BY <1>14, <2>1, <2>2
<1>16. Once(a)
  <2>1. ASSUME NEW i \in 1 .. Len(a), NEW j \in 1 .. Len(a), i < j PROVE a[i] # a[j]
    <3>1. CASE j \in 1 .. Len(s.attached) /\ a[j] = s.attached[j]
      <4>1. i \in 1 .. Len(s.attached) /\ i # j
        BY <1>13, <2>1, <3>1
      <4> QED
        BY <1>13, <3>1, <4>1 DEF Listed, Once
    <3>2. CASE \E k \in 1 .. Len(new) : j = Len(s.attached) + k /\ a[j] = new[k]
      <4>1. PICK k \in 1 .. Len(new) : j = Len(s.attached) + k /\ a[j] = new[k]
        BY <3>2
      <4>2. CASE i \in 1 .. Len(s.attached) /\ a[i] = s.attached[i]
        BY <1>9, <4>1, <4>2
      <4>3. CASE \E l \in 1 .. Len(new) : i = Len(s.attached) + l /\ a[i] = new[l]
        <5>1. PICK l \in 1 .. Len(new) : i = Len(s.attached) + l /\ a[i] = new[l]
          BY <4>3
        <5>2. l < k
          BY <1>13, <2>1, <4>1, <5>1
        <5> QED
          BY <1>10, <4>1, <5>1, <5>2
      <4> QED
        BY <1>14, <4>2, <4>3
    <3> QED
      BY <1>14, <3>1, <3>2
  <2>2. ASSUME NEW i \in 1 .. Len(a), NEW j \in 1 .. Len(a), i # j PROVE a[i] # a[j]
    <3>1. i < j \/ j < i
      BY <1>13, <2>2
    <3> QED
      BY <2>1, <3>1
  <2> QED
    BY <2>2 DEF Once
<1>17. Listed([s EXCEPT !.attached = a])
  <2>1. s \in ModuleSet
    BY DEF Listed
  <2>2. PICK w : w = [s EXCEPT !.attached = a]
    OBVIOUS
  <2>3. w \in ModuleSet /\ w.attached = a /\ w.loaded = s.loaded
    BY <1>13, <2>1, <2>2 DEF ModuleSet
  <2> QED
    BY <1>15, <1>16, <2>2, <2>3 DEF Listed
<1>18. NewlyAttached(s, op) = [s EXCEPT !.attached = a]
  BY <1>8, <1>11
<1>19. Listed(NewlyAttached(s, op)) /\ Len(s.attached) <= Len(a)
  BY <1>13, <1>17, <1>18
<1> QED
  BY <1>13, <1>18, <1>19

\* Only detach calls, no marks.
Detaches(steps) ==
  \A i \in 1 .. Len(steps) : ~steps[i].attach /\ steps[i].call # "attached"

LEMMA Halves ==
  ASSUME NEW i \in Nat, NEW j \in Nat, NEW n \in Nat, 1 <= i, i <= 2 * n
  PROVE  /\ (i + 1) \div 2 \in 1 .. n
         /\ i < j => (i + 1) \div 2 <= (j + 1) \div 2
OBVIOUS

\* Detach calls go backwards through the order of attachment.
LEMMA DetachStepsFit ==
  ASSUME NEW s, s.attached \in Seq(Modules), Once(s.attached), NEW ids
  PROVE  /\ DetachSteps(s, ids) \in Seq(Steps)
         /\ StepsIn(DetachSteps(s, ids), ids)
         /\ Detaches(DetachSteps(s, ids))
         /\ Backwards(DetachSteps(s, ids), s.attached)
<1>1. PICK order, r : order = s.attached /\ r = Among(order, ids)
  OBVIOUS
<1>2. order \in Seq(Modules) /\ Len(order) \in Nat
  BY <1>1
<1>3. PICK e : Picks(order, ids, Len(order), r, e)
  BY <1>1, <1>2, AmongPicks
<1>4. r \in Seq(Modules)
  BY <1>1, <1>2, AmongKeeps
<1>5. /\ Len(r) \in Nat
      /\ \A k \in 1 .. Len(r) : /\ r[k] \in ids /\ r[k] \in Modules
                                /\ e[k] \in 1 .. Len(order) /\ r[k] = order[e[k]]
      /\ \A k, l \in 1 .. Len(r) : k < l => e[k] < e[l]
  BY <1>3, <1>4 DEF Picks
<1>6. PICK n : n = Len(r)
  OBVIOUS
<1>7. n \in Nat
  BY <1>5, <1>6
<1> DEFINE c(i) == n - (i + 1) \div 2 + 1
           steps == [i \in 1 .. 2 * n |->
             Step(IF i % 2 = 1 THEN "tls" ELSE "main", r[c(i)], FALSE)]
<1>8. DetachSteps(s, ids) = steps
  <2> DEFINE leaving == [k \in 1 .. n |-> r[(n - k) + 1]]
  <2>1. Reverse(Among(s.attached, ids)) = leaving
    BY <1>1, <1>6 DEF Reverse
  <2>2. Len(leaving) = n
    BY <1>7
  <2>3. DetachSteps(s, ids) = [i \in 1 .. 2 * n |->
          Step(IF i % 2 = 1 THEN "tls" ELSE "main", leaving[(i + 1) \div 2], FALSE)]
    <3> HIDE DEF leaving
    <3> QED
      BY <2>1, <2>2 DEF DetachSteps
  <2>4. ASSUME NEW i \in 1 .. 2 * n PROVE leaving[(i + 1) \div 2] = r[c(i)]
    <3>1. PICK k : k = (i + 1) \div 2
      OBVIOUS
    <3>2. k \in 1 .. n
      BY <1>7, <3>1, Halves
    <3>3. leaving[k] = r[(n - k) + 1]
      BY <3>2
    <3> HIDE DEF leaving
    <3> QED
      BY <3>1, <3>3
  <2> HIDE DEF leaving, c
  <2> QED
    BY <2>3, <2>4
<1>9. \A i \in 1 .. 2 * n : c(i) \in 1 .. n
  <2> SUFFICES ASSUME NEW i \in 1 .. 2 * n PROVE c(i) \in 1 .. n
    OBVIOUS
  <2>1. (i + 1) \div 2 \in 1 .. n
    BY <1>7, Halves
  <2> QED
    BY <1>7, <2>1
<1>10. \A i, j \in 1 .. 2 * n : i < j => c(i) >= c(j)
  <2> SUFFICES ASSUME NEW i \in 1 .. 2 * n, NEW j \in 1 .. 2 * n, i < j PROVE c(i) >= c(j)
    OBVIOUS
  <2>1. (i + 1) \div 2 \in 1 .. n /\ (j + 1) \div 2 \in 1 .. n
        /\ (i + 1) \div 2 <= (j + 1) \div 2
    BY <1>7, Halves
  <2> QED
    BY <1>7, <2>1
<1>11. PICK f : f = [i \in 1 .. 2 * n |-> c(i)]
  OBVIOUS
<1>12. \A i \in 1 .. 2 * n :
         f[i] \in 1 .. n /\ steps[i] = Step(IF i % 2 = 1 THEN "tls" ELSE "main", r[f[i]], FALSE)
  BY <1>9, <1>11
<1>13. \A i, j \in 1 .. 2 * n : i < j => f[i] >= f[j]
  BY <1>10, <1>11
<1>14. steps \in Seq(Steps) /\ Len(steps) = 2 * n
  <2>1. ASSUME NEW i \in 1 .. 2 * n PROVE steps[i] \in Steps
    <3>1. r[f[i]] \in Modules
      BY <1>5, <1>6, <1>12
    <3>2. \A call \in {"tls", "main"}, m \in Modules : Step(call, m, FALSE) \in Steps
      BY DEF Step, Steps
    <3>3. (IF i % 2 = 1 THEN "tls" ELSE "main") \in {"tls", "main"}
      OBVIOUS
    <3> HIDE DEF steps
    <3> QED
      BY <1>12, <3>1, <3>2, <3>3
  <2>2. PICK k : k = 2 * n
    OBVIOUS
  <2>3. k \in Nat
    BY <1>7, <2>2
  <2>4. DOMAIN steps = 1 .. k /\ steps = [i \in 1 .. k |-> steps[i]]
    BY <2>2
  <2> HIDE DEF steps
  <2>5. steps \in [1 .. k -> Steps]
    BY <2>1, <2>2, <2>4
  <2>6. steps \in Seq(Steps) /\ Len(steps) = k
    BY <2>3, <2>5
  <2> QED
    BY <2>2, <2>6
<1> HIDE DEF steps, c
<1>15. ASSUME NEW i \in 1 .. 2 * n
       PROVE  /\ ~steps[i].attach /\ steps[i].call # "attached"
              /\ steps[i].module = r[f[i]] /\ f[i] \in 1 .. n
  <2>1. PICK call, m : /\ call = IF i % 2 = 1 THEN "tls" ELSE "main"
                       /\ m = r[f[i]]
    OBVIOUS
  <2>2. steps[i] = Step(call, m, FALSE) /\ f[i] \in 1 .. n
    BY <1>12, <2>1
  <2>3. call \in {"tls", "main"}
    BY <2>1
  <2>4. Step(call, m, FALSE).module = m /\ Step(call, m, FALSE).attach = FALSE
        /\ Step(call, m, FALSE).call = call
    BY DEF Step
  <2> QED
    BY <2>1, <2>2, <2>3, <2>4
<1>16. StepsIn(steps, ids) /\ Detaches(steps)
  BY <1>5, <1>6, <1>14, <1>15 DEF StepsIn, Detaches
<1>17. Backwards(steps, order)
  <2>1. ASSUME NEW j \in 1 .. 2 * n PROVE \E p \in 1 .. Len(order) : order[p] = steps[j].module
    <3>1. PICK k : k = f[j]
      OBVIOUS
    <3>2. k \in 1 .. Len(r) /\ steps[j].module = r[k]
      BY <1>6, <1>15, <3>1
    <3>3. e[k] \in 1 .. Len(order) /\ order[e[k]] = steps[j].module
      BY <1>5, <3>2
    <3> QED
      BY <3>3
  <2>2. ASSUME NEW i \in 1 .. 2 * n, NEW j \in 1 .. 2 * n, i < j,
               NEW p \in 1 .. Len(order), NEW q \in 1 .. Len(order),
               order[p] = steps[i].module, order[q] = steps[j].module
        PROVE  p >= q
    <3>1. PICK a, b : a = f[i] /\ b = f[j]
      OBVIOUS
    <3>2. a \in 1 .. n /\ b \in 1 .. n /\ a >= b
          /\ order[p] = r[a] /\ order[q] = r[b]
      BY <1>13, <1>15, <2>2, <3>1
    <3>3. p = e[a] /\ q = e[b]
      <4>1. \A i1, j1 \in 1 .. Len(order) : order[i1] = order[j1] => i1 = j1
        BY <1>1 DEF Once
      <4>2. e[a] \in 1 .. Len(order) /\ order[e[a]] = order[p]
            /\ e[b] \in 1 .. Len(order) /\ order[e[b]] = order[q]
        BY <1>5, <1>6, <3>2
      <4> QED
        BY <4>1, <4>2
    <3>4. a = b \/ e[b] < e[a]
      BY <1>5, <1>6, <1>7, <3>2
    <3>5. e[a] \in 1 .. Len(order) /\ e[b] \in 1 .. Len(order)
      BY <1>5, <1>6, <3>2
    <3> QED
      BY <1>2, <3>3, <3>4, <3>5
  <2> QED
    BY <1>14, <2>1, <2>2 DEF Backwards
<1> QED
  BY <1>1, <1>8, <1>14, <1>16, <1>17

\* The calls of a failed module, which was attached last, come first.
Undoes(m, steps, q) == q = <<Step("tls", m, FALSE), Step("main", m, FALSE)>> \o steps

LEMMA FailedStepsFit ==
  ASSUME NEW order \in Seq(Modules), NEW m \in Modules, NEW ids, m \in ids,
         \A i \in 1 .. Len(order) : order[i] # m, Once(order),
         NEW steps \in Seq(Steps), StepsIn(steps, ids), Detaches(steps),
         Backwards(steps, order),
         NEW q, Undoes(m, steps, q)
  PROVE  /\ q \in Seq(Steps) /\ StepsIn(q, ids) /\ Detaches(q)
         /\ Backwards(q, Append(order, m))
<1> DEFINE head == <<Step("tls", m, FALSE), Step("main", m, FALSE)>>
<1>1. /\ head \in Seq(Steps) /\ Len(head) = 2
      /\ \A i \in 1 .. 2 : /\ ~head[i].attach /\ head[i].call # "attached"
                           /\ head[i].module = m
  <2>1. Step("tls", m, FALSE) \in Steps /\ Step("main", m, FALSE) \in Steps
    BY DEF Step, Steps
  <2>2. head[1] = Step("tls", m, FALSE) /\ head[2] = Step("main", m, FALSE)
    OBVIOUS
  <2>3. \A i \in 1 .. 2 : i = 1 \/ i = 2
    OBVIOUS
  <2>4. \A i \in 1 .. 2 : /\ ~head[i].attach /\ head[i].call # "attached"
                          /\ head[i].module = m
    BY <2>2, <2>3 DEF Step
  <2>5. \A a, b \in Steps : <<a, b>> \in Seq(Steps) /\ Len(<<a, b>>) = 2
    OBVIOUS
  <2>6. head \in Seq(Steps) /\ Len(head) = 2
    BY ONLY <2>1, <2>5
  <2> HIDE DEF head
  <2> QED
    BY <2>4, <2>6
<1> HIDE DEF head
<1>2. /\ q \in Seq(Steps) /\ Len(q) \in Nat /\ Len(steps) \in Nat /\ Len(q) = 2 + Len(steps)
      /\ \A i \in 1 .. 2 : q[i] = head[i]
      /\ \A i \in 1 .. Len(steps) : q[2 + i] = steps[i]
  <2>1. q = head \o steps
    BY DEF head, Undoes
  <2>2. /\ q \in Seq(Steps)
        /\ Len(head) \in Nat /\ Len(steps) \in Nat
        /\ Len(q) = Len(head) + Len(steps)
        /\ \A i \in 1 .. Len(head) : q[i] = head[i]
        /\ \A i \in 1 .. Len(steps) : q[Len(head) + i] = steps[i]
    <3>1. head \in Seq(Steps)
      BY <1>1
    <3> QED
      BY ONLY <2>1, <3>1, steps \in Seq(Steps), Concatenated
  <2>3. PICK h : h = Len(head)
    OBVIOUS
  <2>4. h = 2 /\ /\ Len(q) = h + Len(steps)
                 /\ \A i \in 1 .. h : q[i] = head[i]
                 /\ \A i \in 1 .. Len(steps) : q[h + i] = steps[i]
    BY <1>1, <2>2, <2>3
  <2>5. Len(q) = 2 + Len(steps) /\ Len(q) \in Nat
    BY <2>2, <2>4
  <2> QED
    BY ONLY <2>2, <2>4, <2>5
<1>3. ASSUME NEW i \in 1 .. Len(q)
      PROVE  \/ /\ i \in 1 .. 2 /\ q[i].module = m
                /\ ~q[i].attach /\ q[i].call # "attached"
             \/ \E k \in 1 .. Len(steps) : i = 2 + k /\ q[i] = steps[k]
  <2>1. CASE i <= 2
    <3>1. i \in 1 .. 2
      BY ONLY <2>1, i \in 1 .. Len(q), Len(q) \in Nat, <1>2
    <3>2. q[i] = head[i]
      BY <1>2, <3>1
    <3> QED
      BY ONLY <1>1, <3>1, <3>2
  <2>2. CASE ~(i <= 2)
    <3>1. PICK k : k = i - 2
      OBVIOUS
    <3>2. k \in 1 .. Len(steps) /\ i = 2 + k
      BY <1>2, <2>2, <3>1
    <3> QED
      BY <1>2, <3>2
  <2> QED
    BY <2>1, <2>2
<1>4. StepsIn(q, ids) /\ Detaches(q)
  BY <1>3 DEF StepsIn, Detaches
<1> DEFINE longer == Append(order, m)
<1>5. /\ Len(order) \in Nat /\ Len(longer) = Len(order) + 1
      /\ longer[Len(order) + 1] = m
      /\ \A i \in 1 .. Len(order) : longer[i] = order[i]
  BY AppendProperties
<1> HIDE DEF longer
<1>6. ASSUME NEW p \in 1 .. Len(longer)
      PROVE  \/ p = Len(order) + 1 /\ longer[p] = m
             \/ p \in 1 .. Len(order) /\ longer[p] = order[p] /\ longer[p] # m
  BY <1>5
<1>7. ASSUME NEW j \in 1 .. Len(q) PROVE \E p \in 1 .. Len(longer) : longer[p] = q[j].module
  <2>1. CASE q[j].module = m
    BY <1>5, <2>1
  <2>2. CASE \E k \in 1 .. Len(steps) : j = 2 + k /\ q[j] = steps[k]
    <3>1. PICK k \in 1 .. Len(steps) : q[j] = steps[k]
      BY <2>2
    <3>2. PICK p \in 1 .. Len(order) : order[p] = steps[k].module
      BY DEF Backwards, Detaches
    <3> QED
      BY <1>5, <3>1, <3>2
  <2> QED
    BY <1>3, <2>1, <2>2
<1>8. ASSUME NEW i \in 1 .. Len(q), NEW j \in 1 .. Len(q), i < j,
             NEW a \in 1 .. Len(longer), NEW b \in 1 .. Len(longer),
             longer[a] = q[i].module, longer[b] = q[j].module
      PROVE  a >= b
  <2>1. CASE q[i].module = m
    <3>1. a = Len(order) + 1
      BY <1>6, <1>8, <2>1
    <3> QED
      BY <1>5, <3>1
  <2>2. CASE q[i].module # m
    <3>1. PICK k \in 1 .. Len(steps) : i = 2 + k /\ q[i] = steps[k]
      BY <1>3, <2>2
    <3>2. PICK l \in 1 .. Len(steps) : j = 2 + l /\ q[j] = steps[l]
      BY <1>2, <1>3, <1>8, <3>1
    <3>3. k < l
      BY <1>2, <1>8, <3>1, <3>2
    <3>4. \A p \in 1 .. Len(order) : order[p] # m
      OBVIOUS
    <3>5. q[j].module # m
      <4>1. PICK p \in 1 .. Len(order) : order[p] = steps[l].module
        BY ONLY l \in 1 .. Len(steps), Detaches(steps), Backwards(steps, order), SMTT(30)
           DEF Backwards, Detaches
      <4> QED
        BY ONLY <3>2, <3>4, <4>1
    <3>6. a \in 1 .. Len(order) /\ order[a] = steps[k].module
          /\ b \in 1 .. Len(order) /\ order[b] = steps[l].module
      BY <1>6, <1>8, <2>2, <3>1, <3>2, <3>5
    <3> QED
      BY <3>3, <3>6 DEF Backwards, Detaches
  <2> QED
    BY <2>1, <2>2
<1>9. Backwards(q, longer)
  <2>1. \A j \in 1 .. Len(q) : ~q[j].attach =>
          \E p \in 1 .. Len(longer) : longer[p] = q[j].module
    BY <1>7
  <2>2. \A i, j \in 1 .. Len(q) : i < j /\ ~q[i].attach /\ ~q[j].attach =>
          \A a, b \in 1 .. Len(longer) :
            longer[a] = q[i].module /\ longer[b] = q[j].module => a >= b
    BY <1>8
  <2> QED
    BY <2>1, <2>2 DEF Backwards
<1> USE DEF longer
<1> QED
  BY <1>2, <1>4, <1>9

\* An initialization order names every new module once.
LEMMA OrderNamesOnce ==
  ASSUME NEW new \in SUBSET Modules, NEW imports,
         NEW order \in InitializationOrders(new, imports)
  PROVE  order \in Seq(new) /\ Once(order)
<1>1. IsFiniteSet(new)
  BY ModulesAssumption, FS_Subset
<1>2. PICK n : n = Cardinality(new)
  OBVIOUS
<1>3. n \in Nat
  BY <1>1, <1>2, FS_CardinalityType
<1>4. order \in [1 .. n -> new] /\ \A m \in new : \E i \in DOMAIN order : order[i] = m
  BY <1>2 DEF InitializationOrders
<1>5. order \in Seq(new) /\ Len(order) = n
  BY <1>3, <1>4
<1>6. IsFiniteSet(1 .. n) /\ Cardinality(1 .. n) = n
  BY <1>3, FS_Interval
<1>7. order \in Surjection(1 .. n, new)
  <2>1. DOMAIN order = 1 .. n
    BY <1>4
  <2>2. \A m \in new : \E i \in 1 .. n : order[i] = m
    BY <1>4, <2>1
  <2> QED
    BY <1>4, <2>2 DEF Surjection, Range
<1>8. order \in Injection(1 .. n, new)
  BY <1>2, <1>6, <1>7, FS_SurjSameCardinalityImpliesInj
<1>9. \A i, j \in 1 .. n : order[i] = order[j] => i = j
  BY <1>8, <1>4 DEF Injection, IsInjective
<1> QED
  BY <1>5, <1>9 DEF Once

LEMMA Thirds ==
  ASSUME NEW i \in Nat, NEW j \in Nat, NEW n \in Nat, 1 <= i, i <= 3 * n
  PROVE  /\ (i + 2) \div 3 \in 1 .. n
         /\ i % 3 \in {0, 1, 2}
         /\ i < j /\ i % 3 = 0 /\ j % 3 = 0 => (i + 2) \div 3 < (j + 2) \div 3
OBVIOUS

LEMMA LoadStepsFit ==
  ASSUME NEW ids \in SUBSET Modules, NEW order \in Seq(ids), Once(order)
  PROVE  /\ LoadSteps(order) \in Seq(Steps)
         /\ StepsIn(LoadSteps(order), ids)
         /\ MarksOnce(LoadSteps(order))
         /\ \A any : Backwards(LoadSteps(order), any)
<1>1. PICK n : n = Len(order)
  OBVIOUS
<1>2. n \in Nat /\ \A k \in 1 .. n : order[k] \in ids
  BY <1>1
<1>3. PICK at : at = [i \in 1 .. 3 * n |-> (i + 2) \div 3]
  OBVIOUS
<1>4. PICK steps : steps = LoadSteps(order)
  OBVIOUS
<1>5. steps = [i \in 1 .. 3 * n |->
         LET m == order[(i + 2) \div 3] IN
         CASE i % 3 = 1 -> Step("tls", m, TRUE)
           [] i % 3 = 2 -> Step("main", m, TRUE)
           [] i % 3 = 0 -> Step("attached", m, TRUE)]
  BY <1>1, <1>4 DEF LoadSteps
<1>6. ASSUME NEW i \in 1 .. 3 * n
      PROVE  \E call \in {"tls", "main", "attached"} :
               /\ steps[i] = Step(call, order[at[i]], TRUE)
               /\ at[i] \in 1 .. n
               /\ at[i] = (i + 2) \div 3
               /\ call = "attached" => i % 3 = 0
  <2>1. at[i] = (i + 2) \div 3
    BY <1>3
  <2>2. at[i] \in 1 .. n /\ i % 3 \in {0, 1, 2}
    BY <1>2, <2>1, Thirds
  <2>3. steps[i] = CASE i % 3 = 1 -> Step("tls", order[at[i]], TRUE)
                     [] i % 3 = 2 -> Step("main", order[at[i]], TRUE)
                     [] i % 3 = 0 -> Step("attached", order[at[i]], TRUE)
    BY <1>5, <2>1
  <2>4. CASE i % 3 = 0
    BY <2>1, <2>2, <2>3, <2>4
  <2>5. CASE i % 3 = 1
    BY <2>1, <2>2, <2>3, <2>5
  <2>6. CASE i % 3 = 2
    BY <2>1, <2>2, <2>3, <2>6
  <2> QED
    BY <2>2, <2>4, <2>5, <2>6
<1>7. \A call, m : /\ Step(call, m, TRUE).call = call /\ Step(call, m, TRUE).module = m
                   /\ Step(call, m, TRUE).attach = TRUE
                   /\ call \in {"tls", "main", "attached"} /\ m \in Modules
                        => Step(call, m, TRUE) \in Steps
  BY DEF Step, Steps
<1>8. ASSUME NEW i \in 1 .. 3 * n
      PROVE  /\ steps[i] \in Steps /\ steps[i].attach = TRUE /\ steps[i].module \in ids
             /\ steps[i].module = order[at[i]] /\ at[i] \in 1 .. n
             /\ at[i] = (i + 2) \div 3
             /\ steps[i].call = "attached" => i % 3 = 0
  <2>1. PICK call \in {"tls", "main", "attached"} :
               /\ steps[i] = Step(call, order[at[i]], TRUE)
               /\ at[i] \in 1 .. n
               /\ at[i] = (i + 2) \div 3
               /\ call = "attached" => i % 3 = 0
    BY <1>6
  <2>2. PICK m : m = order[at[i]]
    OBVIOUS
  <2>3. m \in ids /\ m \in Modules
    BY <1>2, <2>1, <2>2
  <2>4. PICK step : step = Step(call, m, TRUE)
    OBVIOUS
  <2>5. /\ step.call = call /\ step.module = m /\ step.attach = TRUE /\ step \in Steps
        /\ steps[i] = step
    BY <1>7, <2>1, <2>2, <2>3, <2>4
  <2> QED
    BY ONLY <2>1, <2>2, <2>3, <2>5
<1>9. steps \in Seq(Steps) /\ Len(steps) = 3 * n
  <2>1. PICK k : k = 3 * n
    OBVIOUS
  <2>2. k \in Nat
    BY <1>2, <2>1
  <2>3. steps \in [1 .. k -> Steps]
    BY <1>5, <1>8, <2>1
  <2>4. steps \in Seq(Steps) /\ Len(steps) = k
    BY <2>2, <2>3
  <2> QED
    BY <2>1, <2>4
<1>10. StepsIn(steps, ids)
  BY <1>8, <1>9 DEF StepsIn
<1>11. \A any : Backwards(steps, any)
  BY <1>8, <1>9 DEF Backwards
<1>12. MarksOnce(steps)
  <2> SUFFICES ASSUME NEW i \in 1 .. 3 * n, NEW j \in 1 .. 3 * n, i < j,
                      steps[i].call = "attached", steps[j].call = "attached"
               PROVE  steps[i].module # steps[j].module
    BY <1>9 DEF MarksOnce
  <2>1. /\ steps[i].module = order[at[i]] /\ at[i] \in 1 .. n
        /\ steps[j].module = order[at[j]] /\ at[j] \in 1 .. n
        /\ at[i] = (i + 2) \div 3 /\ at[j] = (j + 2) \div 3
        /\ i % 3 = 0 /\ j % 3 = 0
    BY <1>8
  <2>2. (i + 2) \div 3 < (j + 2) \div 3
    BY <1>2, <2>1, Thirds
  <2>3. at[i] # at[j]
    BY <1>2, <2>1, <2>2
  <2> QED
    BY <1>1, <2>1, <2>3 DEF Once
<1> QED
  BY <1>4, <1>9, <1>10, <1>11, <1>12

-----------------------------------------------------------------------------
(* The module set when an operation takes effect. *)

\* w is s when the modules ids were unloaded.
Unloaded(s, ids, w) ==
  /\ w.loaded = s.loaded \ ids
  /\ w.explicit = [m \in Modules |-> IF m \in ids THEN 0 ELSE s.explicit[m]]
  /\ w.pinned = s.pinned \ ids
  /\ w.attached = Among(s.attached, Modules \ ids)

LEMMA WithoutFields ==
  ASSUME NEW s, Listed(s), NEW ids, NEW edges, NEW w, w = Without(s, ids, edges)
  PROVE  Unloaded(s, ids, w) /\ Listed(w)
<1>1. s \in ModuleSet
  BY DEF Listed
<1> DEFINE deps == [m \in Modules |->
                      IF m \in ids THEN {} ELSE {d \in s.dependencies[m] : <<m, d>> \notin edges}]
           explicit == [m \in Modules |-> IF m \in ids THEN 0 ELSE s.explicit[m]]
<1>2. PICK a : a = Among(s.attached, Modules \ ids)
  OBVIOUS
<1>3. /\ w.loaded = s.loaded \ ids /\ w.dependencies = deps /\ w.explicit = explicit
      /\ w.pinned = s.pinned \ ids /\ w.attached = a
      /\ w = [loaded |-> s.loaded \ ids, dependencies |-> deps, explicit |-> explicit,
              pinned |-> s.pinned \ ids, attached |-> a,
              uninitialized |-> s.uninitialized \ ids]
  BY <1>1, <1>2 DEF Without, ModuleSet
<1>4. s.attached \in Seq(Modules) /\ Once(s.attached)
      /\ \A i \in 1 .. Len(s.attached) : s.attached[i] \in s.loaded
  BY <1>1 DEF Listed, ModuleSet
<1>5. PICK order : order = s.attached
  OBVIOUS
<1>6. /\ a \in Seq(Modules)
      /\ \A k \in 1 .. Len(a) : a[k] \in Modules \ ids /\ \E i \in 1 .. Len(order) : a[k] = order[i]
      /\ Once(a)
  <2>1. PICK S : S = Modules \ ids
    OBVIOUS
  <2>2. order \in Seq(Modules) /\ Once(order) /\ a = Among(order, S)
    BY <1>2, <1>4, <1>5, <2>1
  <2>3. /\ a \in Seq(Modules) /\ Once(a)
        /\ \A k \in 1 .. Len(a) : a[k] \in S /\ \E i \in 1 .. Len(order) : a[k] = order[i]
    BY ONLY <2>2, AmongKeeps
  <2> QED
    BY <2>1, <2>3
<1>7. deps \in [Modules -> SUBSET Modules] /\ explicit \in [Modules -> 0 .. MaxExplicit]
  <2>1. s.dependencies \in [Modules -> SUBSET Modules]
    BY <1>1 DEF ModuleSet
  <2>2. s.explicit \in [Modules -> 0 .. MaxExplicit] /\ 0 \in 0 .. MaxExplicit
    BY <1>1, ModulesAssumption DEF ModuleSet
  <2>3. deps \in [Modules -> SUBSET Modules]
    BY <2>1
  <2>4. explicit \in [Modules -> 0 .. MaxExplicit]
    BY <2>2
  <2> QED
    BY <2>3, <2>4
<1> HIDE DEF deps, explicit
<1>8. w \in ModuleSet
  <2>1. /\ s.loaded \ ids \in SUBSET Modules /\ s.pinned \ ids \in SUBSET Modules
        /\ s.uninitialized \ ids \in SUBSET Modules
    BY <1>1 DEF ModuleSet
  <2> QED
    BY <1>3, <1>6, <1>7, <2>1 DEF ModuleSet
<1>9. \A k \in 1 .. Len(a) : a[k] \in s.loaded \ ids
  BY <1>4, <1>5, <1>6
<1>10. Listed(w)
  BY <1>3, <1>6, <1>8, <1>9 DEF Listed
<1> QED
  BY <1>2, <1>3, <1>10 DEF explicit, Unloaded

LEMMA NoModulesListed == Listed(NoModules)
<1>1. NoModules \in ModuleSet
  <2>1. 0 \in 0 .. MaxExplicit /\ <<>> \in Seq(Modules)
    BY ModulesAssumption
  <2>2. [m \in Modules |-> {}] \in [Modules -> SUBSET Modules]
        /\ [m \in Modules |-> 0] \in [Modules -> 0 .. MaxExplicit]
    BY <2>1
  <2> QED
    BY <2>1, <2>2 DEF NoModules, ModuleSet
<1>2. NoModules.attached = <<>> /\ Len(<<>>) = 0
  BY DEF NoModules
<1> QED
  BY <1>1, <1>2 DEF Listed, Once

LEMMA ExplicitListed ==
  ASSUME NEW s, Listed(s), NEW c \in [Modules -> 0 .. MaxExplicit],
         NEW w, w = [s EXCEPT !.explicit = c]
  PROVE  /\ Listed(w) /\ w.explicit = c /\ w.loaded = s.loaded /\ w.pinned = s.pinned
         /\ w.attached = s.attached
<1>1. s \in ModuleSet
  BY DEF Listed
<1>2. w \in ModuleSet /\ w.explicit = c /\ w.loaded = s.loaded /\ w.pinned = s.pinned
      /\ w.attached = s.attached
  BY <1>1 DEF ModuleSet
<1> QED
  BY <1>2 DEF Listed

LEMMA PinnedListed ==
  ASSUME NEW s, Listed(s), NEW p \in SUBSET Modules,
         NEW w, w = [s EXCEPT !.pinned = p]
  PROVE  /\ Listed(w) /\ w.explicit = s.explicit /\ w.loaded = s.loaded /\ w.pinned = p
         /\ w.attached = s.attached
<1>1. s \in ModuleSet
  BY DEF Listed
<1>2. w \in ModuleSet /\ w.explicit = s.explicit /\ w.loaded = s.loaded /\ w.pinned = p
      /\ w.attached = s.attached
  BY <1>1 DEF ModuleSet
<1> QED
  BY <1>2 DEF Listed

LEMMA DependenciesListed ==
  ASSUME NEW s, Listed(s), NEW d \in [Modules -> SUBSET Modules],
         NEW w, w = [s EXCEPT !.dependencies = d]
  PROVE  /\ Listed(w) /\ w.explicit = s.explicit /\ w.loaded = s.loaded
         /\ w.pinned = s.pinned /\ w.attached = s.attached
<1>1. s \in ModuleSet
  BY DEF Listed
<1>2. w \in ModuleSet /\ w.explicit = s.explicit /\ w.loaded = s.loaded
      /\ w.pinned = s.pinned /\ w.attached = s.attached
  BY <1>1 DEF ModuleSet
<1> QED
  BY <1>2 DEF Listed

LEMMA EmptiedListed ==
  ASSUME NEW s, Listed(s), NEW w, w = [s EXCEPT !.attached = <<>>]
  PROVE  Listed(w) /\ w.loaded = s.loaded
<1>1. s \in ModuleSet
  BY DEF Listed
<1>2. w \in ModuleSet /\ w.loaded = s.loaded /\ w.attached = <<>> /\ Len(<<>>) = 0
  <2>1. <<>> \in Seq(Modules) /\ Len(<<>>) = 0
    OBVIOUS
  <2>2. PICK e : e = <<>>
    OBVIOUS
  <2>3. e \in Seq(Modules) /\ w = [s EXCEPT !.attached = e]
    BY <2>1, <2>2
  <2>4. w \in ModuleSet /\ w.loaded = s.loaded /\ w.attached = e
    BY <1>1, <2>3 DEF ModuleSet
  <2> QED
    BY <2>1, <2>2, <2>4
<1> QED
  BY <1>2 DEF Listed, Once

Adds(s, new, edges, image, w) == w = Installed(s, new, edges, image)

LEMMA InstalledListed ==
  ASSUME NEW s, Listed(s), NEW new \in SUBSET Modules, NEW edges, NEW image,
         NEW w, Adds(s, new, edges, image, w)
  PROVE  /\ Listed(w) /\ w.loaded = s.loaded \cup new
         /\ w.explicit = s.explicit /\ w.pinned = s.pinned /\ w.attached = s.attached
<1>1. s \in ModuleSet
  BY DEF Listed
<1> DEFINE deps == [m \in Modules |->
              IF m \in new THEN (IF image THEN {} ELSE Imports[m] \ {m})
              ELSE s.dependencies[m] \cup {d \in Modules : <<m, d>> \in edges}]
           fresh == IF image THEN s.uninitialized \cup new ELSE s.uninitialized
<1>2. w = [loaded |-> s.loaded \cup new, dependencies |-> deps, explicit |-> s.explicit,
           pinned |-> s.pinned, attached |-> s.attached, uninitialized |-> fresh]
  BY <1>1 DEF Installed, ModuleSet, Adds
<1>3. deps \in [Modules -> SUBSET Modules]
  <2>1. s.dependencies \in [Modules -> SUBSET Modules]
    BY <1>1 DEF ModuleSet
  <2> QED
    BY <2>1, ModulesAssumption
<1>4. fresh \in SUBSET Modules
  BY <1>1 DEF ModuleSet
<1> HIDE DEF deps, fresh
<1>5. w \in ModuleSet
  BY <1>1, <1>2, <1>3, <1>4 DEF ModuleSet
<1>6. /\ w.loaded = s.loaded \cup new /\ w.explicit = s.explicit
      /\ w.pinned = s.pinned /\ w.attached = s.attached
  BY <1>2
<1> QED
  BY <1>5, <1>6 DEF Listed

-----------------------------------------------------------------------------
(* Operations of the stack while another takes effect. *)

\* What an operation below needs of a change from s to w.
Spares(s, w, gone, left, op) ==
  /\ op.ids \subseteq w.loaded
  /\ op.purpose = "unload" => op.root \in w.loaded /\ w.explicit[op.root] # 0
  /\ \A m \in op.ids \ left :
       m \notin gone /\ w.explicit[m] = s.explicit[m] /\ (m \in w.pinned => m \in s.pinned)
  /\ Backwards(op.steps, w.attached)

LEMMA SparedFits ==
  ASSUME NEW s, NEW w, NEW gone, NEW left, NEW op,
         Fits(s, gone, op), Spares(s, w, gone, left, op)
  PROVE  Fits(w, left, op)
<1>1. ASSUME NEW m \in Goes(op) \ left
      PROVE  /\ m \notin w.pinned
             /\ w.explicit[m] # 0 => op.purpose = "unload" /\ op.root = m /\ w.explicit[m] = 1
  <2>1. m \in op.ids \ left
    BY DEF Goes
  <2>2. m \in Goes(op) \ gone /\ w.explicit[m] = s.explicit[m] /\ (m \in w.pinned => m \in s.pinned)
    BY <2>1 DEF Spares
  <2> QED
    BY <2>2 DEF Fits, Counted
<1>2. Counted(w, left, op)
  BY <1>1 DEF Counted, Spares
<1> QED
  BY <1>2 DEF Fits, Spares

LEMMA SparedStack ==
  ASSUME NEW s, NEW w, NEW gone, NEW left, NEW stack, AllFit(s, gone, stack),
         \A i \in 1 .. Len(stack) : Spares(s, w, gone, left, stack[i])
  PROVE  AllFit(w, left, stack)
BY SparedFits DEF AllFit

\* The operation that is begun, or was begun last, over a stack of others.
Over(op, stack) == \A i \in 1 .. Len(stack) : Nests(op, stack[i])

LEMMA OnlyAlone ==
  ASSUME NEW op, NEW stack, Len(stack) \in Nat, Over(op, stack),
         op.initial \/ op.purpose \in {"unload", "shutdown"}
  PROVE  Len(stack) = 0
<1>1. CASE Len(stack) # 0
  <2>1. 1 \in 1 .. Len(stack)
    BY <1>1
  <2>2. op.purpose \in {"load", "rollback"} /\ ~op.initial
    BY <2>1 DEF Over, Nests
  <2> QED
    BY <2>2
<1> QED
  BY <1>1

\* One more or one fewer reference.
LEMMA Recounted ==
  ASSUME NEW s, Listed(s), NEW m \in Modules, NEW n \in {1, -1},
         s.explicit[m] + n \in 0 .. MaxExplicit
  PROVE  /\ s.explicit \in [Modules -> 0 .. MaxExplicit]
         /\ [s.explicit EXCEPT ![m] = @ + n] \in [Modules -> 0 .. MaxExplicit]
         /\ [s.explicit EXCEPT ![m] = @ + n][m] = s.explicit[m] + n
         /\ \A x \in Modules : x # m => [s.explicit EXCEPT ![m] = @ + n][x] = s.explicit[x]
<1>1. PICK c : c = s.explicit
  OBVIOUS
<1>2. c \in [Modules -> 0 .. MaxExplicit] /\ c[m] + n \in 0 .. MaxExplicit
  BY <1>1 DEF Listed, ModuleSet
<1>3. /\ [c EXCEPT ![m] = @ + n] \in [Modules -> 0 .. MaxExplicit]
      /\ [c EXCEPT ![m] = @ + n][m] = c[m] + n
      /\ \A x \in Modules : x # m => [c EXCEPT ![m] = @ + n][x] = c[x]
  BY <1>2
<1> QED
  BY <1>1, <1>2, <1>3

\* An operation that takes effect leaves the ones below it as they fit.
LEMMA CompletedFits ==
  ASSUME NEW s, Listed(s), NEW gone, NEW op, Fits(s, gone, op),
         NEW stack, Len(stack) \in Nat, AllFit(s, gone, stack), Over(op, stack),
         NEW w, w = Completed(s, op), w.explicit[op.root] <= MaxExplicit,
         NEW left, left = gone \cap w.loaded
  PROVE  /\ Listed(w) /\ AllFit(w, left, stack)
         /\ Main \in w.loaded => s.loaded \ w.loaded \subseteq Goes(op)
<1>1. /\ op.root \in Modules /\ op.ids \in SUBSET Modules
      /\ op.purpose \in {"load", "unload", "rollback", "shutdown"}
      /\ op.initial \in BOOLEAN /\ op.export \in BOOLEAN
  BY DEF Fits, Operations
<1>2. s \in ModuleSet /\ op.ids \subseteq s.loaded
  BY DEF Listed, Fits
<1>3. ASSUME Len(stack) = 0 PROVE AllFit(w, left, stack)
  BY <1>3 DEF AllFit
<1>4. CASE op.purpose = "load" /\ op.initial
  <2>1. w = [s EXCEPT !.pinned = s.pinned \cup {op.root}]
    BY <1>4 DEF Completed
  <2>2. PICK p : p = s.pinned \cup {op.root}
    OBVIOUS
  <2>3. p \in SUBSET Modules
    BY <1>1, <1>2, <2>2 DEF ModuleSet
  <2>4. Listed(w) /\ w.loaded = s.loaded
    <3>1. w = [s EXCEPT !.pinned = p]
      BY <2>1, <2>2
    <3> QED
      BY ONLY <2>3, <3>1, Listed(s), PinnedListed, SMTT(30)
  <2>5. Len(stack) = 0
    BY <1>4, OnlyAlone
  <2> QED
    BY <1>3, <2>4, <2>5
<1>5. CASE op.purpose = "load" /\ ~op.initial /\ op.export
  <2>1. w = s
    BY <1>5 DEF Completed
  <2>2. ASSUME NEW i \in 1 .. Len(stack) PROVE Spares(s, w, gone, left, stack[i])
    <3>1. Fits(s, gone, stack[i])
      BY DEF AllFit
    <3> QED
      BY <2>1, <3>1 DEF Fits, Spares, Counted
  <2> QED
    BY <2>1, <2>2, SparedStack
<1>6. CASE op.purpose = "load" /\ ~op.initial /\ ~op.export
  <2> DEFINE c == [s.explicit EXCEPT ![op.root] = @ + 1]
  <2>1. w = [s EXCEPT !.explicit = c]
    BY <1>2, <1>6 DEF Completed, ModuleSet
  <2>2. s.explicit \in [Modules -> 0 .. MaxExplicit]
    BY <1>2 DEF ModuleSet
  <2>3. w.explicit = c /\ c[op.root] = s.explicit[op.root] + 1
    BY <1>1, <1>2, <2>1, <2>2 DEF ModuleSet
  <2>4. s.explicit[op.root] + 1 \in 0 .. MaxExplicit
    <3>1. s.explicit[op.root] \in 0 .. MaxExplicit
      BY <1>1, <2>2
    <3>2. s.explicit[op.root] + 1 <= MaxExplicit
      BY <2>3
    <3> QED
      BY <3>1, <3>2, ModulesAssumption
  <2>5. /\ c \in [Modules -> 0 .. MaxExplicit]
        /\ \A x \in Modules : x # op.root => c[x] = s.explicit[x]
    BY <1>1, <2>4, Recounted
  <2> HIDE DEF c
  <2>6. /\ Listed(w) /\ w.explicit = c /\ w.loaded = s.loaded /\ w.pinned = s.pinned
        /\ w.attached = s.attached
    BY <2>1, <2>5, ExplicitListed
  <2>7. op.root \in op.ids
    BY <1>6 DEF Fits
  <2>8. ASSUME NEW i \in 1 .. Len(stack) PROVE Spares(s, w, gone, left, stack[i])
    <3>1. Fits(s, gone, stack[i]) /\ Nests(op, stack[i])
      BY DEF AllFit, Over
    <3>2. /\ stack[i].ids \subseteq s.loaded /\ op.root \notin stack[i].ids
          /\ stack[i].purpose = "unload" => /\ stack[i].root \in s.loaded
                                            /\ s.explicit[stack[i].root] # 0
                                            /\ stack[i].root # op.root
          /\ Backwards(stack[i].steps, s.attached)
      BY <2>7, <3>1 DEF Fits, Counted, Nests
    <3>3. s.loaded \subseteq Modules
      BY <1>2 DEF ModuleSet
    <3>4. \A x \in s.loaded : x # op.root => w.explicit[x] = s.explicit[x]
      BY <2>5, <2>6, <3>3
    <3> QED
      BY <2>6, <3>2, <3>4 DEF Spares
  <2> QED
    BY <2>6, <2>8, SparedStack
<1>7. CASE op.purpose = "shutdown"
  <2>1. w = [s EXCEPT !.attached = <<>>]
    BY <1>7 DEF Completed
  <2>2. Listed(w) /\ w.loaded = s.loaded
    BY <2>1, EmptiedListed
  <2>3. Len(stack) = 0
    BY <1>7, OnlyAlone
  <2> QED
    BY <1>3, <2>2, <2>3
<1>8. CASE op.purpose = "rollback" /\ op.initial
  <2>1. w = NoModules
    BY <1>8 DEF Completed
  <2>2. Listed(w) /\ Main \notin w.loaded
    BY <2>1, NoModulesListed DEF NoModules
  <2>3. Len(stack) = 0
    BY <1>8, OnlyAlone
  <2> QED
    BY <1>3, <2>2, <2>3
<1>9. CASE op.purpose = "rollback" /\ ~op.initial
  <2>1. w = Without(s, op.ids, op.edges)
    BY <1>9 DEF Completed
  <2>2. /\ w.loaded = s.loaded \ op.ids
        /\ w.explicit = [m \in Modules |-> IF m \in op.ids THEN 0 ELSE s.explicit[m]]
        /\ w.pinned = s.pinned \ op.ids
        /\ w.attached = Among(s.attached, Modules \ op.ids)
        /\ Listed(w)
    <3>1. PICK ids, edges : ids = op.ids /\ edges = op.edges
      OBVIOUS
    <3>2. w = Without(s, ids, edges)
      BY <2>1, <3>1
    <3>3. Unloaded(s, ids, w) /\ Listed(w)
      BY ONLY <3>2, Listed(s), WithoutFields
    <3> QED
      BY <3>1, <3>3 DEF Unloaded
  <2>3. ASSUME NEW i \in 1 .. Len(stack) PROVE Spares(s, w, gone, left, stack[i])
    <3>1. Fits(s, gone, stack[i]) /\ Nests(op, stack[i])
      BY DEF AllFit, Over
    <3>2. /\ stack[i].ids \subseteq s.loaded /\ op.ids \cap stack[i].ids = {}
          /\ stack[i].purpose = "unload" => /\ stack[i].root \in s.loaded
                                            /\ s.explicit[stack[i].root] # 0
                                            /\ stack[i].root \notin op.ids
          /\ Backwards(stack[i].steps, s.attached)
          /\ StepsIn(stack[i].steps, stack[i].ids)
      BY <3>1 DEF Fits, Counted, Nests
    <3>3. s.loaded \subseteq Modules /\ s.attached \in Seq(Modules)
      BY <1>2 DEF ModuleSet
    <3>4. \A x \in s.loaded : x \notin op.ids => w.explicit[x] = s.explicit[x]
      BY <2>2, <3>3
    <3>5. \A j \in 1 .. Len(stack[i].steps) : stack[i].steps[j].module \in Modules \ op.ids
      BY <3>2, <3>3 DEF StepsIn
    <3>6. Backwards(stack[i].steps, w.attached)
      <4>1. PICK order, steps, S : /\ order = s.attached /\ steps = stack[i].steps
                                   /\ S = Modules \ op.ids
        OBVIOUS
      <4>2. /\ order \in Seq(Modules) /\ Backwards(steps, order)
            /\ \A j \in 1 .. Len(steps) : steps[j].module \in S
        BY <3>2, <3>3, <3>5, <4>1
      <4>3. Backwards(steps, Among(order, S))
        BY <4>2, BackwardsAmong
      <4> QED
        BY <2>2, <4>1, <4>3
    <3> QED
      BY <2>2, <3>2, <3>4, <3>6 DEF Spares
  <2>4. Goes(op) = op.ids
    BY <1>9 DEF Goes
  <2> QED
    BY <2>2, <2>3, <2>4, SparedStack
<1>10. CASE op.purpose = "unload"
  <2>1. Len(stack) = 0
    BY <1>10, OnlyAlone
  <2>2. PICK rest : rest = Without(s, op.ids, {})
    OBVIOUS
  <2>3. /\ rest.loaded = s.loaded \ op.ids /\ Listed(rest)
        /\ rest.explicit = [m \in Modules |-> IF m \in op.ids THEN 0 ELSE s.explicit[m]]
    <3>1. PICK ids, edges : ids = op.ids /\ edges = {}
      OBVIOUS
    <3>2. rest = Without(s, ids, edges)
      BY <2>2, <3>1
    <3>3. Unloaded(s, ids, rest) /\ Listed(rest)
      BY ONLY <3>2, Listed(s), WithoutFields
    <3> QED
      BY <3>1, <3>3 DEF Unloaded
  <2>4. w = IF op.root \in op.ids THEN rest ELSE [rest EXCEPT !.explicit[op.root] = @ - 1]
    BY <1>10, <2>2 DEF Completed
  <2>5. Listed(w) /\ w.loaded = rest.loaded
    <3>1. CASE op.root \in op.ids
      BY <2>3, <2>4, <3>1
    <3>2. CASE op.root \notin op.ids
      <4> DEFINE c == [rest.explicit EXCEPT ![op.root] = @ + (-1)]
      <4>1. rest.explicit[op.root] \in 0 .. MaxExplicit /\ rest.explicit[op.root] # 0
        <5>1. rest.explicit[op.root] = s.explicit[op.root]
          BY <1>1, <2>3, <3>2
        <5>2. s.explicit \in [Modules -> 0 .. MaxExplicit]
          BY <1>2 DEF ModuleSet
        <5>3. s.explicit[op.root] # 0
          BY <1>10 DEF Fits, Counted
        <5> QED
          BY <1>1, <5>1, <5>2, <5>3
      <4>2. rest.explicit[op.root] + (-1) \in 0 .. MaxExplicit
        BY <4>1, ModulesAssumption
      <4>3. c \in [Modules -> 0 .. MaxExplicit]
        BY <1>1, <2>3, <4>2, Recounted
      <4>4. w = [rest EXCEPT !.explicit = c]
        <5>1. rest.explicit[op.root] - 1 = rest.explicit[op.root] + (-1)
          BY <4>1
        <5>2. rest \in ModuleSet
          BY <2>3 DEF Listed
        <5>3. w = [rest EXCEPT !.explicit = [rest.explicit EXCEPT ![op.root] = @ - 1]]
          BY <2>4, <3>2, <5>2 DEF ModuleSet
        <5> QED
          BY <5>1, <5>3
      <4> HIDE DEF c
      <4> QED
        BY <2>3, <4>3, <4>4, ExplicitListed
    <3> QED
      BY <3>1, <3>2
  <2>6. Goes(op) = op.ids
    BY <1>10 DEF Goes, Fits
  <2> QED
    BY <1>3, <2>1, <2>3, <2>5, <2>6
<1> QED
  BY <1>1, <1>4, <1>5, <1>6, <1>7, <1>8, <1>9, <1>10

\* What is left when the steps before the next call were passed.
LEMMA RestOfSteps ==
  ASSUME NEW op, op.steps \in Seq(Steps),
         NEW rest, rest = SubSeq(op.steps, Len(Skipped(op)) + 1, Len(op.steps))
  PROVE  /\ rest = <<>> => Completes(op)
         /\ rest # <<>> => \E d \in 1 .. Len(op.steps) :
               Head(rest) = op.steps[d] /\ IsRest(Tail(rest), op.steps, d)
<1>1. PICK steps : steps = op.steps
  OBVIOUS
<1>2. PICK n \in 0 .. Len(steps) : Len(Skipped(op)) = n
  BY <1>1, SkippedFirst
<1>3. steps \in Seq(Steps) /\ Len(steps) \in Nat /\ rest = SubSeq(steps, n + 1, Len(steps))
  BY <1>1, <1>2
<1>4. \A i \in n + 1 .. Len(steps) : steps[i] \in Steps
  BY <1>2, <1>3
<1>5. /\ rest \in Seq(Steps)
      /\ Len(rest) = IF n + 1 <= Len(steps) THEN Len(steps) - (n + 1) + 1 ELSE 0
      /\ \A i \in 1 .. Len(steps) - (n + 1) + 1 : rest[i] = steps[n + 1 + i - 1]
  BY <1>2, <1>3, <1>4, SubSeqProperties, SMTT(30)
<1>6. /\ Len(rest) = Len(steps) - n /\ Len(rest) \in Nat
      /\ \A i \in 1 .. Len(rest) : rest[i] = steps[n + i]
  BY <1>2, <1>3, <1>5
<1>7. ASSUME rest = <<>> PROVE Completes(op)
  <2>1. Len(rest) = 0
    BY <1>7
  <2>2. n = Len(steps)
    BY <1>2, <1>3, <1>6, <2>1
  <2> QED
    BY <1>1, <1>2, <2>2 DEF Completes
<1>8. ASSUME rest # <<>>
      PROVE  \E d \in 1 .. Len(op.steps) :
               Head(rest) = op.steps[d] /\ IsRest(Tail(rest), op.steps, d)
  <2>1. PICK d, q : d = n + 1 /\ q = Tail(rest)
    OBVIOUS
  <2>2. /\ Head(rest) = rest[1] /\ q \in Seq(Steps) /\ Len(q) = Len(rest) - 1
        /\ \A i \in 1 .. Len(q) : q[i] = rest[i + 1]
        /\ Len(rest) >= 1
    BY <1>5, <1>8, <2>1, HeadTailProperties, SMTT(30)
  <2>3. d \in 1 .. Len(steps) /\ Head(rest) = steps[d]
    BY <1>2, <1>3, <1>6, <2>1, <2>2
  <2>4. ASSUME NEW i \in 1 .. Len(q) PROVE q[i] = steps[i + d]
    <3>1. i + 1 \in 1 .. Len(rest) /\ n + (i + 1) = i + d
      BY <1>2, <1>6, <2>1, <2>2
    <3> QED
      BY <1>6, <2>2, <3>1
  <2>5. Len(q) + d <= Len(steps)
    <3>1. PICK a, b, c : a = Len(steps) /\ b = Len(rest) /\ c = Len(q)
      OBVIOUS
    <3>2. a \in Nat /\ n \in Nat /\ b = a - n /\ c = b - 1 /\ d = n + 1
      BY <1>2, <1>3, <1>6, <2>1, <2>2, <3>1
    <3>3. c + d <= a
      BY ONLY <3>2
    <3> QED
      BY <3>1, <3>3
  <2>6. IsRest(q, steps, d)
    BY <2>2, <2>4, <2>5 DEF IsRest
  <2>7. IsRest(Tail(rest), op.steps, d)
    BY ONLY <1>1, <2>1, <2>6
  <2>8. d \in 1 .. Len(op.steps) /\ Head(rest) = op.steps[d]
    BY ONLY <1>1, <2>3
  <2> QED
    BY <2>7, <2>8
<1> QED
  BY <1>7, <1>8

\* The operation that waits for its next call.
Parks(op, rest, parked) ==
  /\ rest = SubSeq(op.steps, Len(Skipped(op)) + 1, Len(op.steps))
  /\ parked = [op EXCEPT !.steps = IF rest = <<>> THEN <<>> ELSE Tail(rest),
                         !.active = IF rest = <<>> THEN NoStep ELSE Head(rest)]

LEMMA ParkedFits ==
  ASSUME NEW s, Listed(s), NEW gone, NEW op, Fits(s, gone, op),
         NEW rest, NEW parked, Parks(op, rest, parked),
         ~(Completes(op) /\ CanComplete(s, op))
  PROVE  /\ Fits(s, gone, parked)
         /\ parked.active = NoStep => parked.ids # {}
         /\ parked.ids = op.ids /\ parked.purpose = op.purpose
         /\ parked.initial = op.initial /\ parked.root = op.root
<1>1. PICK q, x : /\ q = IF rest = <<>> THEN <<>> ELSE Tail(rest)
                  /\ x = IF rest = <<>> THEN NoStep ELSE Head(rest)
  OBVIOUS
<1>2. parked = [op EXCEPT !.steps = q, !.active = x]
      /\ rest = SubSeq(op.steps, Len(Skipped(op)) + 1, Len(op.steps))
  BY <1>1 DEF Parks
<1>3. op \in Operations /\ op.steps \in Seq(Steps)
  BY DEF Fits, Operations
<1>4. PICK steps : steps = op.steps
  OBVIOUS
<1>5. StepsIn(steps, op.ids) /\ MarksOnce(steps) /\ Backwards(steps, s.attached)
  BY <1>4 DEF Fits
<1>6. /\ q \in Seq(Steps) /\ x \in Steps \cup {NoStep}
      /\ StepsIn(q, op.ids) /\ MarksOnce(q) /\ Backwards(q, s.attached)
      /\ x # NoStep => x.module \in op.ids
      /\ x = NoStep => rest = <<>>
  <2>1. CASE rest = <<>>
    <3>1. q = <<>> /\ x = NoStep /\ Len(<<>>) = 0 /\ <<>> \in Seq(Steps)
      BY <1>1, <2>1
    <3> QED
      BY <2>1, <3>1 DEF StepsIn, MarksOnce, Backwards
  <2>2. CASE rest # <<>>
    <3>1. q = Tail(rest) /\ x = Head(rest)
      BY <1>1, <2>2
    <3>2. PICK d \in 1 .. Len(op.steps) : x = op.steps[d] /\ IsRest(q, op.steps, d)
      BY <1>2, <1>3, <2>2, <3>1, RestOfSteps
    <3>3. d \in Nat /\ steps \in Seq(Steps) /\ IsRest(q, steps, d) /\ q \in Seq(Steps)
          /\ x = steps[d] /\ d \in 1 .. Len(steps)
      BY <1>3, <1>4, <3>2 DEF IsRest
    <3>4. StepsIn(q, op.ids) /\ MarksOnce(q) /\ Backwards(q, s.attached)
      BY <1>5, <3>3, RestKeeps
    <3>5. x \in Steps /\ x.module \in op.ids
      BY <1>5, <3>3 DEF StepsIn
    <3>6. NoStep \notin Steps
      BY DEF NoStep, Step, Steps
    <3> QED
      BY <3>3, <3>4, <3>5, <3>6
  <2> QED
    BY <2>1, <2>2
<1>7. /\ parked \in Operations /\ parked.ids = op.ids /\ parked.purpose = op.purpose
      /\ parked.initial = op.initial /\ parked.root = op.root /\ parked.export = op.export
      /\ parked.steps = q /\ parked.active = x
  BY <1>2, <1>3, <1>6 DEF Operations
<1>8. Counted(s, gone, parked)
  <2>1. Counted(s, gone, op)
    BY DEF Fits
  <2> QED
    BY <1>7, <2>1 DEF Counted, Goes
<1>9. Fits(s, gone, parked)
  BY <1>6, <1>7, <1>8 DEF Fits
<1>10. ASSUME x = NoStep PROVE op.ids # {}
  <2>1. Completes(op)
    BY <1>2, <1>3, <1>6, <1>10, RestOfSteps
  <2>2. ~CanComplete(s, op)
    BY <2>1
  <2> QED
    BY <2>2 DEF CanComplete, Unloadable
<1> QED
  BY <1>7, <1>9, <1>10

\* An operation on top of the others.
LEMMA PushedFits ==
  ASSUME NEW s, NEW gone, NEW stack \in Seq(Operations), AllFit(s, gone, stack),
         NEW op, Fits(s, gone, op), op.active = NoStep => op.ids # {}, Over(op, stack)
  PROVE  /\ Append(stack, op) \in Seq(Operations)
         /\ Len(Append(stack, op)) = Len(stack) + 1
         /\ AllFit(s, gone, Append(stack, op))
<1>1. PICK r, n : r = Append(stack, op) /\ n = Len(stack)
  OBVIOUS
<1>2. op \in Operations
  BY DEF Fits
<1>3. /\ r \in Seq(Operations) /\ n \in Nat /\ Len(r) = n + 1
      /\ \A i \in 1 .. n : r[i] = stack[i]
      /\ r[n + 1] = op
  BY <1>1, <1>2, AppendProperties
<1>4. ASSUME NEW i \in 1 .. Len(r)
      PROVE  Fits(s, gone, r[i]) /\ (r[i].active = NoStep => r[i].ids # {})
  <2>1. CASE i = n + 1
    BY <1>3, <2>1
  <2>2. CASE i # n + 1
    <3>1. i \in 1 .. n
      BY <1>3, <2>2
    <3> QED
      BY <1>1, <1>3, <3>1 DEF AllFit
  <2> QED
    BY <2>1, <2>2
<1>5. ASSUME NEW i \in 1 .. Len(r), NEW j \in 1 .. Len(r), i < j PROVE Nests(r[j], r[i])
  <2>1. i \in 1 .. n /\ r[i] = stack[i]
    BY <1>3, <1>5
  <2>2. CASE j = n + 1
    <3>1. r[j] = op
      BY <1>3, <2>2
    <3>2. Nests(op, stack[i])
      BY <1>1, <2>1 DEF Over
    <3> QED
      BY <2>1, <3>1, <3>2
  <2>3. CASE j # n + 1
    <3>1. j \in 1 .. n /\ r[j] = stack[j]
      BY <1>3, <2>3
    <3> QED
      BY <1>1, <1>5, <2>1, <3>1 DEF AllFit
  <2> QED
    BY <2>2, <2>3
<1>6. AllFit(s, gone, r)
  BY <1>4, <1>5 DEF AllFit
<1> QED
  BY <1>1, <1>3, <1>6

\* The stack r that an advance leaves to t, over n operations.
Advanced(t, r, n) ==
  /\ operations' = [operations EXCEPT ![t] = r]
  /\ r \in Seq(Operations) /\ Len(r) <= n + 1
  /\ AllFit(modules', late', r)

LEMMA AdvanceLists ==
  ASSUME late \in SUBSET Modules, exited \in BOOLEAN, NEW t,
         NEW s, Listed(s), NEW op, Fits(s, late, op),
         NEW stack \in Seq(Operations), AllFit(s, late, stack), Over(op, stack),
         NEW levels, Advance(t, s, op, stack, levels)
  PROVE  /\ \E r : Advanced(t, r, Len(stack))
         /\ Listed(modules') /\ late' \in SUBSET Modules /\ exited' \in BOOLEAN
         /\ Main \in modules'.loaded => s.loaded \ modules'.loaded \subseteq Goes(op)
<1> DEFINE ready == NewlyAttached(s, op)
           rest == SubSeq(op.steps, Len(Skipped(op)) + 1, Len(op.steps))
           parked == [op EXCEPT !.steps = IF rest = <<>> THEN <<>> ELSE Tail(rest),
                                !.active = IF rest = <<>> THEN NoStep ELSE Head(rest)]
           done == Completes(op) /\ CanComplete(ready, op)
<1>1. /\ modules' = IF done THEN Completed(ready, op) ELSE ready
      /\ operations' = [operations EXCEPT ![t] = IF done THEN stack ELSE Append(stack, parked)]
      /\ exited' = (exited \/ (done /\ op.purpose = "shutdown"))
      /\ modules'.explicit[op.root] <= MaxExplicit
      /\ late' = late \cap modules'.loaded
  BY DEF Advance
<1>2. PICK w : w = ready
  OBVIOUS
<1>3. s \in ModuleSet /\ op \in Operations /\ MarksOnce(op.steps)
      /\ StepsIn(op.steps, op.ids) /\ op.ids \subseteq s.loaded
  BY DEF Listed, Fits
<1>4. PICK a \in Seq(Modules) :
           /\ w = [s EXCEPT !.attached = a]
           /\ Listed(w)
           /\ Len(s.attached) <= Len(a)
           /\ \A i \in 1 .. Len(s.attached) : a[i] = s.attached[i]
  <2>1. \E a \in Seq(Modules) :
           /\ NewlyAttached(s, op) = [s EXCEPT !.attached = a]
           /\ Listed(NewlyAttached(s, op))
           /\ Len(s.attached) <= Len(a)
           /\ \A i \in 1 .. Len(s.attached) : a[i] = s.attached[i]
    BY <1>3, NewlyListed
  <2>2. w = NewlyAttached(s, op)
    BY <1>2
  <2> QED
    BY <2>1, <2>2
<1>5. /\ w.loaded = s.loaded /\ w.explicit = s.explicit /\ w.pinned = s.pinned
      /\ w.attached = a
  BY <1>3, <1>4 DEF ModuleSet
<1>6. \A steps : Backwards(steps, s.attached) => Backwards(steps, w.attached)
  <2>1. PICK order : order = s.attached
    OBVIOUS
  <2>2. /\ Len(order) \in Nat /\ Len(a) \in Nat /\ Len(order) <= Len(a)
        /\ \A i \in 1 .. Len(order) : a[i] = order[i]
    BY <1>3, <1>4, <2>1 DEF ModuleSet
  <2>3. Once(a)
    BY <1>4, <1>5 DEF Listed
  <2>4. \A steps : Backwards(steps, order) => Backwards(steps, a)
    BY ONLY <2>2, <2>3, BackwardsLonger
  <2> QED
    BY <1>5, <2>1, <2>4
<1>7. ASSUME NEW o, Fits(s, late, o) PROVE Spares(s, w, late, late, o)
  BY <1>5, <1>6, <1>7 DEF Spares, Fits, Counted
<1>8. Fits(w, late, op) /\ AllFit(w, late, stack)
  <2>1. Fits(w, late, op)
    BY <1>7, SparedFits
  <2>2. \A i \in 1 .. Len(stack) : Spares(s, w, late, late, stack[i])
    BY <1>7 DEF AllFit
  <2> QED
    BY <2>1, <2>2, SparedStack
<1>9. late' \in SUBSET Modules
  BY <1>1
<1>10. exited' \in BOOLEAN
  BY <1>1, Zenon
<1>11. Len(stack) \in Nat
  OBVIOUS
<1>12. CASE done
  <2>1. /\ modules' = Completed(w, op)
        /\ operations' = [operations EXCEPT ![t] = stack]
        /\ modules'.explicit[op.root] <= MaxExplicit
        /\ late' = late \cap modules'.loaded
    BY <1>1, <1>2, <1>12
  <2>2. PICK v, left : v = modules' /\ left = late'
    OBVIOUS
  <2>3. /\ v = Completed(w, op) /\ v.explicit[op.root] <= MaxExplicit
        /\ left = late \cap v.loaded
    BY <2>1, <2>2
  <2>4. /\ Listed(v) /\ AllFit(v, left, stack)
        /\ Main \in v.loaded => w.loaded \ v.loaded \subseteq Goes(op)
    <3>1. PICK g : g = late
      OBVIOUS
    <3>2. Listed(w) /\ Fits(w, g, op) /\ AllFit(w, g, stack) /\ left = g \cap v.loaded
      BY <1>4, <1>8, <2>3, <3>1
    <3> HIDE DEF done, ready, rest, parked
    <3> QED
      BY ONLY <2>3, <3>2, <1>11, Over(op, stack), CompletedFits
  <2>5. Advanced(t, stack, Len(stack))
    BY <1>11, <2>1, <2>2, <2>4 DEF Advanced
  <2> HIDE DEF done, ready, rest, parked
  <2> QED
    BY <1>5, <1>9, <1>10, <2>2, <2>4, <2>5
<1>13. CASE ~done
  <2>1. PICK p : p = parked
    OBVIOUS
  <2>2. /\ modules' = w
        /\ operations' = [operations EXCEPT ![t] = Append(stack, p)]
        /\ late' = late \cap w.loaded
    BY <1>1, <1>2, <1>13, <2>1
  <2>3. /\ Fits(w, late, p) /\ (p.active = NoStep => p.ids # {})
        /\ p.ids = op.ids /\ p.purpose = op.purpose
        /\ p.initial = op.initial /\ p.root = op.root
    <3>1. PICK q : q = rest
      OBVIOUS
    <3>2. Parks(op, q, p) /\ ~(Completes(op) /\ CanComplete(w, op))
      BY <1>2, <1>13, <2>1, <3>1 DEF Parks
    <3>3. PICK g : g = late
      OBVIOUS
    <3>4. Listed(w) /\ Fits(w, g, op)
      BY <1>4, <1>8, <3>3
    <3>5. /\ Fits(w, g, p) /\ (p.active = NoStep => p.ids # {})
          /\ p.ids = op.ids /\ p.purpose = op.purpose
          /\ p.initial = op.initial /\ p.root = op.root
      <4> HIDE DEF done, ready, rest, parked
      <4> QED
        BY ONLY <3>2, <3>4, ParkedFits
    <3> QED
      BY <3>3, <3>5
  <2>4. Over(p, stack)
    BY <2>3 DEF Over, Nests
  <2>5. PICK left : left = late \cap w.loaded
    OBVIOUS
  <2>6. ASSUME NEW o, Fits(w, late, o) PROVE Spares(w, w, late, left, o)
    BY <2>5, <2>6 DEF Spares, Fits, Counted
  <2>7. Fits(w, left, p) /\ AllFit(w, left, stack)
    <3>1. Fits(w, left, p)
      BY <2>3, <2>6, SparedFits
    <3>2. \A i \in 1 .. Len(stack) : Spares(w, w, late, left, stack[i])
      BY <1>8, <2>6 DEF AllFit
    <3> QED
      BY <1>8, <3>1, <3>2, SparedStack
  <2>8. PICK r : r = Append(stack, p)
    OBVIOUS
  <2>9. /\ r \in Seq(Operations) /\ Len(r) = Len(stack) + 1
        /\ AllFit(w, left, r)
    BY <2>3, <2>4, <2>7, <2>8, PushedFits
  <2>10. Advanced(t, r, Len(stack))
    BY <1>11, <2>2, <2>5, <2>8, <2>9 DEF Advanced
  <2> HIDE DEF done, ready, rest, parked
  <2> QED
    BY <1>4, <1>5, <1>9, <1>10, <2>2, <2>10
<1> QED
  BY <1>12, <1>13

-----------------------------------------------------------------------------
(* Every action keeps the lists.  An operation that t is about to advance,  *)
(* on top of stack, over the module set s.                                  *)

Prepared(t, s, op, stack) ==
  /\ Listed(s) /\ Fits(s, late, op)
  /\ stack \in Seq(Operations) /\ Len(stack) < MaxOperations
  /\ AllFit(s, late, stack) /\ Over(op, stack)
  /\ modules.loaded \subseteq s.loaded
  /\ s.explicit = modules.explicit /\ s.pinned = modules.pinned
  /\ op.purpose = "unload" => operations[t] = <<>> \/ op = Last(operations[t])

\* What ReferencesKeepModules says of a step.
Kept ==
  \A m \in Modules : Leaves(m) /\ m \notin late =>
    /\ m \notin modules.pinned
    /\ modules.explicit[m] <= 1
    /\ modules.explicit[m] = 1 => Released(m)

\* The requests and notices of a state.
Asked == waiting \in [Threads -> Requests \cup {NoRequest}]
Noticed ==
  /\ notice \in [Threads -> [open : BOOLEAN, calls : Seq(Modules), active : BOOLEAN]]
  /\ \A t \in Threads : notice[t].active => notice[t].calls # <<>>

LEMMA Idle ==
  ASSUME LockInv, NEW t \in Threads, Acquirable(t), NEW u \in Threads \ {t}
  PROVE  operations[u] = <<>> /\ source[u] = NoRequest
<1>1. Levels(u) = 0
  BY OthersIdle
<1>2. Levels(u) = Len(operations[u]) + Waits(u) /\ Waits(u) \in Nat
  BY LevelsAdd DEF LockInv
<1>3. Stack(operations[u]) /\ Len(operations[u]) \in Nat
  BY DEF LockInv, Shape, Stack
<1>4. Waits(u) = 0 /\ Len(operations[u]) = 0
  BY <1>1, <1>2, <1>3
<1>5. operations[u] # <<>> => Len(operations[u]) >= 1
  BY <1>3, Popped
<1> QED
  BY <1>4, <1>5 DEF Waits

LEMMA NoneKept == ASSUME modules.loaded \subseteq modules'.loaded PROVE Kept
BY DEF Kept, Leaves

\* A step of t that replaces the stack of t, which holds the lock.
LEMMA ListMoves ==
  ASSUME LockInv, ListInv, NEW t \in Threads, Acquirable(t), Listed(modules'),
         NEW r \in Seq(Operations), operations' = [operations EXCEPT ![t] = r],
         Len(r) <= MaxOperations, AllFit(modules', late', r),
         source' = [source EXCEPT ![t] = NoRequest],
         Asked', Noticed', exited' \in BOOLEAN, late' \in SUBSET Modules
  PROVE  ListInv'
<1>1. \A u \in Threads : operations'[u] = IF u = t THEN r ELSE <<>>
  BY Idle DEF ListInv
<1>2. \A u \in Threads : source'[u] = NoRequest
  BY Idle DEF LockInv, Shape
<1>3. operations' = [u \in Threads |-> operations'[u]]
  BY DEF ListInv
<1>4. AllFit(modules', late', <<>>) /\ <<>> \in Seq(Operations) /\ Len(<<>>) = 0
      /\ 0 <= MaxOperations
  BY ModulesAssumption DEF AllFit
<1>5. ASSUME NEW u \in Threads
      PROVE  /\ operations'[u] \in Seq(Operations)
             /\ Len(operations'[u]) <= MaxOperations
             /\ AllFit(modules', late', operations'[u])
  <2>1. PICK e : e = <<>>
    OBVIOUS
  <2>2. /\ e \in Seq(Operations) /\ Len(e) <= MaxOperations
        /\ AllFit(modules', late', e)
        /\ operations'[u] = IF u = t THEN r ELSE e
    BY <1>1, <1>4, <2>1
  <2> QED
    BY <2>2
<1>6. /\ \A u \in Threads : Pending(modules', source'[u])
      /\ \A u \in Threads : source'[u].call # "start"
  BY <1>2 DEF Pending, NoRequest, Request
<1> QED
  BY <1>3, <1>5, <1>6 DEF ListInv, Asked, Noticed

\* A step that loads and unloads nothing.
LEMMA ListStays ==
  ASSUME ListInv, Listed(modules'), modules'.loaded = modules.loaded,
         UNCHANGED operations,
         \A u \in Threads : AllFit(modules', late', operations[u]),
         \A u \in Threads : /\ Pending(modules', source'[u])
                            /\ source'[u].call = "start" => operations[u] = <<>>,
         Asked', Noticed', exited' \in BOOLEAN, late' \in SUBSET Modules
  PROVE  ListInv' /\ Kept
BY NoneKept DEF ListInv, Asked, Noticed

LEMMA AdvanceKeepsLists ==
  ASSUME LockInv, ListInv, NEW t \in Threads, Acquirable(t),
         NEW s, NEW op, NEW stack, Prepared(t, s, op, stack),
         NEW levels, Advance(t, s, op, stack, levels),
         source' = [source EXCEPT ![t] = NoRequest],
         Asked', UNCHANGED notice
  PROVE  ListInv' /\ Kept
<1>1. late \in SUBSET Modules /\ exited \in BOOLEAN /\ Noticed'
  BY DEF ListInv, Noticed
<1>2. /\ Listed(s) /\ Fits(s, late, op) /\ stack \in Seq(Operations)
      /\ AllFit(s, late, stack) /\ Over(op, stack) /\ Len(stack) < MaxOperations
  BY DEF Prepared
<1>3. /\ \E r : Advanced(t, r, Len(stack))
      /\ Listed(modules') /\ late' \in SUBSET Modules /\ exited' \in BOOLEAN
      /\ Main \in modules'.loaded => s.loaded \ modules'.loaded \subseteq Goes(op)
  BY <1>1, <1>2, AdvanceLists
<1>4. PICK r : /\ operations' = [operations EXCEPT ![t] = r]
               /\ r \in Seq(Operations) /\ Len(r) <= Len(stack) + 1
               /\ AllFit(modules', late', r)
  BY <1>3 DEF Advanced
<1>5. Len(r) <= MaxOperations
  <2>1. PICK a, b, c : a = Len(r) /\ b = Len(stack) /\ c = MaxOperations
    OBVIOUS
  <2>2. a \in Nat /\ b \in Nat /\ c \in Nat /\ a <= b + 1 /\ b < c
    BY <1>2, <1>4, <2>1, ModulesAssumption
  <2>3. a <= c
    BY ONLY <2>2
  <2> QED
    BY <2>1, <2>3
<1>6. ListInv'
  BY <1>1, <1>3, <1>4, <1>5, ListMoves
<1>7. Kept
  <2> SUFFICES ASSUME NEW m \in Modules, Leaves(m), m \notin late
               PROVE  /\ m \notin modules.pinned
                      /\ modules.explicit[m] <= 1
                      /\ modules.explicit[m] = 1 => Released(m)
    BY DEF Kept
  <2>1. m \in Goes(op) \ late
    BY <1>3 DEF Leaves, Prepared
  <2>2. /\ m \notin modules.pinned
        /\ modules.explicit[m] # 0 =>
             op.purpose = "unload" /\ op.root = m /\ modules.explicit[m] = 1
    BY <2>1 DEF Prepared, Fits, Counted
  <2>3. modules.explicit[m] \in Nat
    BY ModulesAssumption DEF ListInv, Listed, ModuleSet
  <2>4. ASSUME modules.explicit[m] = 1 PROVE Released(m)
    <3>1. op.purpose = "unload" /\ op.root = m
      BY <2>2, <2>4
    <3>2. \A u \in Threads : operations[u] # <<>> => u = t
      BY Idle
    <3> QED
      BY <3>1, <3>2 DEF Released, Prepared
  <2> QED
    BY <2>2, <2>3, <2>4
<1> QED
  BY <1>6, <1>7

-----------------------------------------------------------------------------
(* The operations that requests begin. *)

\* A load on top of the operations of t: it installs modules that are not there.
LEMMA LoadPrepared ==
  ASSUME ListInv, NEW t \in Threads, NEW new \in SUBSET Modules,
         new \cap modules.loaded = {},
         NEW edges \in SUBSET (Modules \X Modules), NEW image \in BOOLEAN,
         NEW s, s = Installed(modules, new, edges, image),
         NEW order \in Seq(new), Once(order),
         NEW op, op \in Operations, op.purpose = "load", op.ids = new,
         op.steps = LoadSteps(order), op.active = NoStep,
         ~op.initial /\ ~op.export => op.root \in new,
         op.initial => operations[t] = <<>>,
         Len(operations[t]) < MaxOperations
  PROVE  Prepared(t, s, op, operations[t])
<1>1. PICK stack : stack = operations[t]
  OBVIOUS
<1>2. Listed(modules) /\ stack \in Seq(Operations) /\ AllFit(modules, late, stack)
      /\ Len(stack) < MaxOperations /\ late \in SUBSET Modules
  BY <1>1 DEF ListInv
<1>3. /\ Listed(s) /\ s.loaded = modules.loaded \cup new
      /\ s.explicit = modules.explicit /\ s.pinned = modules.pinned
      /\ s.attached = modules.attached
  <2>1. PICK m : m = modules
    OBVIOUS
  <2>2. Listed(m) /\ Adds(m, new, edges, image, s)
    BY <1>2, <2>1 DEF Adds
  <2>3. /\ Listed(s) /\ s.loaded = m.loaded \cup new
        /\ s.explicit = m.explicit /\ s.pinned = m.pinned
        /\ s.attached = m.attached
    BY <2>2, InstalledListed
  <2> QED
    BY <2>1, <2>3
<1>4. PICK steps : steps = LoadSteps(order)
  OBVIOUS
<1>5. /\ steps \in Seq(Steps) /\ StepsIn(steps, new) /\ MarksOnce(steps)
      /\ Backwards(steps, s.attached)
  BY <1>4, LoadStepsFit
<1>6. Fits(s, late, op)
  <2>1. Counted(s, late, op)
    <3>1. op.purpose = "load"
      OBVIOUS
    <3>2. op.purpose \notin {"unload", "rollback"}
      BY ONLY <3>1
    <3>3. Goes(op) = {}
      BY ONLY <3>2 DEF Goes
    <3> QED
      BY ONLY <3>2, <3>3 DEF Counted
  <2>2. op.ids \subseteq s.loaded
    BY <1>3
  <2>3. /\ op.purpose = "load" /\ ~op.initial /\ ~op.export => op.root \in op.ids
        /\ op.purpose \in {"unload", "shutdown"} => ~op.initial
        /\ op.active # NoStep => op.active.module \in op.ids
    OBVIOUS
  <2>4. /\ StepsIn(op.steps, op.ids) /\ MarksOnce(op.steps)
        /\ Backwards(op.steps, s.attached)
    BY <1>4, <1>5
  <2> QED
    BY <2>1, <2>2, <2>3, <2>4 DEF Fits
<1>7. AllFit(s, late, stack)
  <2>1. \A i \in 1 .. Len(stack) : Fits(modules, late, stack[i])
    BY <1>2 DEF AllFit
  <2>2. \A i \in 1 .. Len(stack) : Spares(modules, s, late, late, stack[i])
    BY <1>3, <2>1 DEF Spares, Fits, Counted
  <2> QED
    BY <1>2, <2>2, SparedStack
<1>8. Over(op, stack)
  <2> SUFFICES ASSUME NEW i \in 1 .. Len(stack) PROVE Nests(op, stack[i])
    BY DEF Over
  <2>1. Fits(modules, late, stack[i])
    BY <1>2 DEF AllFit
  <2>2. stack # <<>>
    <3>1. Len(<<>>) = 0
      OBVIOUS
    <3>2. stack = <<>> => i \in 1 .. 0
      BY <3>1
    <3> QED
      BY <3>2
  <2>3. ~op.initial
    BY <1>1, <2>2
  <2>4. stack[i].ids \subseteq modules.loaded
        /\ (stack[i].purpose = "unload" => stack[i].root \in modules.loaded)
    BY <2>1 DEF Fits, Counted
  <2> QED
    BY <2>3, <2>4 DEF Nests
<1> QED
  BY <1>1, <1>2, <1>3, <1>6, <1>7, <1>8 DEF Prepared

LEMMA InstallPrepared ==
  ASSUME LockInv, DepInv, ListInv, NEW t \in Threads, NEW r, r # NoRequest,
         Pending(modules, r), r.call = "start" => operations[t] = <<>>,
         NEW levels, Install(t, r, levels)
  PROVE  \E s, op : /\ Prepared(t, s, op, operations[t])
                    /\ Advance(t, s, op, operations[t], levels)
<1>1. /\ r.call \in {"load", "image", "export", "start"} /\ r.module \in Modules
      /\ r.call = "export" => r.module \in modules.loaded \cap DOMAIN Forward
      /\ Target(r) \notin modules.loaded
  BY DEF Pending
<1>2. Target(r) \in Modules
  BY <1>1, ModulesAssumption DEF Target
<1> DEFINE image == r.call = "image"
           new == IF image THEN {r.module} ELSE Additions(modules, {Target(r)})
           edges == IF r.call # "export" \/ Target(r) \in modules.dependencies[r.module]
                    THEN {} ELSE {<<r.module, Target(r)>>}
           s == Installed(modules, new, edges, image)
           Op(steps) ==
             [purpose |-> "load", root |-> r.module, ids |-> new,
              initial |-> r.call = "start", export |-> r.call = "export",
              edges |-> edges, steps |-> steps, active |-> NoStep]
<1>3. PICK order \in IF image THEN {<<>>} ELSE InitializationOrders(new, Imports) :
           /\ Len(operations[t]) < MaxOperations
           /\ Advance(t, s, Op(LoadSteps(order)), operations[t], levels)
  BY DEF Install
<1>4. /\ Additions(modules, {Target(r)}) \subseteq Modules \ modules.loaded
      /\ Target(r) \in Additions(modules, {Target(r)})
  <2>1. /\ Additions(modules, {Target(r)}) \subseteq Modules
        /\ Target(r) \in Additions(modules, {Target(r)}) \cup modules.loaded
    BY <1>2, AdditionsSuffice DEF DepInv
  <2>2. Additions(modules, {Target(r)}) \cap modules.loaded = {}
    BY DEF Additions
  <2> QED
    BY <1>1, <2>1, <2>2
<1>5. new \in SUBSET Modules /\ new \cap modules.loaded = {}
  BY <1>1, <1>4 DEF Target
<1>6. edges \in SUBSET (Modules \X Modules)
  BY <1>1, <1>2
<1>7. r.call # "export" => r.module \in new
  BY <1>1, <1>4 DEF Target
<1>8. image \in BOOLEAN
  OBVIOUS
<1> HIDE DEF edges
<1>9. order \in Seq(new) /\ Once(order)
  <2>1. CASE image
    <3>1. order = <<>> /\ Len(<<>>) = 0 /\ <<>> \in Seq(new)
      BY <2>1
    <3> QED
      BY <3>1 DEF Once
  <2>2. CASE ~image
    <3> HIDE DEF new, image
    <3> QED
      BY <1>3, <1>5, <2>2, OrderNamesOnce
  <2> QED
    BY <2>1, <2>2
<1> HIDE DEF new, image
<1>10. PICK op : op = Op(LoadSteps(order))
  OBVIOUS
<1>11. /\ op.purpose = "load" /\ op.ids = new /\ op.root = r.module
       /\ op.steps = LoadSteps(order) /\ op.active = NoStep
       /\ op.initial = (r.call = "start") /\ op.export = (r.call = "export")
  BY <1>10
<1>12. op \in Operations
  <2>1. LoadSteps(order) \in Seq(Steps)
    BY <1>5, <1>9, LoadStepsFit
  <2> QED
    BY <1>1, <1>5, <1>6, <1>10, <2>1 DEF Operations
<1>13. PICK w : w = s
  OBVIOUS
<1>14. Prepared(t, w, op, operations[t])
  <2>1. /\ ~op.initial /\ ~op.export => op.root \in new
        /\ op.initial => operations[t] = <<>>
    BY <1>7, <1>11
  <2>2. /\ w = Installed(modules, new, edges, image)
        /\ Len(operations[t]) < MaxOperations
    BY <1>3, <1>13
  <2> HIDE DEF s, Op
  <2> QED
    BY <1>5, <1>6, <1>8, <1>9, <1>11, <1>12, <2>1, <2>2, LoadPrepared
<1>15. Advance(t, w, op, operations[t], levels)
  BY <1>3, <1>10, <1>13
<1> QED
  BY <1>14, <1>15

\* The operation of FreeLibrary and of ExitProcess, which run alone.
LEMMA AlonePrepared ==
  ASSUME ListInv, NEW t \in Threads, operations[t] = <<>>,
         NEW op, op.ids \in SUBSET modules.loaded, op.root \in Modules,
         op.purpose \in {"unload", "shutdown"}, op.export = FALSE, op.edges = {},
         op.initial = FALSE, op.steps = DetachSteps(modules, op.ids), op.active = NoStep,
         op \in [purpose : {op.purpose}, root : {op.root}, ids : {op.ids},
                 initial : {op.initial}, export : {op.export}, edges : {op.edges},
                 steps : {op.steps}, active : {op.active}],
         Counted(modules, late, op)
  PROVE  Prepared(t, modules, op, operations[t])
<1>1. Listed(modules) /\ modules \in ModuleSet
  BY DEF ListInv, Listed
<1>2. PICK ids, steps : ids = op.ids /\ steps = op.steps
  OBVIOUS
<1>3. /\ steps \in Seq(Steps) /\ StepsIn(steps, ids) /\ Detaches(steps)
      /\ Backwards(steps, modules.attached)
  <2>1. modules.attached \in Seq(Modules) /\ Once(modules.attached)
    BY <1>1 DEF Listed, ModuleSet
  <2>2. steps = DetachSteps(modules, ids)
    BY <1>2
  <2> QED
    BY <2>1, <2>2, DetachStepsFit
<1>4. MarksOnce(steps)
  BY <1>3 DEF MarksOnce, Detaches
<1>5. op \in Operations
  <2>1. op.ids \in SUBSET Modules
    BY <1>1 DEF ModuleSet
  <2> QED
    BY <1>2, <1>3, <2>1 DEF Operations
<1>6. Fits(modules, late, op)
  BY <1>2, <1>3, <1>4, <1>5 DEF Fits
<1>7. /\ <<>> \in Seq(Operations) /\ Len(<<>>) = 0 /\ 0 < MaxOperations
      /\ AllFit(modules, late, <<>>) /\ Over(op, <<>>)
  BY ModulesAssumption DEF AllFit, Over
<1> QED
  BY <1>1, <1>6, <1>7 DEF Prepared

LEMMA FreePrepared ==
  ASSUME ListInv, NEW t \in Threads, NEW r, FreeLibrary(t, r),
         UnreachableAfterRelease(modules, r.module) # {}
  PROVE  \E op, levels : /\ Prepared(t, modules, op, operations[t])
                         /\ Advance(t, modules, op, operations[t], levels)
<1> DEFINE ids == UnreachableAfterRelease(modules, r.module)
           Op == [purpose |-> "unload", root |-> r.module, ids |-> ids, initial |-> FALSE,
                  export |-> FALSE, edges |-> {}, steps |-> DetachSteps(modules, ids),
                  active |-> NoStep]
<1>1. /\ operations[t] = <<>>
      /\ r.module \in modules.loaded /\ modules.explicit[r.module] # 0
      /\ Advance(t, modules, Op, operations[t], depth)
  BY DEF FreeLibrary
<1>2. modules \in ModuleSet
  BY DEF ListInv, Listed
<1>3. PICK n : n = [m \in Modules |-> IF m = r.module THEN 1 ELSE 0]
  OBVIOUS
<1>4. /\ ids \subseteq modules.loaded
      /\ \A m \in ids : m \notin modules.pinned /\ ~(modules.explicit[m] > n[m])
  <2> DEFINE H == {m \in modules.loaded : m \in modules.pinned \/ modules.explicit[m] > n[m]}
  <2>1. modules.loaded \in SUBSET Modules /\ modules.dependencies \in [Modules -> SUBSET Modules]
    BY <1>2 DEF ModuleSet
  <2>2. ids = modules.loaded \ Closure(H, modules.dependencies)
    BY <1>3, <2>1 DEF UnreachableAfterRelease
  <2>3. H \in SUBSET Modules
    BY <2>1
  <2>4. H \subseteq Closure(H, modules.dependencies)
    <3> HIDE DEF H
    <3> QED
      BY <2>1, <2>3, ClosureIsClosed
  <2> QED
    BY <2>2, <2>4
<1>5. PICK op : op = Op
  OBVIOUS
<1> HIDE DEF ids
<1>6. /\ op.ids = ids /\ op.root = r.module /\ op.purpose = "unload" /\ op.export = FALSE
      /\ op.edges = {} /\ op.initial = FALSE /\ op.steps = DetachSteps(modules, op.ids)
      /\ op.active = NoStep
      /\ op \in [purpose : {op.purpose}, root : {op.root}, ids : {op.ids},
                 initial : {op.initial}, export : {op.export}, edges : {op.edges},
                 steps : {op.steps}, active : {op.active}]
  BY <1>5
<1> HIDE DEF Op
<1>7. Counted(modules, late, op)
  <2> SUFFICES ASSUME NEW m \in ids, modules.explicit[m] # 0
               PROVE  r.module = m /\ modules.explicit[m] = 1
    BY <1>1, <1>4, <1>6 DEF Counted, Goes
  <2>1. m \in Modules /\ modules.explicit[m] \in Nat
    BY <1>2, <1>4, ModulesAssumption DEF ModuleSet
  <2>2. n[m] = IF m = r.module THEN 1 ELSE 0
    BY <1>3, <2>1
  <2> QED
    BY <1>4, <2>1, <2>2
<1>8. op.root \in Modules /\ op.ids \in SUBSET modules.loaded
  BY <1>1, <1>2, <1>4, <1>6 DEF ModuleSet
<1>9. Prepared(t, modules, op, operations[t])
  BY <1>1, <1>6, <1>7, <1>8, AlonePrepared
<1> QED
  BY <1>1, <1>5, <1>9

LEMMA ExitPrepared ==
  ASSUME ListInv, NEW t \in Threads, NEW r, DetachForExit(t, r)
  PROVE  \E op, levels : /\ Prepared(t, modules, op, operations[t])
                         /\ Advance(t, modules, op, operations[t], levels)
<1> DEFINE ids == ToSet(modules.attached)
           Op == [purpose |-> "shutdown", root |-> Main, ids |-> ids, initial |-> FALSE,
                  export |-> FALSE, edges |-> {}, steps |-> DetachSteps(modules, ids),
                  active |-> NoStep]
<1>1. operations[t] = <<>> /\ Advance(t, modules, Op, operations[t], depth)
  BY DEF DetachForExit
<1>2. ids \in SUBSET modules.loaded
  <2>1. modules.attached \in Seq(Modules)
    BY DEF ListInv, Listed, ModuleSet
  <2>2. \A i \in 1 .. Len(modules.attached) : modules.attached[i] \in modules.loaded
    BY DEF ListInv, Listed
  <2>3. DOMAIN modules.attached = 1 .. Len(modules.attached)
    BY <2>1
  <2> QED
    BY <2>2, <2>3 DEF ToSet
<1>3. PICK op : op = Op
  OBVIOUS
<1> HIDE DEF ids
<1>4. /\ op.ids = ids /\ op.root = Main /\ op.purpose = "shutdown" /\ op.export = FALSE
      /\ op.edges = {} /\ op.initial = FALSE /\ op.steps = DetachSteps(modules, op.ids)
      /\ op.active = NoStep
      /\ op \in [purpose : {op.purpose}, root : {op.root}, ids : {op.ids},
                 initial : {op.initial}, export : {op.export}, edges : {op.edges},
                 steps : {op.steps}, active : {op.active}]
  BY <1>3
<1> HIDE DEF Op
<1>5. Counted(modules, late, op)
  BY <1>4 DEF Counted, Goes
<1>6. Prepared(t, modules, op, operations[t])
  BY <1>1, <1>2, <1>4, <1>5, ModulesAssumption, AlonePrepared
<1> QED
  BY <1>1, <1>3, <1>6

-----------------------------------------------------------------------------
(* The innermost operation of a thread, which goes on or fails. *)

LEMMA TopFits ==
  ASSUME ListInv, NEW t \in Threads, operations[t] # <<>>
  PROVE  /\ Fits(modules, late, Last(operations[t]))
         /\ Front(operations[t]) \in Seq(Operations)
         /\ Len(Front(operations[t])) < MaxOperations
         /\ AllFit(modules, late, Front(operations[t]))
         /\ Over(Last(operations[t]), Front(operations[t]))
<1>1. PICK stack : stack = operations[t]
  OBVIOUS
<1>2. stack \in Seq(Operations) /\ Len(stack) <= MaxOperations /\ stack # <<>>
      /\ AllFit(modules, late, stack)
  BY <1>1 DEF ListInv
<1>3. Stack(stack)
  BY <1>2, IsStack
<1>4. PICK r, n : r = Front(stack) /\ n = Len(stack)
  OBVIOUS
<1>5. /\ Stack(r) /\ n >= 1 /\ Len(r) = n - 1 /\ n \in Nat
      /\ \A i \in 1 .. n - 1 : r[i] = stack[i]
  <2>1. n \in Nat
    BY <1>3, <1>4 DEF Stack
  <2> QED
    BY <1>2, <1>3, <1>4, <2>1, Popped
<1>6. Last(stack) = stack[n] /\ n \in 1 .. n
  BY <1>4, <1>5 DEF Last
<1>7. \A i \in 1 .. Len(r) : /\ i \in 1 .. Len(stack) /\ r[i] = stack[i] /\ i < n
                             /\ stack[i] \in Operations
  BY <1>2, <1>4, <1>5
<1>8. r \in Seq(Operations)
  <2>1. r \in Seq({r[i] : i \in 1 .. Len(r)})
    BY <1>5 DEF Stack
  <2>2. PICK T : T = {r[i] : i \in 1 .. Len(r)}
    OBVIOUS
  <2> QED
    BY <1>7, <2>1, <2>2, Widened
<1>9. Len(r) < MaxOperations
  <2>1. PICK c : c = MaxOperations
    OBVIOUS
  <2>2. c \in Nat /\ n <= c
    BY <1>2, <1>4, <2>1, ModulesAssumption
  <2> QED
    BY <1>5, <2>1, <2>2
<1>10. AllFit(modules, late, r)
  BY <1>2, <1>7 DEF AllFit
<1>11. Fits(modules, late, stack[n])
  BY <1>2, <1>4, <1>6 DEF AllFit
<1>12. Over(stack[n], r)
  BY <1>2, <1>4, <1>6, <1>7 DEF AllFit, Over
<1> QED
  BY <1>1, <1>4, <1>6, <1>8, <1>9, <1>10, <1>11, <1>12

\* What a failed load takes with it is its own, and nothing references it.
LEMMA RollbackIdsFree ==
  ASSUME NEW s, Listed(s), NEW op
  PROVE  /\ RollbackIds(s, op) \subseteq s.loaded
         /\ ~op.initial =>
              /\ RollbackIds(s, op) \subseteq op.ids
              /\ \A m \in RollbackIds(s, op) : m \notin s.pinned /\ s.explicit[m] = 0
<1> DEFINE H == {m \in s.loaded : m \in s.pinned \/ s.explicit[m] # 0}
           K == [m \in Modules |-> {d \in s.dependencies[m] : <<m, d>> \notin op.edges}]
<1>1. /\ s.loaded \in SUBSET Modules
      /\ s.dependencies \in [Modules -> SUBSET Modules]
  BY DEF Listed, ModuleSet
<1>2. RollbackIds(s, op) = IF op.initial THEN s.loaded
                           ELSE {m \in op.ids \cap s.loaded : m \notin Closure(H, K)}
  BY DEF RollbackIds
<1>3. H \in SUBSET Modules /\ K \in [Modules -> SUBSET Modules]
  BY <1>1
<1>4. H \subseteq Closure(H, K)
  <2> HIDE DEF H, K
  <2> QED
    BY <1>3, ClosureIsClosed
<1> QED
  BY <1>2, <1>4

LEMMA RolledBackFits ==
  ASSUME NEW s, Listed(s), NEW gone, NEW op, Fits(s, gone, op),
         NEW stack, Over(op, stack), NEW undone, undone = Rollback(s, op)
  PROVE  /\ Fits(s, gone, undone) /\ Over(undone, stack)
         /\ Detaches(undone.steps) /\ undone.purpose = "rollback"
<1>1. PICK ids, steps : ids = RollbackIds(s, op) /\ steps = DetachSteps(s, ids)
  OBVIOUS
<1>2. /\ ids \subseteq s.loaded
      /\ ~op.initial => /\ ids \subseteq op.ids
                        /\ \A m \in ids : m \notin s.pinned /\ s.explicit[m] = 0
  BY <1>1, RollbackIdsFree
<1>3. s.attached \in Seq(Modules) /\ Once(s.attached) /\ s.loaded \in SUBSET Modules
  BY DEF Listed, ModuleSet
<1>4. /\ steps \in Seq(Steps) /\ StepsIn(steps, ids) /\ Detaches(steps)
      /\ Backwards(steps, s.attached)
  BY <1>1, <1>3, DetachStepsFit
<1>5. MarksOnce(steps)
  BY <1>4 DEF MarksOnce, Detaches
<1>6. undone = [op EXCEPT !.purpose = "rollback", !.ids = ids, !.steps = steps,
                          !.active = NoStep]
  BY <1>1 DEF Rollback
<1>7. op \in Operations /\ ids \in SUBSET Modules
  BY <1>2, <1>3 DEF Fits
<1>8. /\ undone \in Operations /\ undone.purpose = "rollback" /\ undone.ids = ids
      /\ undone.steps = steps /\ undone.active = NoStep /\ undone.root = op.root
      /\ undone.initial <=> op.initial
  BY <1>4, <1>6, <1>7 DEF Operations
<1>9. Counted(s, gone, undone)
  BY <1>2, <1>8 DEF Counted, Goes
<1>10. Fits(s, gone, undone)
  BY <1>2, <1>4, <1>5, <1>8, <1>9 DEF Fits
<1>11. Over(undone, stack)
  BY <1>2, <1>8 DEF Over, Nests
<1> QED
  BY <1>4, <1>8, <1>10, <1>11

\* A module whose initializer fails is attached, for the calls that detach it.
Recalled(s, undone, m, w, last) ==
  /\ w = [s EXCEPT !.attached = Append(@, m)]
  /\ \E q : Undoes(m, undone.steps, q) /\ last = [undone EXCEPT !.steps = q]

LEMMA FailedFits ==
  ASSUME NEW s, Listed(s), NEW gone, NEW op, NEW undone, Fits(s, gone, undone),
         Detaches(undone.steps), undone.purpose = "rollback",
         NEW stack, AllFit(s, gone, stack), Over(undone, stack),
         NEW m, m \in undone.ids, ~Attached(s, m),
         NEW w, NEW last, Recalled(s, undone, m, w, last)
  PROVE  /\ Listed(w) /\ Fits(w, gone, last) /\ AllFit(w, gone, stack) /\ Over(last, stack)
         /\ w.loaded = s.loaded /\ w.explicit = s.explicit /\ w.pinned = s.pinned
         /\ last.purpose = "rollback"
<1>1. s \in ModuleSet /\ undone \in Operations /\ m \in s.loaded /\ m \in Modules
  BY DEF Listed, Fits, ModuleSet
<1>2. PICK a, order, ids, steps : /\ order = s.attached /\ a = Append(order, m)
                                  /\ ids = undone.ids /\ steps = undone.steps
  OBVIOUS
<1>3. /\ order \in Seq(Modules) /\ Once(order)
      /\ \A i \in 1 .. Len(order) : order[i] \in s.loaded
  BY <1>1, <1>2 DEF Listed, ModuleSet
<1>4. \A i \in 1 .. Len(order) : order[i] # m
  <2>1. DOMAIN order = 1 .. Len(order)
    BY <1>3
  <2> QED
    BY <1>2, <2>1 DEF Attached
<1>5. PICK n : n = Len(order)
  OBVIOUS
<1>6. /\ a \in Seq(Modules) /\ Len(a) = n + 1 /\ n \in Nat
      /\ \A i \in 1 .. n : a[i] = order[i]
      /\ a[n + 1] = m
  BY <1>1, <1>2, <1>3, <1>5, AppendProperties
<1>7. Once(a) /\ \A i \in 1 .. Len(a) : a[i] \in s.loaded
  <2>1. \A i \in 1 .. Len(a) : i \in 1 .. n \/ i = n + 1
    BY <1>6
  <2> QED
    BY <1>1, <1>3, <1>4, <1>5, <1>6, <2>1 DEF Once
<1>8. /\ w \in ModuleSet /\ w.attached = a /\ w.loaded = s.loaded
      /\ w.explicit = s.explicit /\ w.pinned = s.pinned
  <2>1. w = [s EXCEPT !.attached = a]
    BY <1>2 DEF Recalled
  <2> QED
    BY <1>1, <1>6, <2>1 DEF ModuleSet
<1>9. Listed(w)
  BY <1>7, <1>8 DEF Listed
<1>10. PICK q : Undoes(m, steps, q) /\ last = [undone EXCEPT !.steps = q]
  BY <1>2 DEF Recalled
<1>11. /\ q \in Seq(Steps) /\ StepsIn(q, ids) /\ Detaches(q) /\ Backwards(q, a)
  <2>1. /\ steps \in Seq(Steps) /\ StepsIn(steps, ids) /\ Detaches(steps)
        /\ Backwards(steps, order) /\ m \in ids
    BY <1>1, <1>2 DEF Fits, Operations
  <2>2. /\ q \in Seq(Steps) /\ StepsIn(q, ids) /\ Detaches(q)
        /\ Backwards(q, Append(order, m))
    BY ONLY <1>1, <1>3, <1>4, <1>10, <2>1, FailedStepsFit
  <2> QED
    BY <1>2, <2>2
<1>12. MarksOnce(q)
  BY <1>11 DEF MarksOnce, Detaches
<1>13. /\ last \in Operations /\ last.purpose = "rollback" /\ last.ids = ids
       /\ last.steps = q /\ last.active = undone.active /\ last.root = undone.root
       /\ last.initial <=> undone.initial
  BY <1>1, <1>2, <1>10, <1>11 DEF Operations
<1>14. Fits(w, gone, last)
  <2>1. Counted(w, gone, last)
    BY <1>2, <1>8, <1>13 DEF Fits, Counted, Goes
  <2>2. last.ids \subseteq w.loaded /\ (last.active # NoStep => last.active.module \in last.ids)
    BY <1>2, <1>8, <1>13 DEF Fits
  <2> QED
    BY <1>8, <1>11, <1>12, <1>13, <2>1, <2>2 DEF Fits
<1>15. AllFit(w, gone, stack)
  <2>1. \A any : Backwards(any, order) => Backwards(any, a)
    <3>1. Len(order) \in Nat /\ Len(a) \in Nat /\ Len(order) <= Len(a)
          /\ \A i \in 1 .. Len(order) : a[i] = order[i]
      BY <1>5, <1>6
    <3> QED
      BY ONLY <1>7, <3>1, BackwardsLonger
  <2>2. ASSUME NEW o, Fits(s, gone, o) PROVE Spares(s, w, gone, gone, o)
    <3>1. Backwards(o.steps, a)
      BY <1>2, <2>1, <2>2 DEF Fits
    <3>2. /\ o.ids \subseteq w.loaded
          /\ o.purpose = "unload" => o.root \in w.loaded /\ w.explicit[o.root] # 0
      BY <1>8, <2>2 DEF Fits, Counted
    <3> QED
      BY <1>8, <3>1, <3>2 DEF Spares
  <2>3. \A i \in 1 .. Len(stack) : Spares(s, w, gone, gone, stack[i])
    BY <2>2 DEF AllFit
  <2> QED
    BY <2>3, SparedStack
<1>16. Over(last, stack)
  BY <1>2, <1>13 DEF Over, Nests
<1> QED
  BY <1>8, <1>9, <1>13, <1>14, <1>15, <1>16

\* What t advances when an initializer returns or is given up.
Resumes(t) ==
  \E s, op, stack, levels :
    Prepared(t, s, op, stack) /\ Advance(t, s, op, stack, levels)

LEMMA AbortPrepared ==
  ASSUME ListInv, NEW t \in Threads, AbortOperation(t)
  PROVE  Resumes(t)
<1>1. PICK top, stack : top = Last(operations[t]) /\ stack = Front(operations[t])
  OBVIOUS
<1>2. /\ Fits(modules, late, top) /\ stack \in Seq(Operations) /\ Len(stack) < MaxOperations
      /\ AllFit(modules, late, stack) /\ Over(top, stack) /\ Listed(modules)
  BY <1>1, TopFits DEF AbortOperation, ListInv
<1>3. PICK op : op = Rollback(modules, top)
  OBVIOUS
<1>4. Fits(modules, late, op) /\ Over(op, stack) /\ op.purpose = "rollback"
  <2>1. PICK m, g : m = modules /\ g = late
    OBVIOUS
  <2>2. Listed(m) /\ Fits(m, g, top) /\ Over(top, stack) /\ op = Rollback(m, top)
    BY <1>2, <1>3, <2>1
  <2>3. Fits(m, g, op) /\ Over(op, stack) /\ op.purpose = "rollback"
    BY ONLY <2>2, RolledBackFits
  <2> QED
    BY <2>1, <2>3
<1>5. Prepared(t, modules, op, stack)
  BY <1>2, <1>4 DEF Prepared
<1>6. Advance(t, modules, op, stack, depth - 1)
  BY <1>1, <1>3 DEF AbortOperation
<1> QED
  BY <1>5, <1>6 DEF Resumes

LEMMA FinishPrepared ==
  ASSUME ListInv, NEW t \in Threads, NEW success, FinishInitializer(t, success)
  PROVE  Resumes(t)
<1>1. PICK top, stack : top = Last(operations[t]) /\ stack = Front(operations[t])
  OBVIOUS
<1>2. /\ Fits(modules, late, top) /\ stack \in Seq(Operations) /\ Len(stack) < MaxOperations
      /\ AllFit(modules, late, stack) /\ Over(top, stack) /\ Listed(modules)
  BY <1>1, TopFits DEF FinishInitializer, ListInv
<1>3. PICK m, g, undone : m = modules /\ g = late /\ undone = Rollback(m, top)
  OBVIOUS
<1>4. /\ Listed(m) /\ Fits(m, g, top) /\ AllFit(m, g, stack) /\ Over(top, stack)
  BY <1>2, <1>3
<1>5. /\ Fits(m, g, undone) /\ Over(undone, stack)
      /\ Detaches(undone.steps) /\ undone.purpose = "rollback"
  <2>1. undone = Rollback(m, top)
    BY <1>3
  <2> QED
    BY ONLY <1>4, <2>1, RolledBackFits
<1> DEFINE x == top.active.module
           failed == top.active.call = "main" /\ top.active.attach /\ ~success
           again == x \in undone.ids /\ ~Attached(m, x)
           last == [undone EXCEPT !.steps =
                      <<Step("tls", x, FALSE), Step("main", x, FALSE)>> \o @]
           w == [m EXCEPT !.attached = Append(@, x)]
<1>6. FailedRollback(modules, top) = IF again THEN last ELSE undone
  BY <1>3 DEF FailedRollback
<1>7. again => last.ids = undone.ids
  BY <1>5 DEF Fits, Operations
<1>8. FailedRollback(modules, top).ids = undone.ids
  BY <1>6, <1>7
<1>9. Advance(t, IF failed /\ again THEN w ELSE m,
              IF failed THEN (IF again THEN last ELSE undone) ELSE top, stack, depth - 1)
  BY <1>1, <1>3, <1>6, <1>8 DEF FinishInitializer
<1>10. CASE failed /\ again
  <2>1. PICK v, o, y : v = w /\ o = last /\ y = x
    OBVIOUS
  <2>2. y \in undone.ids /\ ~Attached(m, y) /\ Recalled(m, undone, y, v, o)
    <3>1. PICK q : q = <<Step("tls", y, FALSE), Step("main", y, FALSE)>> \o undone.steps
      OBVIOUS
    <3>2. o = [undone EXCEPT !.steps = q] /\ v = [m EXCEPT !.attached = Append(@, y)]
      BY <2>1, <3>1
    <3> QED
      BY <1>10, <2>1, <3>1, <3>2 DEF Recalled, Undoes
  <2>3. /\ Listed(v) /\ Fits(v, g, o) /\ AllFit(v, g, stack) /\ Over(o, stack)
        /\ v.loaded = m.loaded /\ v.explicit = m.explicit /\ v.pinned = m.pinned
        /\ o.purpose = "rollback"
    BY ONLY <1>4, <1>5, <2>2, FailedFits
  <2>4. Prepared(t, v, o, stack)
    BY <1>2, <1>3, <2>3 DEF Prepared
  <2>5. Advance(t, v, o, stack, depth - 1)
    BY <1>9, <1>10, <2>1
  <2> QED
    BY <2>4, <2>5 DEF Resumes
<1>11. CASE failed /\ ~again
  <2>1. Prepared(t, m, undone, stack)
    BY <1>2, <1>3, <1>5 DEF Prepared
  <2>2. Advance(t, m, undone, stack, depth - 1)
    BY <1>9, <1>11
  <2> QED
    BY <2>1, <2>2 DEF Resumes
<1>12. CASE ~failed
  <2>1. Prepared(t, m, top, stack)
    BY <1>1, <1>2, <1>3 DEF Prepared
  <2>2. Advance(t, m, top, stack, depth - 1)
    BY <1>9, <1>12
  <2> QED
    BY <2>1, <2>2 DEF Resumes
<1> QED
  BY <1>10, <1>11, <1>12

-----------------------------------------------------------------------------
(* The actions that reference modules. *)

\* w is s with one more reference, or a pin, to m.
Referenced(s, m, w) ==
  /\ w.loaded = s.loaded /\ w.attached = s.attached
  /\ \A x \in Modules : s.explicit[x] # 0 => w.explicit[x] # 0
  /\ \A x \in Modules \ {m} : /\ w.explicit[x] = s.explicit[x]
                              /\ x \in w.pinned => x \in s.pinned

LEMMA ReferencedFits ==
  ASSUME NEW s, NEW m, NEW w, Referenced(s, m, w), NEW gone, NEW left, gone \subseteq left,
         NEW op, Fits(s, gone, op), m \in Goes(op) => m \in left
  PROVE  Fits(w, left, op)
<1>1. op.root \in Modules /\ op.ids \in SUBSET Modules
  BY DEF Fits, Operations
<1>2. op.purpose = "unload" => op.root \in w.loaded /\ w.explicit[op.root] # 0
  BY <1>1 DEF Fits, Counted, Referenced
<1>3. ASSUME NEW x \in Goes(op) \ left
      PROVE  /\ x \notin w.pinned
             /\ w.explicit[x] # 0 => op.purpose = "unload" /\ op.root = x /\ w.explicit[x] = 1
  <2>1. x \in Modules \ {m} /\ x \in Goes(op) \ gone
    BY <1>1, <1>3 DEF Goes
  <2>2. w.explicit[x] = s.explicit[x] /\ (x \in w.pinned => x \in s.pinned)
    BY <2>1 DEF Referenced
  <2> QED
    BY <2>1, <2>2 DEF Fits, Counted
<1>4. Counted(w, left, op)
  BY <1>2, <1>3 DEF Counted
<1> QED
  BY <1>4 DEF Fits, Referenced

LEMMA ReferencedStacks ==
  ASSUME ListInv, NEW m \in Modules, NEW w, Referenced(modules, m, w)
  PROVE  \A u \in Threads : AllFit(w, late \cup ({m} \cap Doomed), operations[u])
<1> SUFFICES ASSUME NEW u \in Threads
             PROVE  AllFit(w, late \cup ({m} \cap Doomed), operations[u])
  OBVIOUS
<1>1. PICK left, stack : left = late \cup ({m} \cap Doomed) /\ stack = operations[u]
  OBVIOUS
<1>2. AllFit(modules, late, stack) /\ stack \in Seq(Operations)
  BY <1>1 DEF ListInv
<1>3. ASSUME NEW i \in 1 .. Len(stack) PROVE Fits(w, left, stack[i])
  <2>1. Fits(modules, late, stack[i])
    BY <1>2 DEF AllFit
  <2>2. ASSUME m \in Goes(stack[i]) PROVE m \in left
    <3>1. m \in stack[i].ids /\ stack[i].purpose \in {"unload", "rollback"}
      BY <2>2 DEF Goes
    <3>2. i \in DOMAIN operations[u]
      BY <1>1, <1>2
    <3>3. m \in Doomed
      BY <1>1, <3>1, <3>2 DEF Doomed
    <3> QED
      BY <1>1, <3>3
  <2>3. late \subseteq left
    BY <1>1
  <2> QED
    BY <2>1, <2>2, <2>3, ReferencedFits
<1>4. AllFit(w, left, stack)
  BY <1>2, <1>3 DEF AllFit
<1> QED
  BY <1>1, <1>4

\* One more explicit reference.
LEMMA CountedUp ==
  ASSUME ListInv, NEW m \in Modules, modules.explicit[m] < MaxExplicit,
         NEW w, w = [modules EXCEPT !.explicit[m] = @ + 1]
  PROVE  Listed(w) /\ Referenced(modules, m, w)
<1>1. Listed(modules) /\ modules \in ModuleSet
  BY DEF ListInv, Listed
<1>2. PICK s : s = modules
  OBVIOUS
<1>3. Listed(s) /\ s \in ModuleSet /\ s.explicit[m] + 1 \in 0 .. MaxExplicit
      /\ s.explicit[m] \in Nat
  BY <1>1, <1>2, ModulesAssumption DEF ModuleSet
<1>4. PICK c : c = [s.explicit EXCEPT ![m] = @ + 1]
  OBVIOUS
<1>5. /\ c \in [Modules -> 0 .. MaxExplicit] /\ c[m] = s.explicit[m] + 1
      /\ \A x \in Modules : x # m => c[x] = s.explicit[x]
  <2>1. PICK n : n = 1
    OBVIOUS
  <2>2. n \in {1, -1} /\ s.explicit[m] + n \in 0 .. MaxExplicit
    BY <1>3, <2>1
  <2>3. /\ [s.explicit EXCEPT ![m] = @ + n] \in [Modules -> 0 .. MaxExplicit]
        /\ [s.explicit EXCEPT ![m] = @ + n][m] = s.explicit[m] + n
        /\ \A x \in Modules : x # m => [s.explicit EXCEPT ![m] = @ + n][x] = s.explicit[x]
    BY <1>3, <2>2, Recounted
  <2> QED
    BY <1>4, <2>1, <2>3
<1>6. w = [s EXCEPT !.explicit = c]
  BY <1>2, <1>3, <1>4 DEF ModuleSet
<1>7. /\ Listed(w) /\ w.explicit = c /\ w.loaded = s.loaded /\ w.pinned = s.pinned
      /\ w.attached = s.attached
  BY ONLY <1>3, <1>5, <1>6, ExplicitListed
<1>8. \A x \in Modules : s.explicit[x] # 0 => c[x] # 0
  <2> SUFFICES ASSUME NEW x \in Modules, s.explicit[x] # 0 PROVE c[x] # 0
    OBVIOUS
  <2>1. CASE x = m
    BY <1>3, <1>5, <2>1
  <2>2. CASE x # m
    BY <1>5, <2>2
  <2> QED
    BY <2>1, <2>2
<1> QED
  BY <1>2, <1>5, <1>7, <1>8 DEF Referenced

\* The loads that wait stay as they are.
LEMMA SourcesStay ==
  ASSUME ListInv, modules'.loaded = modules.loaded, UNCHANGED source
  PROVE  \A u \in Threads : /\ Pending(modules', source'[u])
                            /\ source'[u].call = "start" => operations[u] = <<>>
BY DEF ListInv, Pending

\* A step that leaves modules, operations and waiting loads alone.
LEMMA ListSame ==
  ASSUME ListInv, UNCHANGED <<modules, operations, exited, late>>,
         \A u \in Threads : /\ Pending(modules, source'[u])
                            /\ source'[u].call = "start" => operations[u] = <<>>,
         Asked', Noticed'
  PROVE  ListInv' /\ Kept
BY ListStays DEF ListInv

LEMMA ReferenceLists ==
  ASSUME LockInv, ListInv, NEW t \in Threads, NEW m \in Modules, NEW pin,
         AddReference(t, m, pin)
  PROVE  ListInv' /\ Kept
<1>1. /\ modules.explicit[m] < MaxExplicit
      /\ modules' = IF pin THEN [modules EXCEPT !.pinned = @ \cup {m}]
                    ELSE [modules EXCEPT !.explicit[m] = @ + 1]
      /\ late' = late \cup ({m} \cap Doomed)
      /\ UNCHANGED <<operations, waiting, source, notice, exited>>
  BY DEF AddReference
<1>2. PICK w : w = modules'
  OBVIOUS
<1>3. Listed(w) /\ Referenced(modules, m, w)
  <2>1. CASE pin
    <3>1. PICK s, p : s = modules /\ p = s.pinned \cup {m}
      OBVIOUS
    <3>2. Listed(s) /\ p \in SUBSET Modules /\ w = [s EXCEPT !.pinned = p]
      BY <1>1, <1>2, <2>1, <3>1 DEF ListInv, Listed, ModuleSet
    <3>3. /\ Listed(w) /\ w.explicit = s.explicit /\ w.loaded = s.loaded /\ w.pinned = p
          /\ w.attached = s.attached
      BY ONLY <3>2, PinnedListed
    <3> QED
      BY <3>1, <3>3 DEF Referenced
  <2>2. CASE ~pin
    <3>1. w = [modules EXCEPT !.explicit[m] = @ + 1]
      BY <1>1, <1>2, <2>2
    <3> QED
      BY <1>1, <3>1, CountedUp
  <2> QED
    BY <2>1, <2>2
<1>4. \A u \in Threads : AllFit(w, late \cup ({m} \cap Doomed), operations[u])
  BY <1>3, ReferencedStacks
<1>5. w.loaded = modules.loaded
  BY <1>3 DEF Referenced
<1>6. \A u \in Threads : /\ Pending(modules', source'[u])
                         /\ source'[u].call = "start" => operations[u] = <<>>
  BY <1>1, <1>2, <1>5, SourcesStay
<1>7. Asked' /\ Noticed' /\ exited' \in BOOLEAN /\ late' \in SUBSET Modules
  BY <1>1 DEF ListInv, Asked, Noticed
<1> QED
  BY <1>1, <1>2, <1>3, <1>4, <1>5, <1>6, <1>7, ListStays

-----------------------------------------------------------------------------
(* The requests. *)

LEMMA BeginLoadLists ==
  ASSUME LockInv, DepInv, ListInv, NEW t \in Threads, Asks(t), Asked',
         NEW r, r # NoRequest, Pending(modules, r),
         r.call = "start" => operations[t] = <<>>, BeginLoad(t, r)
  PROVE  ListInv' /\ Kept
<1>1. UNCHANGED notice /\ Acquirable(t) /\ source = [source EXCEPT ![t] = NoRequest]
  BY SameAt DEF Asks
<1>2. CASE Install(t, r, depth) /\ UNCHANGED source
  <2>1. PICK s, op : /\ Prepared(t, s, op, operations[t])
                     /\ Advance(t, s, op, operations[t], depth)
    BY <1>2, InstallPrepared
  <2> QED
    BY <1>1, <1>2, <2>1, AdvanceKeepsLists
<1>3. CASE /\ source' = [source EXCEPT ![t] = r]
           /\ UNCHANGED <<modules, operations, exited, late>>
  <2>1. \A u \in Threads : source'[u] = IF u = t THEN r ELSE source[u]
    BY <1>3 DEF LockInv, Shape
  <2>2. \A u \in Threads : /\ Pending(modules, source'[u])
                           /\ source'[u].call = "start" => operations[u] = <<>>
    BY <2>1 DEF ListInv
  <2>3. Noticed'
    BY <1>1 DEF ListInv, Noticed
  <2> QED
    BY <1>3, <2>2, <2>3, ListSame
<1> QED
  BY <1>2, <1>3 DEF BeginLoad

LEMMA RetainLists ==
  ASSUME LockInv, ListInv, NEW t \in Threads, Asks(t), Asked', NEW r, RetainLoaded(t, r)
  PROVE  ListInv' /\ Kept
<1>1. /\ r.module \in modules.loaded /\ modules.explicit[r.module] < MaxExplicit
      /\ modules' = [modules EXCEPT !.explicit[r.module] = @ + 1]
      /\ late' = late \cup ({r.module} \cap Doomed)
      /\ UNCHANGED <<operations, source, exited>>
  BY DEF RetainLoaded
<1>2. PICK m, w : m = r.module /\ w = modules'
  OBVIOUS
<1>3. m \in Modules
  BY <1>1, <1>2 DEF ListInv, Listed, ModuleSet
<1>4. Listed(w) /\ Referenced(modules, m, w)
  BY <1>1, <1>2, <1>3, CountedUp
<1>5. \A u \in Threads : AllFit(w, late \cup ({m} \cap Doomed), operations[u])
  BY <1>3, <1>4, ReferencedStacks
<1>6. w.loaded = modules.loaded
  BY <1>4 DEF Referenced
<1>7. \A u \in Threads : /\ Pending(modules', source'[u])
                         /\ source'[u].call = "start" => operations[u] = <<>>
  BY <1>1, <1>2, <1>6, SourcesStay
<1>8. Noticed' /\ exited' \in BOOLEAN /\ late' \in SUBSET Modules
  BY <1>1, <1>2, <1>3 DEF ListInv, Noticed, Asks
<1> QED
  BY <1>1, <1>2, <1>4, <1>5, <1>6, <1>7, <1>8, ListStays

LEMMA AdoptLists ==
  ASSUME LockInv, ListInv, NEW t \in Threads, Asks(t), Asked', NEW r, r.module \in Modules,
         AdoptDependency(t, r)
  PROVE  ListInv' /\ Kept
<1>1. /\ Target(r) \in modules.loaded
      /\ modules' = [modules EXCEPT !.dependencies[r.module] = @ \cup {Target(r)}]
      /\ UNCHANGED <<operations, source, exited, late>>
  BY DEF AdoptDependency
<1>2. PICK s, w, d : /\ s = modules /\ w = modules'
                     /\ d = [s.dependencies EXCEPT ![r.module] = @ \cup {Target(r)}]
  OBVIOUS
<1>3. Listed(s) /\ s \in ModuleSet
  BY <1>2 DEF ListInv, Listed
<1>4. d \in [Modules -> SUBSET Modules] /\ w = [s EXCEPT !.dependencies = d]
  BY <1>1, <1>2, <1>3 DEF ModuleSet
<1>5. /\ Listed(w) /\ w.explicit = s.explicit /\ w.loaded = s.loaded
      /\ w.pinned = s.pinned /\ w.attached = s.attached
  BY <1>3, <1>4, DependenciesListed
<1>6. ASSUME NEW u \in Threads PROVE AllFit(w, late, operations[u])
  <2>1. AllFit(s, late, operations[u])
    BY <1>2 DEF ListInv
  <2>2. ASSUME NEW o, Fits(s, late, o) PROVE Spares(s, w, late, late, o)
    BY <1>5, <2>2 DEF Spares, Fits, Counted
  <2>3. \A i \in 1 .. Len(operations[u]) : Spares(s, w, late, late, operations[u][i])
    BY <2>1, <2>2 DEF AllFit
  <2> QED
    BY <2>1, <2>3, SparedStack
<1>7. \A u \in Threads : /\ Pending(modules', source'[u])
                         /\ source'[u].call = "start" => operations[u] = <<>>
  BY <1>1, <1>2, <1>5, SourcesStay
<1>8. Noticed' /\ exited' \in BOOLEAN /\ late' \in SUBSET Modules
  BY <1>1 DEF ListInv, Noticed, Asks
<1> QED
  BY <1>1, <1>2, <1>5, <1>6, <1>7, <1>8, ListStays

LEMMA FreeLists ==
  ASSUME LockInv, ListInv, NEW t \in Threads, Asks(t), Asked', NEW r, FreeLibrary(t, r)
  PROVE  ListInv' /\ Kept
<1>1. UNCHANGED notice /\ Acquirable(t) /\ source = [source EXCEPT ![t] = NoRequest]
  BY SameAt DEF Asks
<1>2. UNCHANGED source /\ operations[t] = <<>> /\ r.module \in modules.loaded
      /\ modules.explicit[r.module] # 0
  BY DEF FreeLibrary
<1>3. CASE UnreachableAfterRelease(modules, r.module) # {}
  <2>1. PICK op, levels : /\ Prepared(t, modules, op, operations[t])
                          /\ Advance(t, modules, op, operations[t], levels)
    BY <1>3, FreePrepared
  <2> QED
    BY <1>1, <1>2, <2>1, AdvanceKeepsLists
<1>4. CASE UnreachableAfterRelease(modules, r.module) = {}
  <2>1. /\ modules' = [modules EXCEPT !.explicit[r.module] = @ - 1]
        /\ UNCHANGED <<operations, exited, late>>
    BY <1>4 DEF FreeLibrary
  <2>2. PICK s, m, w : s = modules /\ m = r.module /\ w = modules'
    OBVIOUS
  <2>3. Listed(s) /\ s \in ModuleSet /\ m \in Modules /\ s.explicit[m] # 0
    BY <1>2, <2>2 DEF ListInv, Listed, ModuleSet
  <2>4. PICK c : c = [s.explicit EXCEPT ![m] = @ - 1]
    OBVIOUS
  <2>5. c \in [Modules -> 0 .. MaxExplicit] /\ w = [s EXCEPT !.explicit = c]
    <3>1. s.explicit \in [Modules -> 0 .. MaxExplicit] /\ MaxExplicit \in Nat
      BY <2>3, ModulesAssumption DEF ModuleSet
    <3>2. s.explicit[m] - 1 \in 0 .. MaxExplicit
      BY <2>3, <3>1
    <3>3. c \in [Modules -> 0 .. MaxExplicit]
      BY <2>3, <2>4, <3>1, <3>2
    <3> QED
      BY <2>1, <2>2, <2>3, <2>4, <3>3 DEF ModuleSet
  <2>6. Listed(w) /\ w.loaded = s.loaded
    BY <2>3, <2>5, ExplicitListed
  <2>7. \A u \in Threads : operations[u] = <<>>
    BY <1>1, <1>2, Idle
  <2>8. \A u \in Threads : AllFit(w, late, operations[u])
    <3>1. AllFit(w, late, <<>>)
      BY DEF AllFit
    <3> QED
      BY <2>7, <3>1
  <2>9. \A u \in Threads : /\ Pending(modules', source'[u])
                           /\ source'[u].call = "start" => operations[u] = <<>>
    BY <1>2, <2>2, <2>6, SourcesStay
  <2>10. Noticed' /\ exited' \in BOOLEAN /\ late' \in SUBSET Modules
    BY <1>1, <2>1 DEF ListInv, Noticed
  <2> QED
    BY <2>1, <2>2, <2>6, <2>8, <2>9, <2>10, ListStays
<1> QED
  BY <1>3, <1>4

LEMMA PerformLists ==
  ASSUME LockInv, DepInv, ListInv, NEW t \in Threads, Asks(t),
         NEW r \in Requests \cup {NoRequest}, Perform(t, r)
  PROVE  ListInv' /\ Kept
<1>1. UNCHANGED notice /\ Acquirable(t) /\ source = [source EXCEPT ![t] = NoRequest]
  BY SameAt DEF Asks
<1>2. Asked'
  BY DEF Asks, Asked, ListInv
<1>3. CASE LoadLibrary(t, r)
  <2>1. r.call \in {"load", "image"} /\ r # NoRequest
    BY <1>3 DEF LoadLibrary, NoRequest, Request
  <2>2. r.module \in Modules
    BY <2>1 DEF Requests
  <2>3. CASE BeginLoad(t, r)
    <3>1. Target(r) \notin modules.loaded
      BY <2>3 DEF BeginLoad
    <3>2. r \in [call : {"load", "image", "export", "start"}, module : Modules]
      BY <2>1 DEF Requests
    <3>3. Pending(modules, r)
      BY <2>1, <3>1, <3>2 DEF Pending
    <3> QED
      BY <1>2, <2>1, <2>3, <3>3, BeginLoadLists
  <2>4. CASE RetainLoaded(t, r)
    BY <1>2, <2>4, RetainLists
  <2> QED
    BY <1>3, <2>3, <2>4 DEF LoadLibrary
<1>4. CASE GetProcAddress(t, r)
  <2>1. r.call = "export" /\ r # NoRequest /\ r.module \in modules.loaded \cap DOMAIN Forward
    BY <1>4 DEF GetProcAddress, NoRequest, Request
  <2>2. r.module \in Modules
    BY <2>1 DEF Requests
  <2>3. CASE BeginLoad(t, r)
    <3>1. Target(r) \notin modules.loaded
      BY <2>3 DEF BeginLoad
    <3>2. r \in [call : {"load", "image", "export", "start"}, module : Modules]
      BY <2>1 DEF Requests
    <3>3. Pending(modules, r)
      BY <2>1, <3>1, <3>2 DEF Pending
    <3> QED
      BY <1>2, <2>1, <2>3, <3>3, BeginLoadLists
  <2>4. CASE AdoptDependency(t, r)
    BY <1>2, <2>2, <2>4, AdoptLists
  <2> QED
    BY <1>4, <2>3, <2>4 DEF GetProcAddress
<1>5. CASE FreeLibrary(t, r)
  BY <1>2, <1>5, FreeLists
<1>6. CASE DetachForExit(t, r)
  <2>1. PICK op, levels : /\ Prepared(t, modules, op, operations[t])
                          /\ Advance(t, modules, op, operations[t], levels)
    BY <1>6, ExitPrepared
  <2>2. UNCHANGED source
    BY <1>6 DEF DetachForExit
  <2> QED
    BY <1>1, <1>2, <2>1, <2>2, AdvanceKeepsLists
<1> QED
  BY <1>3, <1>4, <1>5, <1>6 DEF Perform

LEMMA SourceLists ==
  ASSUME LockInv, DepInv, ListInv, NEW t \in Threads, ResumeSource(t)
  PROVE  ListInv' /\ Kept
<1>1. /\ source[t] # NoRequest /\ source' = [source EXCEPT ![t] = NoRequest]
      /\ UNCHANGED <<waiting, notice>>
  BY DEF ResumeSource
<1>2. Acquirable(t)
  BY <1>1, WorkersOwn
<1>3. Asked' /\ Noticed'
  BY <1>1 DEF ListInv, Asked, Noticed
<1>4. Pending(modules, source[t]) /\ (source[t].call = "start" => operations[t] = <<>>)
  BY DEF ListInv
<1>5. CASE Install(t, source[t], depth - 1)
  <2>1. PICK r, n : r = source[t] /\ n = depth - 1
    OBVIOUS
  <2>2. PICK s, op : /\ Prepared(t, s, op, operations[t])
                     /\ Advance(t, s, op, operations[t], n)
    BY <1>1, <1>4, <1>5, <2>1, InstallPrepared
  <2> QED
    BY <1>1, <1>2, <1>3, <2>2, AdvanceKeepsLists
<1>6. CASE UNCHANGED <<modules, operations, exited, late>>
  <2>1. \A u \in Threads : source'[u] = IF u = t THEN NoRequest ELSE source[u]
    BY <1>1 DEF LockInv, Shape
  <2>2. Pending(modules, NoRequest) /\ NoRequest.call # "start"
    BY DEF Pending, NoRequest, Request
  <2>3. \A u \in Threads : /\ Pending(modules, source'[u])
                           /\ source'[u].call = "start" => operations[u] = <<>>
    BY <2>1, <2>2 DEF ListInv
  <2> QED
    BY <1>3, <1>6, <2>3, ListSame
<1> QED
  BY <1>5, <1>6 DEF ResumeSource

LEMMA ParkLists ==
  ASSUME ListInv, NEW t \in Threads, NEW r \in Calls, ParkRequest(t, r)
  PROVE  ListInv' /\ Kept
<1>1. /\ waiting' = [waiting EXCEPT ![t] = r]
      /\ UNCHANGED <<modules, operations, source, notice, exited, late>>
  BY DEF ParkRequest
<1>2. r \in Requests
  BY CallsAssumption
<1>3. Asked' /\ Noticed'
  BY <1>1, <1>2 DEF ListInv, Asked, Noticed
<1>4. \A u \in Threads : /\ Pending(modules, source'[u])
                         /\ source'[u].call = "start" => operations[u] = <<>>
  BY <1>1 DEF ListInv
<1> QED
  BY <1>1, <1>3, <1>4, ListSame

\* No operation is in progress in an engine without modules.
LEMMA NothingLoaded ==
  ASSUME ListInv, modules.loaded = {}, NEW t \in Threads
  PROVE  operations[t] = <<>>
<1>1. PICK stack : stack = operations[t]
  OBVIOUS
<1>2. stack \in Seq(Operations) /\ AllFit(modules, late, stack)
  BY <1>1 DEF ListInv
<1>3. ASSUME 1 \in 1 .. Len(stack) PROVE FALSE
  <2>1. Fits(modules, late, stack[1]) /\ (stack[1].active = NoStep => stack[1].ids # {})
    BY <1>2, <1>3 DEF AllFit
  <2> QED
    BY <2>1 DEF Fits
<1>4. Stack(stack)
  BY <1>2, IsStack
<1>5. stack # <<>> => Len(stack) >= 1 /\ Len(stack) \in Nat
  BY <1>4, Popped DEF Stack
<1> QED
  BY <1>1, <1>3, <1>5

LEMMA StartLists ==
  ASSUME LockInv, DepInv, ListInv, StartProcess
  PROVE  ListInv' /\ Kept
<1>1. /\ Primary \in Threads /\ modules.loaded = {}
      /\ source[Primary] = NoRequest /\ waiting[Primary] = NoRequest /\ Acquirable(Primary)
      /\ UNCHANGED <<waiting, notice>>
      /\ BeginLoad(Primary, Request("start", Main))
  BY ModulesAssumption DEF StartProcess
<1>2. PICK t, r : t = Primary /\ r = Request("start", Main)
  OBVIOUS
<1>3. t \in Threads /\ Asks(t)
  BY <1>1, <1>2, SameAt DEF Asks
<1>4. Asked'
  BY <1>1 DEF ListInv, Asked
<1>5. r # NoRequest /\ r.call = "start" /\ r.module = Main
      /\ r \in [call : {"load", "image", "export", "start"}, module : Modules]
  BY <1>2, ModulesAssumption DEF Request, NoRequest
<1>6. Pending(modules, r)
  BY <1>1, <1>5 DEF Pending
<1>7. operations[t] = <<>>
  BY <1>1, <1>3, NothingLoaded
<1> QED
  BY <1>1, <1>2, <1>3, <1>4, <1>5, <1>6, <1>7, BeginLoadLists

\* The calls of a notification are modules, whichever way they go.
LEMMA NotifiedModules ==
  ASSUME ListInv
  PROVE  Notified \in Seq(Modules) /\ Reverse(Notified) \in Seq(Modules)
<1>1. PICK r, s, S : r = Notified /\ s = modules.attached /\ S = Entries \cup TlsModules
  OBVIOUS
<1>2. s \in Seq(Modules) /\ r = Among(s, S)
  BY <1>1 DEF ListInv, Listed, ModuleSet, Notified
<1>3. r \in Seq(Modules)
  BY <1>2, AmongKeeps
<1>4. Reverse(r) = [i \in 1 .. Len(r) |-> r[Len(r) - i + 1]]
  BY DEF Reverse
<1>5. \A i \in 1 .. Len(r) : r[Len(r) - i + 1] \in Modules
  <2>1. PICK n : n = Len(r)
    OBVIOUS
  <2>2. n \in Nat /\ \A i \in 1 .. n : r[i] \in Modules
    BY <1>3, <2>1
  <2>3. \A i \in 1 .. n : n - i + 1 \in 1 .. n
    BY ONLY <2>2
  <2> QED
    BY <2>1, <2>2, <2>3
<1>6. Reverse(r) \in Seq(Modules)
  <2>1. PICK n, q : n = Len(r) /\ q = [i \in 1 .. n |-> r[n - i + 1]]
    OBVIOUS
  <2>2. n \in Nat /\ \A i \in 1 .. n : r[n - i + 1] \in Modules
    BY <1>3, <1>5, <2>1
  <2>3. q \in [1 .. n -> Modules]
    BY <2>1, <2>2
  <2>4. q \in Seq(Modules)
    BY <2>2, <2>3
  <2> QED
    BY <1>4, <2>1, <2>4
<1> QED
  BY <1>1, <1>3, <1>6

LEMMA NoticeLists ==
  ASSUME ListInv, NEW t \in Threads,
         \/ \E attach \in BOOLEAN : BeginNotice(t, attach)
         \/ CallNotice(t) \/ ReturnNotice(t) \/ EndNotice(t)
  PROVE  ListInv' /\ Kept
<1>1. UNCHANGED <<modules, operations, source, waiting, exited, late>>
  BY DEF BeginNotice, CallNotice, ReturnNotice, EndNotice
<1>2. Asked' /\ \A u \in Threads : /\ Pending(modules, source'[u])
                                   /\ source'[u].call = "start" => operations[u] = <<>>
  BY <1>1 DEF ListInv, Asked
<1> DEFINE Notices == [open : BOOLEAN, calls : Seq(Modules), active : BOOLEAN]
<1>3. notice \in [Threads -> Notices]
      /\ \A u \in Threads : notice[u].active => notice[u].calls # <<>>
  BY DEF ListInv
<1>4. ASSUME NEW n \in Notices, notice' = [notice EXCEPT ![t] = n],
             n.active => n.calls # <<>>
      PROVE  Noticed'
  <2>1. notice' \in [Threads -> Notices]
    <3> HIDE DEF Notices
    <3> QED
      BY <1>3, <1>4
  <2>2. \A u \in Threads : notice'[u] = IF u = t THEN n ELSE notice[u]
    BY <1>3, <1>4
  <2> QED
    BY <1>3, <1>4, <2>1, <2>2 DEF Noticed
<1>5. Noticed'
  <2>1. CASE \E attach \in BOOLEAN : BeginNotice(t, attach)
    <3>1. PICK attach \in BOOLEAN : BeginNotice(t, attach)
      BY <2>1
    <3>2. PICK c : c = IF attach THEN Notified ELSE Reverse(Notified)
      OBVIOUS
    <3>3. c \in Seq(Modules)
      BY <3>2, NotifiedModules
    <3>4. notice' = [notice EXCEPT ![t] = [open |-> TRUE, active |-> FALSE, calls |-> c]]
      BY <3>1, <3>2 DEF BeginNotice
    <3>5. PICK n : n = [open |-> TRUE, active |-> FALSE, calls |-> c]
      OBVIOUS
    <3>6. n \in Notices /\ ~n.active
      BY <3>3, <3>5
    <3> HIDE DEF Notices
    <3> QED
      BY <1>4, <3>4, <3>5, <3>6
  <2>2. CASE CallNotice(t)
    <3>1. PICK n : n = [notice[t] EXCEPT !.active = TRUE]
      OBVIOUS
    <3>2. notice[t] \in Notices
      BY <1>3
    <3>3. n \in Notices /\ n.calls = notice[t].calls
      BY <3>1, <3>2
    <3>4. notice[t].calls # <<>> /\ notice' = [notice EXCEPT ![t] = n]
      BY <2>2, <3>1 DEF CallNotice
    <3> HIDE DEF Notices
    <3> QED
      BY <1>4, <3>3, <3>4
  <2>3. CASE ReturnNotice(t)
    <3>1. notice[t] \in Notices /\ notice[t].calls # <<>>
      BY <1>3, <2>3 DEF ReturnNotice
    <3>2. PICK c : c = Tail(notice[t].calls)
      OBVIOUS
    <3>3. c \in Seq(Modules)
      BY <3>1, <3>2
    <3>4. PICK n : n = [notice[t] EXCEPT !.active = FALSE, !.calls = c]
      OBVIOUS
    <3>5. n \in Notices /\ ~n.active
      BY <3>1, <3>3, <3>4
    <3>6. notice' = [notice EXCEPT ![t] = n]
      BY <1>3, <2>3, <3>2, <3>4 DEF ReturnNotice
    <3> HIDE DEF Notices
    <3> QED
      BY <1>4, <3>5, <3>6
  <2>4. CASE EndNotice(t)
    <3>1. notice' = [notice EXCEPT ![t] = NoNotice]
      BY <2>4 DEF EndNotice
    <3>2. PICK n, e : n = NoNotice /\ e = <<>>
      OBVIOUS
    <3>3. e \in Seq(Modules) /\ n = [open |-> FALSE, calls |-> e, active |-> FALSE]
      BY <3>2 DEF NoNotice
    <3>4. n \in Notices /\ ~n.active
      BY <3>3
    <3> HIDE DEF Notices
    <3> QED
      BY <1>4, <3>1, <3>2, <3>4
  <2> QED
    BY <2>1, <2>2, <2>3, <2>4
<1> QED
  BY <1>1, <1>2, <1>5, ListSame

LEMMA ResumesLists ==
  ASSUME LockInv, ListInv, NEW t \in Threads, operations[t] # <<>>, source[t] = NoRequest,
         Resumes(t), UNCHANGED <<waiting, source, notice>>
  PROVE  ListInv' /\ Kept
<1>1. Acquirable(t)
  BY WorkersOwn
<1>2. source' = [source EXCEPT ![t] = NoRequest]
  BY SameAt
<1>3. Asked'
  BY DEF ListInv, Asked
<1>4. PICK s, op, stack, levels :
           Prepared(t, s, op, stack) /\ Advance(t, s, op, stack, levels)
  BY DEF Resumes
<1> QED
  BY <1>1, <1>2, <1>3, <1>4, AdvanceKeepsLists

LEMMA NextKeepsLists == LockInv /\ DepInv /\ ListInv /\ [Next]_vars => ListInv' /\ Kept
<1> SUFFICES ASSUME LockInv, DepInv, ListInv, [Next]_vars PROVE ListInv' /\ Kept
  OBVIOUS
<1>1. CASE StartProcess
  BY <1>1, StartLists
<1>2. ASSUME NEW t \in Threads, NEW r \in Calls, Call(t, r) PROVE ListInv' /\ Kept
  <2>1. Asks(t)
    BY <1>2, SameAt DEF Call, Guest, Asks
  <2>2. r \in Requests \cup {NoRequest}
    BY CallsAssumption
  <2> QED
    BY <1>2, <2>1, <2>2, PerformLists DEF Call
<1>3. ASSUME NEW t \in Threads, NEW r \in Calls, ParkRequest(t, r)
      PROVE  ListInv' /\ Kept
  BY <1>3, ParkLists
<1>4. ASSUME NEW t \in Threads, NEW m \in Modules, NEW pin \in BOOLEAN,
             AddReference(t, m, pin)
      PROVE  ListInv' /\ Kept
  BY <1>4, ReferenceLists
<1>5. ASSUME NEW t \in Threads, RetryRequest(t) PROVE ListInv' /\ Kept
  <2>1. Asks(t)
    BY <1>5 DEF RetryRequest, Asks, LockInv, Shape
  <2>2. waiting[t] \in Requests \cup {NoRequest}
    BY DEF ListInv
  <2>3. CASE Perform(t, waiting[t])
    BY <2>1, <2>2, <2>3, PerformLists
  <2>4. CASE UNCHANGED <<modules, operations, source, exited, late>>
    <3>1. Asked' /\ Noticed'
      BY <2>1 DEF Asks, Asked, Noticed, ListInv
    <3>2. \A u \in Threads : /\ Pending(modules, source'[u])
                             /\ source'[u].call = "start" => operations[u] = <<>>
      BY <2>4 DEF ListInv
    <3> QED
      BY <2>4, <3>1, <3>2, ListSame
  <2> QED
    BY <1>5, <2>3, <2>4 DEF RetryRequest
<1>6. ASSUME NEW t \in Threads, ResumeSource(t) PROVE ListInv' /\ Kept
  BY <1>6, SourceLists
<1>7. ASSUME NEW t \in Threads, NEW success \in BOOLEAN, FinishInitializer(t, success)
      PROVE  ListInv' /\ Kept
  <2>1. operations[t] # <<>> /\ source[t] = NoRequest /\ UNCHANGED <<waiting, source, notice>>
    BY <1>7 DEF FinishInitializer, Guest
  <2> QED
    BY <1>7, <2>1, FinishPrepared, ResumesLists
<1>8. ASSUME NEW t \in Threads, AbortOperation(t) PROVE ListInv' /\ Kept
  <2>1. operations[t] # <<>> /\ source[t] = NoRequest /\ UNCHANGED <<waiting, source, notice>>
    BY <1>8 DEF AbortOperation, Guest
  <2> QED
    BY <1>8, <2>1, AbortPrepared, ResumesLists
<1>9. ASSUME NEW t \in Threads,
             \/ \E attach \in BOOLEAN : BeginNotice(t, attach)
             \/ CallNotice(t) \/ ReturnNotice(t) \/ EndNotice(t)
      PROVE  ListInv' /\ Kept
  BY <1>9, NoticeLists
<1>10. CASE UNCHANGED vars
  <2>1. Asked' /\ Noticed'
    BY <1>10 DEF vars, Asked, Noticed, ListInv
  <2>2. UNCHANGED <<modules, operations, exited, late>>
        /\ \A u \in Threads : /\ Pending(modules, source'[u])
                              /\ source'[u].call = "start" => operations[u] = <<>>
    BY <1>10 DEF vars, ListInv
  <2> QED
    BY <2>1, <2>2, ListSame
<1> QED
  BY <1>1, <1>2, <1>3, <1>4, <1>5, <1>6, <1>7, <1>8, <1>9, <1>10 DEF Next

LEMMA InitLists == Init => ListInv
<1> SUFFICES ASSUME Init PROVE ListInv
  OBVIOUS
<1>1. Listed(modules)
  BY NoModulesListed DEF Init
<1>2. /\ \A t \in Threads : operations[t] = <<>> /\ source[t] = NoRequest
      /\ operations = [t \in Threads |-> operations[t]]
  BY DEF Init
<1>3. AllFit(modules, late, <<>>) /\ <<>> \in Seq(Operations) /\ Len(<<>>) <= MaxOperations
  BY ModulesAssumption DEF AllFit
<1>4. \A t \in Threads : /\ operations[t] \in Seq(Operations)
                         /\ Len(operations[t]) <= MaxOperations
                         /\ AllFit(modules, late, operations[t])
  <2>1. PICK e : e = <<>>
    OBVIOUS
  <2>2. e \in Seq(Operations) /\ Len(e) <= MaxOperations /\ AllFit(modules, late, e)
        /\ \A t \in Threads : operations[t] = e
    BY <1>2, <1>3, <2>1
  <2> QED
    BY <2>2
<1>5. \A t \in Threads : /\ Pending(modules, source[t])
                         /\ source[t].call = "start" => operations[t] = <<>>
  BY <1>2 DEF Pending
<1>6. /\ waiting \in [Threads -> Requests \cup {NoRequest}]
      /\ exited \in BOOLEAN /\ late \in SUBSET Modules
  BY DEF Init
<1>7. /\ notice \in [Threads -> [open : BOOLEAN, calls : Seq(Modules), active : BOOLEAN]]
      /\ \A t \in Threads : notice[t].active => notice[t].calls # <<>>
  <2>1. PICK e, n : e = <<>> /\ n = NoNotice
    OBVIOUS
  <2>2. e \in Seq(Modules) /\ n = [open |-> FALSE, calls |-> e, active |-> FALSE]
    BY <2>1 DEF NoNotice
  <2>3. n \in [open : BOOLEAN, calls : Seq(Modules), active : BOOLEAN] /\ ~n.active
    BY <2>2
  <2>4. notice = [t \in Threads |-> n]
    BY <2>1 DEF Init
  <2> QED
    BY <2>3, <2>4
<1> QED
  BY <1>1, <1>2, <1>4, <1>5, <1>6, <1>7 DEF ListInv

-----------------------------------------------------------------------------
(* What the lists imply. *)

LEMMA ListsTyped == LockInv /\ ListInv => TypeOK
<1> SUFFICES ASSUME LockInv, ListInv PROVE TypeOK
  OBVIOUS
<1>1. modules \in ModuleSet
  BY DEF ListInv, Listed
<1>2. operations \in [Threads -> Seq(Operations)]
      /\ \A t \in Threads : Len(operations[t]) <= MaxOperations
  BY DEF ListInv
<1>3. owner \in Threads \cup {NoThread} /\ depth \in Nat
  <2>1. \A t \in Threads : Levels(t) \in Nat
    BY LevelsAdd DEF LockInv
  <2>2. depth = IF owner = NoThread THEN 0 ELSE Levels(owner)
    BY DEF LockInv, LoaderLockExact
  <2> QED
    BY <2>1, <2>2 DEF LockInv
<1>4. source \in [Threads -> [call : {"load", "image", "export", "start"}, module : Modules]
                              \cup {NoRequest}]
  BY DEF LockInv, Shape, ListInv, Pending
<1> QED
  BY <1>1, <1>2, <1>3, <1>4 DEF TypeOK, ModuleSet, ListInv

LEMMA AllOperationsFit ==
  ASSUME ListInv, NEW t \in Threads, NEW i \in DOMAIN operations[t]
  PROVE  Fits(modules, late, operations[t][i])
<1>1. PICK stack : stack = operations[t]
  OBVIOUS
<1>2. stack \in Seq(Operations) /\ AllFit(modules, late, stack)
  BY <1>1 DEF ListInv
<1>3. i \in 1 .. Len(stack)
  BY <1>1, <1>2
<1> QED
  BY <1>1, <1>2, <1>3 DEF AllFit

LEMMA ListsInitialize == ListInv => InitializersAreLoaded
<1> SUFFICES ASSUME ListInv, NEW t \in Threads, NEW i \in DOMAIN operations[t]
             PROVE  LET op == operations[t][i] IN
                    /\ op.active # NoStep => op.active.module \in modules.loaded
                    /\ \A j \in DOMAIN op.steps : op.steps[j].module \in modules.loaded
  BY DEF InitializersAreLoaded
<1>1. PICK op : op = operations[t][i]
  OBVIOUS
<1>2. Fits(modules, late, op)
  BY <1>1, AllOperationsFit
<1>3. op.steps \in Seq(Steps) /\ DOMAIN op.steps = 1 .. Len(op.steps)
  BY <1>2 DEF Fits, Operations
<1>4. op.active # NoStep => op.active.module \in modules.loaded
  BY <1>2 DEF Fits
<1>5. \A j \in DOMAIN op.steps : op.steps[j].module \in modules.loaded
  <2>1. \A j \in DOMAIN op.steps : op.steps[j].module \in op.ids
    BY <1>2, <1>3 DEF Fits, StepsIn
  <2> QED
    BY <1>2, <2>1 DEF Fits
<1> QED
  BY <1>1, <1>4, <1>5

\* Where a module is in the order of attachment.
LEMMA ListsReverse == ListInv => DetachesInReverse
<1> SUFFICES ASSUME ListInv PROVE DetachesInReverse
  OBVIOUS
<1>1. PICK order : order = modules.attached
  OBVIOUS
<1>2. /\ order \in Seq(Modules) /\ DOMAIN order = 1 .. Len(order) /\ Len(order) \in Nat
      /\ \A i \in 1 .. Len(order) : order[i] \in modules.loaded
      /\ \A i, j \in 1 .. Len(order) : i # j => order[i] # order[j]
  BY <1>1 DEF ListInv, Listed, ModuleSet, Once
<1>3. ASSUME NEW t \in Threads, NEW k \in DOMAIN operations[t],
             NEW i \in DOMAIN operations[t][k].steps, NEW j \in DOMAIN operations[t][k].steps,
             i < j, ~operations[t][k].steps[i].attach, ~operations[t][k].steps[j].attach
      PROVE  (CHOOSE p \in DOMAIN order : order[p] = operations[t][k].steps[i].module)
               >= (CHOOSE p \in DOMAIN order : order[p] = operations[t][k].steps[j].module)
  <2>1. PICK steps : steps = operations[t][k].steps
    OBVIOUS
  <2>2. Fits(modules, late, operations[t][k])
    BY AllOperationsFit
  <2>3. Backwards(steps, order) /\ DOMAIN steps = 1 .. Len(steps)
    BY <1>1, <2>1, <2>2 DEF Fits, Operations
  <2>4. PICK x, y : x = steps[i].module /\ y = steps[j].module
    OBVIOUS
  <2>5. /\ \E p \in DOMAIN order : order[p] = x
        /\ \E p \in DOMAIN order : order[p] = y
        /\ \A p, q \in DOMAIN order : order[p] = x /\ order[q] = y => p >= q
    <3>1. i \in 1 .. Len(steps) /\ j \in 1 .. Len(steps) /\ i < j
          /\ ~steps[i].attach /\ ~steps[j].attach
      BY <1>3, <2>1, <2>3
    <3>2. /\ \E p \in 1 .. Len(order) : order[p] = steps[i].module
          /\ \E p \in 1 .. Len(order) : order[p] = steps[j].module
          /\ \A p, q \in 1 .. Len(order) :
               order[p] = steps[i].module /\ order[q] = steps[j].module => p >= q
      BY ONLY <2>3, <3>1 DEF Backwards
    <3> QED
      BY <1>2, <2>4, <3>2
  <2>6. PICK p, q : /\ p = CHOOSE n \in DOMAIN order : order[n] = x
                    /\ q = CHOOSE n \in DOMAIN order : order[n] = y
    OBVIOUS
  <2>7. p \in DOMAIN order /\ order[p] = x /\ q \in DOMAIN order /\ order[q] = y
    BY <2>5, <2>6
  <2>8. p >= q
    BY <2>5, <2>7
  <2> QED
    BY <2>1, <2>4, <2>6, <2>8
<1> QED
  BY <1>1, <1>2, <1>3 DEF DetachesInReverse

(* Module sets, operations, parked requests, waiting loads and notices have *)
(* their types, whatever is loaded, fails and unloads.                      *)
THEOREM ModulesTyped == Spec => []TypeOK
BY InitLock, InitDep, InitLists, NextKeepsLock, NextKeepsDep, NextKeepsLists, ListsTyped,
   PTL DEF Spec

(* Every initializer that runs, and every call still to come of an operation *)
(* in progress, is in a loaded module: the modules of a nested operation are *)
(* none of the operation below, and no unload takes modules it did not plan. *)
THEOREM InitializersStayLoaded == Spec => []InitializersAreLoaded
BY InitLock, InitDep, InitLists, NextKeepsLock, NextKeepsDep, NextKeepsLists, ListsInitialize,
   PTL DEF Spec

(* A module is attached once, while it is loaded, and the detach calls that  *)
(* unload, exit, and a failed load make go backwards through the order of    *)
(* attachment, whatever was attached since they were planned.                *)
THEOREM DetachesGoBackwards == Spec => []DetachesInReverse
BY InitLock, InitDep, InitLists, NextKeepsLock, NextKeepsDep, NextKeepsLists, ListsReverse,
   PTL DEF Spec

(* A module leaves the process only when no pin and no reference but the one *)
(* its own FreeLibrary releases is left, apart from references taken after   *)
(* its unload was planned.                                                   *)
THEOREM ReferencesAreKept == Spec => ReferencesKeepModules
<1>1. LockInv /\ DepInv /\ ListInv /\ [Next]_vars =>
        [\A m \in Modules : Leaves(m) /\ m \notin late =>
           /\ m \notin modules.pinned
           /\ modules.explicit[m] <= 1
           /\ modules.explicit[m] = 1 => Released(m)]_vars
  BY NextKeepsLists DEF Kept
<1> QED
  BY <1>1, InitLock, InitDep, InitLists, NextKeepsLock, NextKeepsDep, NextKeepsLists,
     PTL DEF Spec, ReferencesKeepModules

=============================================================================
