----------------------- MODULE CriticalSectionsProofs -----------------------
(***************************************************************************)
(* Proofs about CriticalSections: that the copies in guest memory are      *)
(* exact, and that it implements SectionLock.  The layers:                 *)
(*                                                                         *)
(*   - queues: the waiters of a section in the order of their ids (Line);  *)
(*   - what a pass of the dispatcher does to a mutex on which threads wait *)
(*     for this mutex alone (Alone, Passed);                               *)
(*   - the invariant (SecInv): what a section has to itself, who waits for *)
(*     it, and its copy;                                                   *)
(*   - one lemma for every action: it keeps the invariant, and what it     *)
(*     does to the lock of every section;                                  *)
(*   - the dispatcher under critical sections: its properties hold of the  *)
(*     composed specification as well.                                     *)
(*                                                                         *)
(* The invariant IInv of the dispatcher and the lemmas about its calls are *)
(* those of DispatcherProofs.                                              *)
(***************************************************************************)
EXTENDS CriticalSections, DispatcherProofs

-----------------------------------------------------------------------------
(* Queues.                                                                  *)

(* The place of w in the order of the set W of wait ids.                    *)
Place(w, W) == Cardinality({v \in W : v <= w})

(* The threads of the waits W of the table V, oldest first.                 *)
Line(W, V) == [i \in 1 .. Cardinality(W) |-> V[CHOOSE w \in W : Place(w, W) = i].thread]

(* The sequence q without the element at place k.                          *)
Without(q, k) == [i \in 1 .. Len(q) - 1 |-> q[IF i < k THEN i ELSE i + 1]]

(* Places are different, grow with the ids, and leave no gap.              *)
LEMMA Places ==
    ASSUME NEW W \in SUBSET Nat, IsFiniteSet(W)
    PROVE  /\ Cardinality(W) \in Nat
           /\ \A w \in W : Place(w, W) \in 1 .. Cardinality(W)
           /\ \A v, w \in W : v < w => Place(v, W) < Place(w, W)
           /\ \A v, w \in W : Place(v, W) = Place(w, W) => v = w
           /\ \A i \in 1 .. Cardinality(W) : \E w \in W : Place(w, W) = i
<1>0. \A w \in W : w \in Nat
  OBVIOUS
<1>1. Cardinality(W) \in Nat
  BY FS_CardinalityType
<1>2. ASSUME NEW w \in W
      PROVE  /\ IsFiniteSet({v \in W : v <= w}) /\ Place(w, W) \in 1 .. Cardinality(W)
  <2>1. PICK G \in SUBSET W : G = {v \in W : v <= w}
    OBVIOUS
  <2>2. w \in G
    BY <2>1
  <2>3. IsFiniteSet(G) /\ Cardinality(G) <= Cardinality(W) /\ Cardinality(G) \in Nat
    BY FS_Subset, FS_CardinalityType
  <2>4. Cardinality(G) # 0
    BY <2>2, <2>3, FS_EmptySet
  <2> QED  BY <1>1, <2>1, <2>3, <2>4 DEF Place
<1>3. ASSUME NEW v \in W, NEW w \in W, v < w PROVE Place(v, W) < Place(w, W)
  <2>1. PICK G \in SUBSET W : G = {x \in W : x <= v}
    OBVIOUS
  <2>2. PICK K \in SUBSET W : K = {x \in W : x <= w}
    OBVIOUS
  <2>3. G \in SUBSET K /\ w \in K /\ w \notin G
    <3>1. v \in Nat /\ w \in Nat /\ v < w
      BY <1>0, <1>3
    <3>2. \A x \in Nat : x <= v => x <= w
      BY ONLY <3>1
    <3>3. w <= w /\ ~(w <= v)
      BY ONLY <3>1
    <3>4. \A x \in G : x \in W /\ x \in Nat /\ x <= v
      BY <1>0, <2>1
    <3>5. \A x \in G : x \in K
      BY ONLY <2>2, <3>2, <3>4
    <3> QED  BY <2>1, <2>2, <3>3, <3>5
  <2>4. IsFiniteSet(K)
    BY <1>2, <2>2
  <2>5. Cardinality(G) <= Cardinality(K) /\ Cardinality(G) # Cardinality(K)
    BY <2>3, <2>4, FS_Subset
  <2>6. Place(v, W) = Cardinality(G) /\ Place(w, W) = Cardinality(K)
    BY <2>1, <2>2 DEF Place
  <2>7. Cardinality(G) \in Nat /\ Cardinality(K) \in Nat
    BY <2>3, <2>4, FS_Subset, FS_CardinalityType
  <2> QED  BY <2>5, <2>6, <2>7
<1>4. ASSUME NEW v \in W, NEW w \in W, Place(v, W) = Place(w, W) PROVE v = w
  <2>1. Place(v, W) \in 1 .. Cardinality(W)
    BY <1>2
  <2>2. ~(Place(v, W) < Place(v, W))
    BY ONLY <1>1, <2>1
  <2>3. ~(v < w) /\ ~(w < v)
    BY <1>3, <1>4, <2>2
  <2>4. v \in Nat /\ w \in Nat
    BY <1>0
  <2> QED  BY ONLY <2>3, <2>4
<1>5. ASSUME NEW i \in 1 .. Cardinality(W) PROVE \E w \in W : Place(w, W) = i
  <2> DEFINE T == 1 .. Cardinality(W)
             f == [w \in W |-> Place(w, W)]
  <2>1. f \in Injection(W, T)
    <3>1. f \in [W -> T]
      BY <1>2
    <3>2. \A v, w \in W : f[v] = f[w] => v = w
      BY <1>4
    <3> HIDE DEF f, T
    <3> QED  BY <3>1, <3>2 DEF Injection, IsInjective
  <2>2. IsFiniteSet(T) /\ Cardinality(T) = Cardinality(W)
    BY <1>1, FS_Interval
  <2>3. f \in Surjection(W, T)
    <3> HIDE DEF f, T
    <3> QED  BY <2>1, <2>2, FS_Injection
  <2>4. \E w \in W : f[w] = i
    <3>1. i \in T
      OBVIOUS
    <3> HIDE DEF f, T
    <3> QED  BY <2>3, <3>1 DEF Surjection
  <2> QED  BY <2>4
<1> QED  BY <1>1, <1>2, <1>3, <1>4, <1>5

(* The thread of every wait is in the line, at the place of the wait.      *)
LEMMA LineParts ==
    ASSUME NEW W \in SUBSET Nat, IsFiniteSet(W), NEW V
    PROVE  /\ Cardinality(W) \in Nat /\ DOMAIN Line(W, V) = 1 .. Cardinality(W)
           /\ Len(Line(W, V)) = Cardinality(W)
           /\ Line(W, V) = [i \in 1 .. Cardinality(W) |-> Line(W, V)[i]]
           /\ \A w \in W : Line(W, V)[Place(w, W)] = V[w].thread
           /\ \A i \in 1 .. Cardinality(W) : \E w \in W : Place(w, W) = i
<1>1. ASSUME NEW w \in W PROVE Line(W, V)[Place(w, W)] = V[w].thread
  <2>1. PICK i : i = Place(w, W)
    OBVIOUS
  <2>2. i \in 1 .. Cardinality(W)
    BY <2>1, Places
  <2>3. w = CHOOSE v \in W : Place(v, W) = i
    BY <2>1, Places
  <2> QED  BY <2>1, <2>2, <2>3 DEF Line
<1>2. /\ Cardinality(W) \in Nat
      /\ \A i \in 1 .. Cardinality(W) : \E w \in W : Place(w, W) = i
  BY Places
<1>3. DOMAIN Line(W, V) = 1 .. Cardinality(W)
  BY DEF Line
<1>4. Line(W, V) = [i \in 1 .. Cardinality(W) |-> Line(W, V)[i]]
  BY DEF Line
<1> QED  BY <1>1, <1>2, <1>3, <1>4

(* Two lines are the same when the waits are and their threads are.        *)
LEMMA LineSame ==
    ASSUME NEW W \in SUBSET Nat, IsFiniteSet(W), NEW V, NEW U,
           \A w \in W : U[w].thread = V[w].thread
    PROVE  Line(W, U) = Line(W, V)
<1>1. ASSUME NEW i \in 1 .. Cardinality(W) PROVE Line(W, U)[i] = Line(W, V)[i]
  <2>1. PICK w \in W : Place(w, W) = i
    BY LineParts
  <2> QED  BY <2>1, LineParts
<1> QED  BY <1>1, LineParts

(* The wait n joins the waits W at the end of the line.                    *)
Joins(W, n, V, U) == Line(W \cup {n}, U) = Append(Line(W, V), U[n].thread)

(* A wait that is younger than the others goes to the end.                 *)
LEMMA LineAppend ==
    ASSUME NEW W \in SUBSET Nat, IsFiniteSet(W), NEW n \in Nat, \A w \in W : w < n,
           NEW V, NEW U, \A w \in W : U[w].thread = V[w].thread
    PROVE  Joins(W, n, V, U)
<1> DEFINE X == W \cup {n}
<1>0. n \notin W /\ \A w \in W : w \in Nat /\ w < n
  OBVIOUS
<1>1. X \in SUBSET Nat /\ IsFiniteSet(X)
      /\ Cardinality(X) = Cardinality(W) + 1 /\ Cardinality(W) \in Nat
  BY <1>0, FS_AddElement, LineParts
<1>2. ASSUME NEW w \in W PROVE Place(w, X) = Place(w, W) /\ Place(w, W) \in 1 .. Cardinality(W)
  <2>1. {v \in X : v <= w} = {v \in W : v <= w}
    <3>1. w \in Nat /\ w < n
      BY <1>0
    <3>2. ~(n <= w)
      BY ONLY <3>1, n \in Nat
    <3> QED  BY <3>2
  <2> HIDE DEF X
  <2> QED  BY <2>1, Places DEF Place
<1>3. Place(n, X) = Cardinality(W) + 1
  <2>1. {v \in X : v <= n} = X
    <3>1. \A w \in W : w <= n
      BY <1>0
    <3>2. n <= n
      OBVIOUS
    <3> QED  BY <3>1, <3>2
  <2> HIDE DEF X
  <2> QED  BY <1>1, <2>1 DEF Place
<1>4. n \in X /\ \A w \in W : w \in X
  OBVIOUS
<1> HIDE DEF X
<1>5. PICK q : q = Line(W, V)
  OBVIOUS
<1>6. /\ Len(q) = Cardinality(W) /\ DOMAIN q = 1 .. Cardinality(W)
      /\ q = [i \in 1 .. Cardinality(W) |-> q[i]]
      /\ \A w \in W : q[Place(w, W)] = V[w].thread
  BY <1>5, LineParts
<1>7. PICK r : r = Line(X, U)
  OBVIOUS
<1>8. /\ r = [i \in 1 .. Cardinality(X) |-> r[i]]
      /\ \A w \in X : r[Place(w, X)] = U[w].thread
  BY <1>1, <1>7, LineParts
<1>9. r[Cardinality(W) + 1] = U[n].thread
  BY <1>3, <1>4, <1>8
<1>10. \A i \in 1 .. Cardinality(W) : r[i] = q[i]
  <2>1. ASSUME NEW i \in 1 .. Cardinality(W) PROVE r[i] = q[i]
    <3>1. PICK w \in W : Place(w, W) = i
      BY LineParts
    <3> QED  BY <1>2, <1>4, <1>6, <1>8, <3>1
  <2> QED  BY <2>1
<1>11. Append(q, U[n].thread) =
          [i \in 1 .. Cardinality(W) + 1 |-> IF i = Cardinality(W) + 1 THEN U[n].thread ELSE q[i]]
  BY <1>1, <1>6
<1>12. r = Append(q, U[n].thread)
  <2>1. r = [i \in 1 .. Cardinality(W) + 1 |-> r[i]]
    BY <1>1, <1>8
  <2>2. \A i \in 1 .. Cardinality(W) + 1 : i # Cardinality(W) + 1 => i \in 1 .. Cardinality(W)
    BY <1>1
  <2>3. \A i \in 1 .. Cardinality(W) + 1 :
           r[i] = IF i = Cardinality(W) + 1 THEN U[n].thread ELSE q[i]
    BY <1>9, <1>10, <2>2
  <2> QED  BY <1>11, <2>1, <2>3
<1>13. Line(W \cup {n}, U) = Append(Line(W, V), U[n].thread)
  BY <1>5, <1>7, <1>12 DEF X
<1> QED  BY <1>13 DEF Joins

(* A wait that is over leaves the line; the others close up.               *)
LEMMA LineWithout ==
    ASSUME NEW W \in SUBSET Nat, IsFiniteSet(W), NEW w \in W,
           NEW V, NEW U, \A v \in W \ {w} : U[v].thread = V[v].thread
    PROVE  /\ Cardinality(W \ {w}) = Cardinality(W) - 1 /\ Cardinality(W) \in Nat \ {0}
           /\ Line(W \ {w}, U) = Without(Line(W, V), Place(w, W))
<1> DEFINE X == W \ {w}
<1>0. \A v \in W : v \in Nat
  OBVIOUS
<1>1. /\ X \in SUBSET Nat /\ IsFiniteSet(X) /\ Cardinality(X) = Cardinality(W) - 1
      /\ Cardinality(W) \in Nat \ {0} /\ Cardinality(X) \in Nat
  <2>1. IsFiniteSet(X) /\ Cardinality(X) = Cardinality(W) - 1
    BY FS_RemoveElement
  <2>2. Cardinality(W) \in Nat /\ Cardinality(X) \in Nat
    BY <2>1, FS_CardinalityType
  <2>3. X \in SUBSET Nat
    BY <1>0
  <2> HIDE DEF X
  <2>4. Cardinality(W) # 0
    BY ONLY <2>1, <2>2
  <2> QED  BY ONLY <2>1, <2>2, <2>3, <2>4
<1>2. ASSUME NEW v \in X, v < w PROVE Place(v, X) = Place(v, W)
  <2>1. {x \in X : x <= v} = {x \in W : x <= v}
    <3>1. v \in Nat /\ w \in Nat
      BY <1>0
    <3>2. ~(w <= v)
      BY ONLY <3>1, <1>2
    <3> QED  BY <3>2
  <2> HIDE DEF X
  <2> QED  BY <2>1 DEF Place
<1>3. ASSUME NEW v \in X, w < v PROVE Place(v, W) = Place(v, X) + 1
  <2>1. {x \in X : x <= v} = {x \in W : x <= v} \ {w} /\ w \in {x \in W : x <= v}
    BY <1>0, <1>3
  <2>2. PICK G \in SUBSET W : G = {x \in W : x <= v}
    OBVIOUS
  <2>3. IsFiniteSet(G) /\ Cardinality(G) \in Nat
    BY FS_Subset, FS_CardinalityType
  <2>4. Cardinality(G \ {w}) = Cardinality(G) - 1
    BY <2>1, <2>2, <2>3, FS_RemoveElement
  <2> HIDE DEF X
  <2>5. Place(v, W) = Cardinality(G) /\ Place(v, X) = Cardinality(G \ {w})
    BY <2>1, <2>2 DEF Place
  <2> QED  BY ONLY <2>3, <2>4, <2>5
<1>4. ASSUME NEW v \in X
      PROVE  v \in W /\ v # w /\ (v < w \/ w < v) /\ U[v].thread = V[v].thread
  <2>1. v \in Nat /\ w \in Nat /\ v # w
    BY <1>0
  <2>2. v < w \/ w < v
    BY ONLY <2>1
  <2> QED  BY <2>1, <2>2
<1> HIDE DEF X
<1>5. ASSUME NEW i \in 1 .. Cardinality(X)
      PROVE  Line(X, U)[i] = Line(W, V)[IF i < Place(w, W) THEN i ELSE i + 1]
  <2>1. PICK v \in X : Place(v, X) = i
    BY <1>1, LineParts
  <2>2. /\ Line(X, U)[i] = V[v].thread /\ Line(W, V)[Place(v, W)] = V[v].thread
        /\ v \in W /\ Place(w, W) \in Nat /\ Place(v, W) \in Nat
    BY <1>1, <1>4, <2>1, LineParts, Places
  <2>3. CASE v < w
    <3>1. Place(v, W) = i /\ i < Place(w, W)
      BY <1>2, <2>1, <2>2, <2>3, Places
    <3> QED  BY <2>2, <3>1
  <2>4. CASE w < v
    <3>1. Place(v, W) = i + 1 /\ Place(w, W) < i + 1
      BY <1>3, <2>1, <2>2, <2>4, Places
    <3>2. ~(i < Place(w, W))
      BY <2>2, <3>1
    <3> QED  BY <2>2, <3>1, <3>2
  <2> QED  BY <1>4, <2>3, <2>4
<1>6. /\ Line(X, U) = [i \in 1 .. Cardinality(X) |-> Line(X, U)[i]]
      /\ Len(Line(W, V)) - 1 = Cardinality(X)
  BY <1>1, LineParts
<1>7. Line(X, U) = Without(Line(W, V), Place(w, W))
  BY <1>5, <1>6 DEF Without
<1> QED  BY <1>1, <1>7 DEF X

(* The wait w is the first of the waits W, and the others follow it.       *)
Leads(W, w, V, U) ==
    /\ Line(W, V) # <<>> /\ Head(Line(W, V)) = V[w].thread
    /\ Line(W \ {w}, U) = Tail(Line(W, V))

(* The oldest wait is the first in the line.                               *)
LEMMA LineTail ==
    ASSUME NEW W \in SUBSET Nat, IsFiniteSet(W), NEW w \in W, \A v \in W : w <= v,
           NEW V, NEW U, \A v \in W \ {w} : U[v].thread = V[v].thread
    PROVE  Leads(W, w, V, U)
<1>1. Place(w, W) = 1
  <2>1. ASSUME NEW v \in W PROVE v <= w <=> v = w
    <3>1. v \in Nat /\ w \in Nat /\ w <= v
      OBVIOUS
    <3> QED  BY ONLY <3>1
  <2>2. {v \in W : v <= w} = {w}
    BY <2>1
  <2> QED  BY <2>2, FS_Singleton DEF Place
<1>2. PICK q : q = Line(W, V)
  OBVIOUS
<1>3. PICK n : n = Cardinality(W)
  OBVIOUS
<1>4. /\ Len(q) = n /\ DOMAIN q = 1 .. n
      /\ q = [i \in 1 .. n |-> q[i]] /\ q[1] = V[w].thread
  BY <1>1, <1>2, <1>3, LineParts
<1>5. n \in Nat \ {0}
  BY <1>3, LineWithout
<1>6. Tail(q) = [i \in 1 .. n - 1 |-> q[i + 1]]
  BY ONLY <1>4, <1>5 DEF Tail
<1>7. Line(W \ {w}, U) = Tail(q)
  <2>1. Line(W \ {w}, U) = Without(q, 1)
    BY <1>1, <1>2, LineWithout
  <2>2. Without(q, 1) = [i \in 1 .. n - 1 |-> q[IF i < 1 THEN i ELSE i + 1]]
    BY <1>4 DEF Without
  <2>3. \A i \in 1 .. n - 1 : ~(i < 1)
    BY <1>5
  <2> QED  BY <1>6, <2>1, <2>2, <2>3
<1>8. q # <<>> /\ Head(q) = V[w].thread
  BY <1>4, <1>5 DEF Head
<1> QED  BY <1>2, <1>7, <1>8 DEF Leads

(* The line without the thread of one wait, and without a thread that does *)
(* not wait.                                                               *)
LEMMA LineOthers ==
    ASSUME NEW W \in SUBSET Nat, IsFiniteSet(W), NEW V, NEW t
    PROVE  /\ (\A v \in W : V[v].thread # t) => Lock!Others(t, Line(W, V)) = Line(W, V)
           /\ \A w \in W : \A U :
                 /\ V[w].thread = t
                 /\ \A v \in W \ {w} : V[v].thread # t /\ U[v].thread = V[v].thread
                 => Lock!Others(t, Line(W, V)) = Line(W \ {w}, U)
<1>1. PICK q : q = Line(W, V)
  OBVIOUS
<1>2. /\ DOMAIN q = 1 .. Cardinality(W)
      /\ \A w \in W : q[Place(w, W)] = V[w].thread
      /\ \A i \in 1 .. Cardinality(W) : \E w \in W : Place(w, W) = i
  BY <1>1, LineParts
<1>3. PICK at : at = {i \in DOMAIN q : q[i] = t}
  OBVIOUS
<1>4. ASSUME \A v \in W : V[v].thread # t PROVE Lock!Others(t, q) = q
  <2>1. at = {}
    BY <1>2, <1>3, <1>4
  <2> QED  BY <1>3, <2>1 DEF Lock!Others
<1>5. ASSUME NEW w \in W, NEW U, V[w].thread = t,
             \A v \in W \ {w} : V[v].thread # t /\ U[v].thread = V[v].thread
      PROVE  Lock!Others(t, q) = Line(W \ {w}, U)
  <2>1. PICK k : k = Place(w, W)
    OBVIOUS
  <2>2. k \in DOMAIN q /\ q[k] = t
    BY <1>2, <1>5, <2>1, Places
  <2>3. ASSUME NEW i \in DOMAIN q, q[i] = t PROVE i = k
    <3>1. PICK v \in W : Place(v, W) = i
      BY <1>2
    <3>2. V[v].thread = t
      BY <1>2, <2>3, <3>1
    <3> QED  BY <1>5, <2>1, <3>1, <3>2
  <2>4. at = {k}
    BY <1>3, <2>2, <2>3
  <2>5. (CHOOSE i \in at : TRUE) = k /\ at # {}
    BY <2>4
  <2>6. Lock!Others(t, q) = Without(q, k)
    BY <1>3, <2>5 DEF Lock!Others, Without
  <2>7. Line(W \ {w}, U) = Without(q, k)
    BY <1>1, <1>5, <2>1, LineWithout
  <2> QED  BY <2>6, <2>7
<1> QED  BY <1>1, <1>4, <1>5

-----------------------------------------------------------------------------
(* The pass.                                                                *)

(* The undecided waits of the table W that name slot s.                     *)
Waiting(s, W) == {w \in DOMAIN W : /\ W[w].result = Pending
                                   /\ \E i \in DOMAIN W[w].slots : W[w].slots[i] = s}

(* A wait for slot s and nothing else, for ever.                            *)
WaitsFor(w, s) ==
    w.slots = <<s>> /\ w.mode = "any" /\ w.deadline = Never /\ w.alertable = FALSE

(* The mutex o of slot s is awaited by threads that wait for nothing else,  *)
(* by each of them once, and not by its owner.                              *)
Alone(o, s, W) ==
    /\ o.type = "mutex"
    /\ \A w \in Waiting(s, W) : /\ WaitsFor(W[w], s)
                                /\ W[w].thread \in Threads /\ W[w].thread # o.owner
    /\ \A v, w \in Waiting(s, W) : W[v].thread = W[w].thread => v = w

(* The object and the waits of slot s are in q what they are in p.          *)
Passed(p, q, s) ==
    /\ q.objects[s] = p.objects[s]
    /\ \A k \in Waiting(s, p.waits) : q.waits[k].result = Pending

(* The wait w, the oldest for slot s, is granted and the others are not.    *)
Handed(p, q, s, w) ==
    /\ p.objects[s].owner = NoThread
    /\ w \in Waiting(s, p.waits) /\ \A k \in Waiting(s, p.waits) : w <= k
    /\ q.objects[s].type = "mutex"
    /\ q.objects[s].owner = p.waits[w].thread
    /\ q.objects[s].depth = p.objects[s].depth + 1
    /\ q.waits[w].result # Pending
    /\ \A k \in Waiting(s, p.waits) \ {w} : q.waits[k].result = Pending

(* What a wait for one slot alone is satisfied by, and takes.               *)
LEMMA WaitsForOne ==
    ASSUME NEW D, NEW p \in Plans(D), NEW w \in WaitRecord, NEW s \in Slots, WaitsFor(w, s),
           p.objects[s].type = "mutex"
    PROVE  /\ ~Expired(w, now) /\ \A t : ~Expired(w, t)
           /\ Satisfied(p, w) <=> p.objects[s].owner \in {NoThread, w.thread}
           /\ Satisfied(p, w) => s \in Taken(p, w)
<1>1. w.slots = <<s>> /\ w.mode = "any" /\ w.deadline = Never
  BY DEF WaitsFor
<1>2. DOMAIN w.slots = {1} /\ w.slots[1] = s
  BY <1>1
<1>3. Ready(p, s, w.thread) <=> p.objects[s].owner \in {NoThread, w.thread}
  BY DEF Ready
<1>4. Satisfied(p, w) <=> Ready(p, s, w.thread)
  BY <1>1, <1>2 DEF Satisfied
<1>5. ASSUME Satisfied(p, w) PROVE s \in Taken(p, w)
  <2>1. Taken(p, w) = {w.slots[i] : i \in {FirstReady(p, w)}}
    BY <1>1 DEF Taken, Selected
  <2>2. FirstReady(p, w) \in DOMAIN w.slots
    BY <1>1, <1>5, FirstReadyIsReady
  <2> QED  BY <1>2, <2>1, <2>2
<1> QED  BY <1>1, <1>3, <1>4, <1>5 DEF Expired

(* The decision of a wait that names slot s.                                *)
LEMMA DecideWaiter ==
    ASSUME NEW D, NEW p \in Plans(D), NEW id \in D, NEW s \in Slots, NEW t,
           p.objects[s].type = "mutex", p.waits[id].result = Pending, WaitsFor(p.waits[id], s),
           Fits(p.waits[id]),
           NEW q, q = ResolveOne(p, id, t)
    PROVE  /\ p.objects[s].owner \notin {NoThread, p.waits[id].thread} => q = p
           /\ p.objects[s].owner \in {NoThread, p.waits[id].thread} =>
                 /\ q.objects[s].type = "mutex"
                 /\ q.objects[s].owner = p.waits[id].thread
                 /\ q.objects[s].depth = p.objects[s].depth + 1
                 /\ q.waits[id].result # Pending
                 /\ \A k \in D \ {id} : q.waits[k] = p.waits[k]
<1> PICK w : w = p.waits[id]
  OBVIOUS
<1>1. w \in WaitRecord /\ id \in DOMAIN p.waits /\ WaitsFor(w, s) /\ Fits(w)
  BY PlanParts
<1>2. /\ ~Expired(w, t)
      /\ Satisfied(p, w) <=> p.objects[s].owner \in {NoThread, w.thread}
      /\ Satisfied(p, w) => s \in Taken(p, w)
  BY <1>1, WaitsForOne
<1>3. /\ Satisfied(p, w) => q = Complete(TakeObjects(p, w), id, GrantResult(p, w))
      /\ ~Satisfied(p, w) => q = p
  <2>1. w.result = Pending
    OBVIOUS
  <2>2. CASE Satisfied(p, w)
    BY <1>1, <1>2, <2>1, <2>2 DEF ResolveOne
  <2>3. CASE ~Satisfied(p, w)
    BY <1>1, <1>2, <2>1, <2>3 DEF ResolveOne
  <2> QED  BY <2>2, <2>3
<1>4. ASSUME Satisfied(p, w)
      PROVE  /\ q.objects[s].type = "mutex"
             /\ q.objects[s].owner = w.thread
             /\ q.objects[s].depth = p.objects[s].depth + 1
             /\ q.waits[id].result # Pending
             /\ \A k \in D \ {id} : q.waits[k] = p.waits[k]
  <2> PICK r : r = TakeObjects(p, w)
    OBVIOUS
  <2> PICK g : g = GrantResult(p, w)
    OBVIOUS
  <2>1. r \in Plans(D) /\ r.waits = p.waits
    BY <1>1, <1>4, TakeParts
  <2>2. g \in Results \ {Pending}
    BY <1>1, <1>4, GrantIsResult, AnswersAreResults
  <2>3. q = Complete(r, id, g)
    BY <1>3, <1>4
  <2>4. /\ q.objects = r.objects /\ q.waits[id].result = g
        /\ \A k \in D \ {id} : q.waits[k] = r.waits[k]
    BY <2>1, <2>2, <2>3, CompleteParts
  <2>5. /\ r.objects[s].type = "mutex" /\ r.objects[s].owner = w.thread
        /\ r.objects[s].depth = p.objects[s].depth + 1
    <3>1. s \in Taken(p, w)
      BY <1>2, <1>4
    <3>2. /\ TakeObjects(p, w).objects[s].type = p.objects[s].type
          /\ p.objects[s].type = "mutex" =>
                /\ TakeObjects(p, w).objects[s].owner = w.thread
                /\ TakeObjects(p, w).objects[s].depth = p.objects[s].depth + 1
      BY ONLY <1>1, <1>4, <3>1, TakenObject, ZenonT(60), p \in Plans(D)
    <3> QED  BY <3>2
  <2> QED  BY <2>1, <2>2, <2>4, <2>5
<1>5. CASE Satisfied(p, w)
  BY <1>2, <1>4, <1>5
<1>6. CASE ~Satisfied(p, w)
  BY <1>2, <1>3, <1>6
<1> QED  BY <1>5, <1>6

(* A wait takes only slots that it names.                                   *)
LEMMA TakenNamed ==
    ASSUME NEW p, NEW w \in WaitRecord, Satisfied(p, w), NEW s,
           \A i \in DOMAIN w.slots : w.slots[i] # s
    PROVE  s \notin Taken(p, w)
<1>1. \A i \in Selected(p, w) : i \in DOMAIN w.slots
  <2>1. w.mode # "all" => FirstReady(p, w) \in DOMAIN w.slots
    BY FirstReadyIsReady, WaitParts DEF Satisfied
  <2> QED  BY <2>1 DEF Selected
<1> QED  BY <1>1 DEF Taken

(* The decision of a wait that does not name slot s.                        *)
LEMMA DecideOther ==
    ASSUME NEW D, NEW p \in Plans(D), NEW id, NEW s \in Slots, NEW t,
           \A k \in D : Fits(p.waits[k]), id \notin Waiting(s, p.waits)
    PROVE  Passed(p, ResolveOne(p, id, t), s)
<1> PICK q : q = ResolveOne(p, id, t)
  OBVIOUS
<1>1. DOMAIN p.waits = D /\ \A k \in D : p.waits[k] \in WaitRecord
  BY PlanParts
<1>2. \A k \in Waiting(s, p.waits) : k \in D /\ k # id /\ p.waits[k].result = Pending
  BY <1>1 DEF Waiting
<1>3. CASE q = p
  BY <1>2, <1>3 DEF Passed
<1>4. ASSUME id \in D, NEW r \in Results, q = Complete(p, id, r)
      PROVE  Passed(p, q, s)
  <2>1. q.objects = p.objects /\ \A k \in D \ {id} : q.waits[k] = p.waits[k]
    BY <1>4, CompleteParts
  <2> QED  BY <1>2, <2>1 DEF Passed
<1>5. ASSUME id \in D, p.waits[id].result = Pending, Satisfied(p, p.waits[id]),
             NEW r \in Results, q = Complete(TakeObjects(p, p.waits[id]), id, r)
      PROVE  Passed(p, q, s)
  <2> PICK w : w = p.waits[id]
    OBVIOUS
  <2> PICK g : g = TakeObjects(p, w)
    OBVIOUS
  <2>0. w \in WaitRecord /\ Satisfied(p, w)
    BY <1>1, <1>5
  <2>1. /\ g \in Plans(D) /\ g.waits = p.waits
        /\ s \notin Taken(p, w) => g.objects[s] = p.objects[s]
    BY <2>0, TakeParts
  <2>2. s \notin Taken(p, w)
    <3>1. \A i \in DOMAIN w.slots : w.slots[i] # s
      BY <1>1, <1>5 DEF Waiting
    <3> QED  BY <2>0, <3>1, TakenNamed
  <2>3. q = Complete(g, id, r)
    BY <1>5
  <2>4. q.objects = g.objects /\ \A k \in D \ {id} : q.waits[k] = g.waits[k]
    BY <1>5, <2>1, <2>3, CompleteParts
  <2> QED  BY <1>2, <2>1, <2>2, <2>4 DEF Passed
<1> QED  BY <1>3, <1>4, <1>5, ResolveOneCases

(* What the pass has made of slot s when it has looked at wait id.          *)
Reached(p, q, s, id) ==
    \/ /\ Passed(p, q, s)
       /\ p.objects[s].owner = NoThread => \A k \in Waiting(s, p.waits) : id < k
    \/ \E w \in Waiting(s, p.waits) : Handed(p, q, s, w)

(* The waits that name slot s are found among those that did before.        *)
LEMMA WaitingResolved ==
    ASSUME NEW D, NEW p, NEW q, p \in Plans(D), Resolved(p, q, D), NEW s, NEW k
    PROVE  /\ k \in Waiting(s, q.waits) => k \in Waiting(s, p.waits)
           /\ k \in Waiting(s, p.waits) /\ q.waits[k].result = Pending
                  => k \in Waiting(s, q.waits)
           /\ k \in Waiting(s, p.waits) => k \in D /\ q.waits[k].slots = p.waits[k].slots
<1>1. q \in Plans(D) /\ DOMAIN p.waits = D /\ DOMAIN q.waits = D
  BY PlanParts DEF Resolved
<1>2. ASSUME k \in D
      PROVE  /\ q.waits[k].slots = p.waits[k].slots
             /\ q.waits[k].result = Pending => p.waits[k].result = Pending
  BY <1>2 DEF Resolved, SameWait, Decides, Pending
<1> QED  BY <1>1, <1>2 DEF Waiting

(* One decision.                                                            *)
LEMMA PassOneAlone ==
    ASSUME NEW D, D \subseteq Nat, NEW p \in Plans(D), NEW s \in Slots,
           Alone(p.objects[s], s, p.waits),
           NEW q, Resolved(p, q, D), \A k \in D : Fits(q.waits[k]),
           NEW id \in Nat \ {0}, NEW t, Reached(p, q, s, id - 1),
           Resolved(q, ResolveOne(q, id, t), D)
    PROVE  Reached(p, ResolveOne(q, id, t), s, id)
<1> PICK M : M = Waiting(s, p.waits)
  OBVIOUS
<1> PICK r : r = ResolveOne(q, id, t)
  OBVIOUS
<1>1. q \in Plans(D) /\ M \subseteq D
  BY WaitingResolved DEF Resolved
<1>2. ASSUME NEW k \in M
      PROVE  /\ k \in Nat
             /\ WaitsFor(p.waits[k], s) /\ p.waits[k].thread \in Threads
             /\ p.waits[k].thread # NoThread /\ p.waits[k].thread # p.objects[s].owner
             /\ q.waits[k].thread = p.waits[k].thread
             /\ WaitsFor(q.waits[k], s) /\ Fits(q.waits[k])
  <2>1. k \in D /\ SameWait(p.waits[k], q.waits[k])
    BY <1>1 DEF Resolved
  <2>2. WaitsFor(p.waits[k], s) /\ p.waits[k].thread \in Threads
        /\ p.waits[k].thread # p.objects[s].owner
    BY DEF Alone
  <2> QED  BY <2>1, <2>2, NoThreadAssumption DEF SameWait, WaitsFor
<1>3. CASE id \notin Waiting(s, q.waits)
  <2>1. /\ r.objects[s] = q.objects[s]
        /\ \A k \in Waiting(s, q.waits) : r.waits[k].result = Pending
    <3>1. \A k \in D : Fits(q.waits[k])
      OBVIOUS
    <3>2. Passed(q, r, s)
      BY <1>1, <1>3, <3>1, DecideOther
    <3> QED  BY <3>2 DEF Passed
  <2>2. \A k \in M : q.waits[k].result = Pending => r.waits[k].result = Pending
    BY <2>1, WaitingResolved
  <2>3. CASE Passed(p, q, s) /\ (p.objects[s].owner = NoThread => \A k \in M : id - 1 < k)
    <3>1. Passed(p, r, s)
      BY <2>1, <2>2, <2>3 DEF Passed
    <3>2. id \notin M
      BY <1>3, <2>3, WaitingResolved DEF Passed
    <3>3. \A k \in M : id - 1 < k => id < k
      <4>1. \A k \in M : k \in Nat /\ k # id
        BY <1>2, <3>2
      <4> QED  BY ONLY <4>1, id \in Nat \ {0}
    <3> QED  BY <2>3, <3>1, <3>3 DEF Reached
  <2>4. ASSUME NEW w \in M, Handed(p, q, s, w) PROVE Handed(p, r, s, w)
    <3>1. q.waits[w].result # Pending /\ w \in D
      BY <1>1, <2>4 DEF Handed
    <3>2. r.waits[w].result # Pending
      <4>1. Resolved(q, r, D)
        OBVIOUS
      <4> QED  BY <3>1, <4>1 DEF Resolved, Decides
    <3> QED  BY <2>1, <2>2, <2>4, <3>2 DEF Handed
  <2> QED  BY <2>3, <2>4 DEF Reached
<1>4. CASE id \in Waiting(s, q.waits)
  <2>1. id \in M /\ id \in D /\ q.waits[id].result = Pending
    BY <1>1, <1>4, WaitingResolved DEF Waiting
  <2>2. CASE Passed(p, q, s) /\ p.objects[s].owner = NoThread /\ \A k \in M : id - 1 < k
    <3>1. /\ q.objects[s] = p.objects[s] /\ q.objects[s].type = "mutex"
          /\ \A k \in M : q.waits[k].result = Pending
      BY <2>2 DEF Passed, Alone
    <3>2. /\ r.objects[s].type = "mutex" /\ r.objects[s].owner = q.waits[id].thread
          /\ r.objects[s].depth = q.objects[s].depth + 1 /\ r.waits[id].result # Pending
          /\ \A k \in D \ {id} : r.waits[k] = q.waits[k]
      BY <1>1, <1>2, <2>1, <2>2, <3>1, DecideWaiter
    <3>3. \A k \in M : id <= k
      <4>1. \A k \in M : k \in Nat /\ id - 1 < k
        BY <1>2, <2>2
      <4> QED  BY ONLY <4>1, id \in Nat \ {0}
    <3>4. \A k \in M \ {id} : r.waits[k].result = Pending
      BY <1>1, <3>1, <3>2
    <3>5. Handed(p, r, s, id)
      BY <1>2, <2>1, <2>2, <3>1, <3>2, <3>3, <3>4 DEF Handed
    <3> QED  BY <2>1, <3>5 DEF Reached
  <2>3. CASE Passed(p, q, s) /\ p.objects[s].owner # NoThread
    <3>1. q.objects[s] = p.objects[s] /\ q.objects[s].type = "mutex"
      BY <2>3 DEF Passed, Alone
    <3>2. q.objects[s].owner \notin {NoThread, q.waits[id].thread}
      BY <1>2, <2>1, <2>3, <3>1
    <3>3. r = q
      BY <1>1, <1>2, <2>1, <3>1, <3>2, DecideWaiter
    <3> QED  BY <2>3, <3>3 DEF Reached
  <2>4. ASSUME NEW w \in M, Handed(p, q, s, w) PROVE Handed(p, r, s, w)
    <3>1. /\ q.objects[s].type = "mutex" /\ q.objects[s].owner = p.waits[w].thread
          /\ q.waits[w].result # Pending
      BY <2>4 DEF Handed
    <3>2. id # w
      BY <2>1, <3>1
    <3>3. p.waits[id].thread # p.waits[w].thread
      BY <2>1, <3>2 DEF Alone
    <3>4. q.objects[s].owner \notin {NoThread, q.waits[id].thread}
      BY <1>2, <2>1, <3>1, <3>3
    <3>5. r = q
      BY <1>1, <1>2, <2>1, <3>1, <3>4, DecideWaiter
    <3> QED  BY <2>4, <3>5
  <2> QED  BY <2>2, <2>3, <2>4 DEF Reached
<1> QED  BY <1>3, <1>4

(* The pass over all waits.                                                 *)
LEMMA PassAlone ==
    ASSUME NEW last \in Nat, NEW D, D \subseteq 1 .. last, NEW p \in Plans(D), NEW L,
           WaitsFit(p.waits, D, L), Mutexes(p, L), NEW s \in Slots,
           Alone(p.objects[s], s, p.waits), NEW t, NEW q, q = ResolveWaiters(p, last, t)
    PROVE  /\ Resolved(p, q, D)
           /\ \/ /\ Passed(p, q, s)
                 /\ p.objects[s].owner = NoThread => Waiting(s, p.waits) = {}
              \/ \E w \in Waiting(s, p.waits) : Handed(p, q, s, w)
<1> DEFINE H(id) == {r \in Plans(D) : /\ Resolved(p, r, D) /\ Mutexes(r, L)
                                      /\ Reached(p, r, s, id)}
           G == [id \in 0 .. last |-> H(id)]
<1>1. \A k \in D : k \in Nat /\ 0 < k /\ k <= last
  OBVIOUS
<1>2. \A k \in Waiting(s, p.waits) : k \in D /\ p.waits[k].result = Pending
  BY PlanParts DEF Waiting
<1>3. p \in H(0)
  <2>1. Passed(p, p, s)
    BY <1>2 DEF Passed
  <2>2. Reached(p, p, s, 0)
    BY <1>1, <1>2, <2>1 DEF Reached
  <2> QED  BY <2>2, ResolvedSame
<1>4. ASSUME NEW id \in 1 .. last, NEW r \in H(id - 1) PROVE ResolveOne(r, id, t) \in H(id)
  <2>1. /\ r \in Plans(D) /\ Resolved(p, r, D) /\ Mutexes(r, L) /\ Reached(p, r, s, id - 1)
        /\ WaitsFit(r.waits, D, L)
    BY FitsResolved
  <2>2. Resolved(r, ResolveOne(r, id, t), D) /\ Mutexes(ResolveOne(r, id, t), L)
    BY <2>1, ResolveOneResolves
  <2>3. Resolved(p, ResolveOne(r, id, t), D)
    BY <2>1, <2>2, ResolvedTwice
  <2>4. ResolveOne(r, id, t) \in Plans(D)
    BY <2>3 DEF Resolved
  <2>5. \A k \in D : Fits(r.waits[k])
    BY <2>1 DEF WaitsFit
  <2>6. id \in Nat \ {0} /\ D \subseteq Nat
    BY <1>1
  <2>7. Reached(p, ResolveOne(r, id, t), s, id)
    BY <2>1, <2>2, <2>5, <2>6, PassOneAlone
  <2> QED  BY <2>2, <2>3, <2>4, <2>7
<1> HIDE DEF H
<1>5. \A id \in 0 .. last : G[id] = H(id)
  OBVIOUS
<1>6. /\ 0 \in 0 .. last /\ last \in 0 .. last
      /\ \A id \in 1 .. last : id \in 0 .. last /\ id - 1 \in 0 .. last
  OBVIOUS
<1> HIDE DEF G
<1>7. p \in G[0] /\ \A id \in 1 .. last : \A r \in G[id - 1] : ResolveOne(r, id, t) \in G[id]
  BY <1>3, <1>4, <1>5, <1>6
<1>8. q \in G[last]
  BY <1>7, ResolveInduction
<1>9. Resolved(p, q, D) /\ Reached(p, q, s, last)
  BY <1>5, <1>6, <1>8 DEF H
<1>10. \A k \in Waiting(s, p.waits) : ~(last < k)
  BY <1>1, <1>2
<1> QED  BY <1>9, <1>10 DEF Reached

-----------------------------------------------------------------------------
(* The invariant.                                                           *)

SecTyped ==
    /\ DOMAIN sections \subseteq Addresses
    /\ \A a \in DOMAIN sections : sections[a] \in DOMAIN handles
    /\ \A a, b \in DOMAIN sections : sections[a] = sections[b] => a = b
    /\ DOMAIN copy = Addresses
    /\ entering \in [Threads -> Addresses \cup {NoAddress}]

(* The handle of a section is the only one of its mutex, and only threads   *)
(* that enter the section wait for it.                                      *)
Private(a) ==
    /\ \A h \in DOMAIN handles : handles[h] = Slot(a) => h = sections[a]
    /\ objects[Slot(a)].type = "mutex"
    /\ \A w \in Waiting(Slot(a), waits) : entering[waits[w].thread] = a

(* A thread that enters a section waits for its mutex alone while another   *)
(* thread is inside, and is inside when it does not wait any longer.        *)
Inside(t) ==
    entering[t] # NoAddress =>
        /\ entering[t] \in DOMAIN sections
        /\ reply[t].wait # 0
        /\ waits[reply[t].wait].handles = <<sections[entering[t]]>>
        /\ WaitsFor(waits[reply[t].wait], Slot(entering[t]))
        /\ IF waits[reply[t].wait].result = Pending
           THEN objects[Slot(entering[t])].owner \notin {NoThread, t}
           ELSE objects[Slot(entering[t])].owner = t

Exact(a) ==
    a \notin disturbed \cup stale =>
        copy[a] = Words(objects[Slot(a)].owner, objects[Slot(a)].depth,
                        Cardinality(Waiting(Slot(a), waits)))

(* No callbacks are queued, so no wait reports one.                         *)
Calm == apcs = {} /\ \A w \in DOMAIN waits : waits[w].result # IoCompletion

PendingHeld == \A w \in DOMAIN waits : waits[w].result = Pending => Held(waits[w], handles)

SecInv ==
    /\ SecTyped /\ Calm /\ PendingHeld
    /\ \A a \in DOMAIN sections : Private(a) /\ Exact(a)
    /\ \A t \in Threads : Inside(t)

(* The waits for a slot, in the words of the model.                         *)
LEMMA WaitersAre == \A s : Waiters(s) = Waiting(s, waits) /\ Waiters(s)' = Waiting(s, waits')
  BY DEF Waiters, Waiting, Undecided

(* The waits for a slot are finitely many numbers.                          *)
LEMMA WaitingFinite ==
    ASSUME NEW s, NEW W, NEW n \in Nat, DOMAIN W \subseteq 1 .. n
    PROVE  Waiting(s, W) \in SUBSET Nat /\ IsFiniteSet(Waiting(s, W))
<1>1. IsFiniteSet(1 .. n)
  BY FS_Interval
<1>2. Waiting(s, W) \subseteq 1 .. n
  BY DEF Waiting
<1> QED  BY <1>1, <1>2, FS_Subset

(* The mutex of a section, and who waits for it.                            *)
LEMMA SectionParts ==
    ASSUME IInv, SecInv, NEW a \in DOMAIN sections
    PROVE  /\ a \in Addresses /\ a # NoAddress
           /\ sections[a] \in DOMAIN handles /\ Slot(a) \in Slots
           /\ objects[Slot(a)] \in MutexKind /\ objects[Slot(a)].type = "mutex"
           /\ refs[Slot(a)] = 1
           /\ Waiting(Slot(a), waits) \in SUBSET Nat
           /\ IsFiniteSet(Waiting(Slot(a), waits))
<1>1. a \in Addresses /\ a # NoAddress /\ sections[a] \in DOMAIN handles /\ Private(a)
  BY AddressesAssumption DEF SecInv, SecTyped
<1>2. Slot(a) \in Slots /\ objects[Slot(a)] \in ObjectKind
  BY <1>1, HandleNames DEF Slot
<1>3. objects[Slot(a)].type = "mutex" /\ objects[Slot(a)] \in MutexKind
  BY <1>1, <1>2, Kinds DEF Private
<1>4. Names(Slot(a)) = {sections[a]}
  BY <1>1 DEF Names, Private, Slot
<1>5. refs[Slot(a)] = 1
  BY <1>2, <1>4, FS_Singleton DEF IInv, ObjectInv, HandlesCounted
<1>6. nextWait \in Nat /\ DOMAIN waits \subseteq 1 .. nextWait
  BY DEF IInv, WaitInv, WaitsTyped
<1> QED  BY <1>1, <1>2, <1>3, <1>5, <1>6, WaitingFinite

(* A thread that waits for the mutex of a section.                          *)
LEMMA WaiterParts ==
    ASSUME IInv, SecInv, NEW a \in DOMAIN sections, NEW w \in Waiting(Slot(a), waits)
    PROVE  /\ w \in DOMAIN waits /\ waits[w].result = Pending /\ waits[w] \in WaitRecord
           /\ waits[w].thread \in Threads /\ waits[w].thread # NoThread
           /\ reply[waits[w].thread].wait = w /\ reply[waits[w].thread] # NoReply
           /\ entering[waits[w].thread] = a
           /\ WaitsFor(waits[w], Slot(a)) /\ waits[w].handles = <<sections[a]>>
           /\ objects[Slot(a)].owner \notin {NoThread, waits[w].thread}
<1>1. w \in DOMAIN waits /\ waits[w].result = Pending
  BY DEF Waiting
<1>2. waits[w] \in WaitRecord
  BY <1>1 DEF IInv, WaitInv, WaitsTyped
<1>3. PICK t \in Threads : t = waits[w].thread /\ reply[t].wait = w /\ w # 0
  BY <1>1, UndecidedIsReplied DEF IInv
<1>4. entering[t] = a /\ a # NoAddress
  BY <1>3, SectionParts DEF SecInv, Private
<1>5. Inside(t)
  BY DEF SecInv
<1>6. reply[t] # NoReply /\ t # NoThread
  BY <1>3, NoThreadAssumption DEF NoReply
<1> QED  BY <1>1, <1>2, <1>3, <1>4, <1>5, <1>6 DEF Inside

(* The mutex of a section is awaited alone.                                 *)
LEMMA SectionAlone ==
    ASSUME IInv, SecInv, NEW a \in DOMAIN sections
    PROVE  Alone(objects[Slot(a)], Slot(a), waits)
<1>1. \A w \in Waiting(Slot(a), waits) :
         /\ WaitsFor(waits[w], Slot(a))
         /\ waits[w].thread \in Threads /\ waits[w].thread # objects[Slot(a)].owner
         /\ reply[waits[w].thread].wait = w
  BY WaiterParts
<1>2. objects[Slot(a)].type = "mutex"
  BY SectionParts
<1> QED  BY <1>1, <1>2 DEF Alone

(* The mutex of a section is nobody's only when nobody waits.               *)
LEMMA FreeSection ==
    ASSUME IInv, SecInv, NEW a \in DOMAIN sections, objects[Slot(a)].owner = NoThread
    PROVE  Waiting(Slot(a), waits) = {} /\ objects[Slot(a)].depth = 0
<1>1. Waiting(Slot(a), waits) = {}
  BY WaiterParts
<1>2. MutexSound(objects[Slot(a)], Slot(a) \in signaled, live)
  BY SectionParts, PlanFacts DEF IInv, ObjectInv, ObjectsSound, ObjectSound
<1> QED  BY <1>1, <1>2 DEF MutexSound

(* Two sections have two mutexes.                                           *)
LEMMA SlotsDiffer ==
    ASSUME SecInv, NEW a \in DOMAIN sections, NEW b \in DOMAIN sections, a # b
    PROVE  Slot(a) # Slot(b)
<1>1. sections[a] \in DOMAIN handles /\ sections[a] # sections[b] /\ Private(b)
  BY DEF SecInv, SecTyped
<1> QED  BY <1>1 DEF Private, Slot

-----------------------------------------------------------------------------
(* What a step does to one section.                                         *)

(* Waits keep what they wait for, and are decided for good.                 *)
WaitsFall ==
    \A w \in DOMAIN waits \cap DOMAIN waits' :
        /\ SameWait(waits[w], waits'[w])
        /\ waits'[w].result = Pending => waits[w].result = Pending

(* The section stays, with a private handle.                                *)
Beside(b) ==
    /\ b \in DOMAIN sections' /\ sections'[b] = sections[b]
    /\ sections[b] \in DOMAIN handles' /\ handles'[sections[b]] = Slot(b)
    /\ \A h \in DOMAIN handles' : handles'[h] = Slot(b) => h = sections[b]

(* Nothing happens to it.                                                   *)
Still(b) ==
    /\ Beside(b)
    /\ objects'[Slot(b)] = objects[Slot(b)]
    /\ Waiting(Slot(b), waits') = Waiting(Slot(b), waits)

(* The waits in the line of the lock at a.                                  *)
Members(a) == IF a \in DOMAIN sections THEN Waiting(Slot(a), waits) ELSE {}

SameLock(a) ==
    /\ Holder(a)' = Holder(a)
    /\ Depth(a)' = Depth(a)
    /\ Queue(a)' = Queue(a)

(* The queue of the lock is the line of these waits.                        *)
LEMMA QueueIsLine ==
    ASSUME NEW a
    PROVE  Queue(a) = Line(Members(a), waits) /\ Queue(a)' = Line(Members(a)', waits')
<1>1. Queue(a) = Line(IF a \in DOMAIN sections THEN Waiters(Slot(a)) ELSE {}, waits)
  BY DEF Queue, Line, Place
<1>2. Queue(a)' = Line(IF a \in DOMAIN sections' THEN Waiters(Slot(a))' ELSE {}, waits')
  BY DEF Queue, Line, Place
<1>3. /\ Members(a) = IF a \in DOMAIN sections THEN Waiters(Slot(a)) ELSE {}
      /\ Members(a)' = IF a \in DOMAIN sections' THEN Waiters(Slot(a))' ELSE {}
  BY DEF Members, Waiters, Waiting, Undecided
<1> QED  BY <1>1, <1>2, <1>3

LEMMA BesideSlot == ASSUME NEW b, Beside(b) PROVE Slot(b)' = Slot(b)
  BY DEF Beside, Slot

(* A lock stays the same when nothing happens to its section, or when there *)
(* is none.                                                                 *)
LEMMA StillSame ==
    ASSUME IInv, SecInv, WaitsFall, NEW b \in DOMAIN sections, Still(b)
    PROVE  SameLock(b)
<1>1. Slot(b)' = Slot(b) /\ b \in DOMAIN sections'
  BY BesideSlot DEF Still, Beside
<1>2. Holder(b)' = Holder(b) /\ Depth(b)' = Depth(b)
  BY <1>1 DEF Holder, Depth, Still
<1>3. PICK W : W = Waiting(Slot(b), waits)
  OBVIOUS
<1>4. Members(b) = W /\ Members(b)' = W
  BY <1>1, <1>3 DEF Members, Still
<1>5. W \in SUBSET Nat /\ IsFiniteSet(W)
  BY <1>3, SectionParts
<1>6. \A w \in W : waits'[w].thread = waits[w].thread
  <2>1. \A w \in W : w \in DOMAIN waits \cap DOMAIN waits'
    <3>1. \A w \in Waiting(Slot(b), waits) : w \in DOMAIN waits
      BY DEF Waiting
    <3>2. \A w \in Waiting(Slot(b), waits') : w \in DOMAIN waits'
      BY DEF Waiting
    <3> QED  BY <1>3, <3>1, <3>2 DEF Still
  <2> QED  BY <2>1 DEF WaitsFall, SameWait
<1>7. Line(W, waits') = Line(W, waits)
  BY <1>5, <1>6, LineSame
<1> QED  BY <1>2, <1>4, <1>7, QueueIsLine DEF SameLock

LEMMA AbsentSame ==
    ASSUME NEW b, b \notin DOMAIN sections, b \notin DOMAIN sections'
    PROVE  SameLock(b)
<1>1. Line({}, waits') = Line({}, waits)
  BY LineSame, FS_EmptySet
<1>2. Members(b) = {} /\ Members(b)' = {}
  BY DEF Members
<1> QED  BY <1>1, <1>2, QueueIsLine DEF SameLock, Holder, Depth

(* A section stays private.                                                 *)
LEMMA BesidePrivate ==
    ASSUME NEW b, Beside(b), objects'[Slot(b)].type = "mutex",
           \A w \in Waiting(Slot(b), waits') : entering'[waits'[w].thread] = b
    PROVE  Private(b)'
<1>1. Slot(b)' = Slot(b)
  BY BesideSlot
<1> QED  BY <1>1 DEF Private, Beside

LEMMA StillPrivate ==
    ASSUME IInv, SecInv, WaitsFall, NEW b \in DOMAIN sections, Still(b),
           \A t \in Threads : entering[t] = b => entering'[t] = b
    PROVE  Private(b)'
<1>1. ASSUME NEW w \in Waiting(Slot(b), waits') PROVE entering'[waits'[w].thread] = b
  <2>1. w \in Waiting(Slot(b), waits) /\ w \in DOMAIN waits'
    BY DEF Still, Waiting
  <2>2. w \in DOMAIN waits /\ waits[w].thread \in Threads /\ entering[waits[w].thread] = b
    BY <2>1, WaiterParts
  <2>3. waits'[w].thread = waits[w].thread
    BY <2>1, <2>2 DEF WaitsFall, SameWait
  <2> QED  BY <2>2, <2>3
<1>2. objects'[Slot(b)].type = "mutex"
  BY SectionParts DEF Still
<1> QED  BY <1>1, <1>2, BesidePrivate DEF Still

(* A copy stays exact, and is exact when it was just written.               *)
LEMMA StillExact ==
    ASSUME NEW b, Exact(b), Still(b), copy'[b] = copy[b],
           b \in disturbed => b \in disturbed', b \in stale => b \in stale'
    PROVE  Exact(b)'
<1>1. Slot(b)' = Slot(b)
  BY BesideSlot DEF Still
<1> QED  BY <1>1 DEF Exact, Still

LEMMA PublishedExact ==
    ASSUME SecInv, NEW a \in DOMAIN sections, Beside(a), Publish(a)
    PROVE  Exact(a)' /\ DOMAIN copy' = Addresses
<1>1. Slot(a)' = Slot(a)
  BY BesideSlot
<1>2. a \in DOMAIN copy /\ DOMAIN copy = Addresses
  BY DEF SecInv, SecTyped
<1>3. copy'[a] = Words(objects'[Slot(a)].owner, objects'[Slot(a)].depth,
                       Cardinality(Waiting(Slot(a), waits')))
  BY <1>2 DEF Publish, Waiting
<1>4. DOMAIN copy' = Addresses
  BY <1>2 DEF Publish
<1> QED  BY <1>1, <1>3, <1>4 DEF Exact

(* A thread that enters stays with its wait.                                *)
LEMMA MovedInside ==
    ASSUME IInv', NEW t \in Threads, NEW b, entering[t] = b, b # NoAddress, Inside(t),
           FrameHolds(reply[t], t, waits),
           entering'[t] = b, reply'[t] = reply[t], WaitsFall, Beside(b),
           IF waits'[reply[t].wait].result = Pending
           THEN objects'[Slot(b)].owner \notin {NoThread, t}
           ELSE objects'[Slot(b)].owner = t
    PROVE  Inside(t)'
<1>1. Slot(b)' = Slot(b) /\ b \in DOMAIN sections' /\ sections'[b] = sections[b]
  BY BesideSlot DEF Beside
<1>2. PICK k : k = reply[t].wait
  OBVIOUS
<1>3. FrameHolds(reply'[t], t, waits')
  BY DEF IInv, WaitInv, FramesHold, ThreadHolds
<1>4. /\ k # 0 /\ k \in DOMAIN waits /\ k \in DOMAIN waits'
      /\ waits[k].handles = <<sections[b]>> /\ WaitsFor(waits[k], Slot(b))
  BY <1>2, <1>3 DEF Inside, FrameHolds
<1>5. waits'[k].handles = <<sections[b]>> /\ WaitsFor(waits'[k], Slot(b))
  BY <1>4 DEF WaitsFall, SameWait, WaitsFor
<1> QED  BY <1>1, <1>2, <1>4, <1>5 DEF Inside

LEMMA StillInside ==
    ASSUME IInv, IInv', SecInv, WaitsFall, NEW t \in Threads,
           entering'[t] # NoAddress => /\ entering[t] = entering'[t]
                                       /\ reply'[t] = reply[t] /\ Still(entering[t])
    PROVE  Inside(t)'
<1>1. CASE entering'[t] = NoAddress
  BY <1>1 DEF Inside
<1>2. CASE entering'[t] # NoAddress
  <2> PICK b : b = entering[t]
    OBVIOUS
  <2> PICK k : k = reply[t].wait
    OBVIOUS
  <2>1. Inside(t) /\ b # NoAddress /\ FrameHolds(reply[t], t, waits)
        /\ FrameHolds(reply'[t], t, waits')
    BY <1>2 DEF SecInv, IInv, WaitInv, FramesHold, ThreadHolds
  <2>2. k \in DOMAIN waits /\ k \in DOMAIN waits' /\ WaitsFor(waits[k], Slot(b)) /\ Still(b)
    BY <1>2, <2>1 DEF Inside, FrameHolds
  <2>3. SameWait(waits[k], waits'[k]) /\ WaitsFor(waits'[k], Slot(b))
    BY <2>2 DEF WaitsFall, SameWait, WaitsFor
  <2>4. \A w : WaitsFor(w, Slot(b)) => \E i \in DOMAIN w.slots : w.slots[i] = Slot(b)
    <3>1. ASSUME NEW w, WaitsFor(w, Slot(b)) PROVE \E i \in DOMAIN w.slots : w.slots[i] = Slot(b)
      <4>1. w.slots = <<Slot(b)>>
        BY <3>1 DEF WaitsFor
      <4>2. 1 \in DOMAIN w.slots /\ w.slots[1] = Slot(b)
        BY <4>1
      <4> QED  BY <4>2
    <3> QED  BY <3>1
  <2>5. /\ waits[k].result = Pending <=> k \in Waiting(Slot(b), waits)
        /\ waits'[k].result = Pending <=> k \in Waiting(Slot(b), waits')
    BY <2>2, <2>3, <2>4 DEF Waiting
  <2>6. waits'[k].result = Pending <=> waits[k].result = Pending
    BY <2>2, <2>5 DEF Still
  <2>7. objects'[Slot(b)] = objects[Slot(b)] /\ Beside(b)
    BY <2>2 DEF Still
  <2>8. IF waits'[k].result = Pending
        THEN objects'[Slot(b)].owner \notin {NoThread, t}
        ELSE objects'[Slot(b)].owner = t
    BY <2>1, <2>6, <2>7 DEF Inside
  <2> QED  BY <1>2, <2>1, <2>7, <2>8, MovedInside
<1> QED  BY <1>1, <1>2

-----------------------------------------------------------------------------
(* Steps that leave all sections alone.                                     *)

LockStep == [Lock!Next]_(Lock!lock)

LEMMA LockStutters ==
    ASSUME \A a \in Addresses : SameLock(a)
    PROVE  UNCHANGED Lock!lock
<1>1. [a \in Addresses |-> Holder(a)]' = [a \in Addresses |-> Holder(a)]
  BY DEF SameLock
<1>2. [a \in Addresses |-> Depth(a)]' = [a \in Addresses |-> Depth(a)]
  BY DEF SameLock
<1>3. [a \in Addresses |-> Queue(a)]' = [a \in Addresses |-> Queue(a)]
  BY DEF SameLock
<1> QED  BY <1>1, <1>2, <1>3 DEF Lock!lock

(* Without callbacks, waits are decided for good, and no callback appears.  *)
LEMMA CalmKeeps ==
    ASSUME Calm, WaitsAdvance, apcs' = {}
    PROVE  Calm' /\ WaitsFall
<1>1. ASSUME NEW w \in DOMAIN waits'
      PROVE  /\ waits'[w].result # IoCompletion
             /\ w \in DOMAIN waits =>
                   /\ SameWait(waits[w], waits'[w])
                   /\ waits'[w].result = Pending => waits[w].result = Pending
  <2>1. CASE w \in DOMAIN waits
    <3>1. MayBecome(waits[w], waits'[w]) /\ waits[w].result # IoCompletion
      BY <2>1 DEF WaitsAdvance, Calm
    <3> QED  BY <3>1 DEF MayBecome
  <2>2. CASE w \notin DOMAIN waits
    BY <2>2 DEF WaitsAdvance, Pending, IoCompletion
  <2> QED  BY <2>1, <2>2
<1> QED  BY <1>1 DEF Calm, WaitsFall

(* Undecided waits keep their handles while handles are only opened.        *)
LEMMA GrowingHeld ==
    ASSUME PendingHeld, WaitsFall, WaitsAdvance, HandlesGrow
    PROVE  PendingHeld'
<1> SUFFICES ASSUME NEW w \in DOMAIN waits', waits'[w].result = Pending
             PROVE  Held(waits'[w], handles')
  BY DEF PendingHeld
<1>1. CASE w \in DOMAIN waits
  <2>1. Held(waits[w], handles) /\ SameWait(waits[w], waits'[w])
    BY <1>1 DEF PendingHeld, WaitsFall
  <2> QED  BY <2>1 DEF Held, HandlesGrow, SameWait
<1>2. CASE w \notin DOMAIN waits
  BY <1>2 DEF WaitsAdvance, Held, HandlesGrow
<1> QED  BY <1>1, <1>2

(* Closing a handle decides the waits that hold it.                         *)
LEMMA ClosedHeld ==
    ASSUME IInv, PendingHeld, NEW h, waits' = FailWaits(h),
           \A k \in DOMAIN handles \ {h} : k \in DOMAIN handles' /\ handles'[k] = handles[k]
    PROVE  PendingHeld' /\ WaitsAdvance
<1>1. /\ DOMAIN waits' = DOMAIN waits
      /\ \A w \in DOMAIN waits : waits'[w].result = Pending =>
             /\ waits'[w] = waits[w]
             /\ \A i \in DOMAIN waits[w].handles : waits[w].handles[i] # h
      /\ \A w \in DOMAIN waits : MayBecome(waits[w], waits'[w])
  BY FailDecides DEF IInv
<1>2. ASSUME NEW w \in DOMAIN waits', waits'[w].result = Pending
      PROVE  Held(waits'[w], handles')
  <2>1. waits'[w] = waits[w] /\ Held(waits[w], handles)
        /\ \A i \in DOMAIN waits[w].handles : waits[w].handles[i] # h
    BY <1>1, <1>2 DEF PendingHeld
  <2> QED  BY <2>1 DEF Held
<1> QED  BY <1>1, <1>2 DEF PendingHeld, WaitsAdvance

(* Closing a handle that is not private leaves the waits for sections.      *)
LEMMA ClosedWaiting ==
    ASSUME IInv, SecInv, NEW b \in DOMAIN sections, NEW h, h # sections[b], waits' = FailWaits(h)
    PROVE  Waiting(Slot(b), waits') = Waiting(Slot(b), waits)
<1>1. DOMAIN waits' = DOMAIN waits
  BY FailDecides DEF IInv
<1>2. ASSUME NEW w \in Waiting(Slot(b), waits) PROVE w \in Waiting(Slot(b), waits')
  <2>1. w \in DOMAIN waits /\ waits[w].handles = <<sections[b]>>
    BY WaiterParts
  <2>2. \A i \in DOMAIN waits[w].handles : waits[w].handles[i] # h
    BY <2>1
  <2>3. waits'[w] = waits[w]
    BY <2>1, <2>2 DEF FailWaits
  <2> QED  BY <1>1, <2>3 DEF Waiting
<1>3. ASSUME NEW w \in Waiting(Slot(b), waits') PROVE w \in Waiting(Slot(b), waits)
  <2>1. w \in DOMAIN waits /\ waits'[w] = waits[w]
    BY <1>1, FailDecides DEF IInv, Waiting
  <2> QED  BY <2>1 DEF Waiting
<1> QED  BY <1>2, <1>3

(* All sections are left alone.                                             *)
LEMMA AsideKeeps ==
    ASSUME IInv, IInv', SecInv, WaitsAdvance, apcs' = apcs, PendingHeld', UNCHANGED own,
           \A b \in DOMAIN sections : Still(b),
           \A t \in Threads : entering[t] # NoAddress => reply'[t] = reply[t]
    PROVE  SecInv' /\ UNCHANGED Lock!lock
<1>1. UNCHANGED <<sections, copy, stale, entering, disturbed>>
  BY DEF own
<1>2. Calm' /\ WaitsFall
  BY CalmKeeps DEF SecInv, Calm
<1>3. SecTyped'
  <2>1. \A a \in DOMAIN sections : sections[a] \in DOMAIN handles'
    BY DEF Still, Beside
  <2> QED  BY <1>1, <2>1 DEF SecInv, SecTyped
<1>4. ASSUME NEW a \in DOMAIN sections PROVE Private(a)' /\ Exact(a)'
  <2>1. Exact(a)
    BY DEF SecInv
  <2> QED  BY <1>1, <1>2, <2>1, StillPrivate, StillExact
<1>5. ASSUME NEW t \in Threads PROVE Inside(t)'
  <2>1. entering[t] # NoAddress => entering[t] \in DOMAIN sections
    BY DEF SecInv, Inside
  <2> QED  BY <1>1, <1>2, <2>1, StillInside
<1>6. ASSUME NEW a \in Addresses PROVE SameLock(a)
  BY <1>1, <1>2, StillSame, AbsentSame
<1> QED  BY <1>1, <1>2, <1>3, <1>4, <1>5, <1>6, LockStutters DEF SecInv

(* The sections stay, and others may come.                                  *)
SectionsGrow == \A b \in DOMAIN sections : b \in DOMAIN sections' /\ sections'[b] = sections[b]

(* A new handle of a slot that is no section's.                             *)
LEMMA OpenBeside ==
    ASSUME IInv, SecInv, NEW s \in Slots, OpenHandle(s), SectionsGrow,
           \A b \in DOMAIN sections : Slot(b) # s
    PROVE  HandlesGrow /\ \A b \in DOMAIN sections : Beside(b)
<1>1. nextHandle \in Nat /\ DOMAIN handles \subseteq 1 .. nextHandle
  BY DEF IInv, ObjectInv, HandlesTyped
<1>2. nextHandle + 1 \notin DOMAIN handles
  BY <1>1
<1>3. /\ DOMAIN handles' = DOMAIN handles \cup {nextHandle + 1}
      /\ handles'[nextHandle + 1] = s
      /\ \A h \in DOMAIN handles : handles'[h] = handles[h]
  BY <1>2 DEF OpenHandle
<1>4. ASSUME NEW b \in DOMAIN sections PROVE Beside(b)
  <2>1. sections[b] \in DOMAIN handles /\ Private(b) /\ Slot(b) # s
    BY DEF SecInv, SecTyped
  <2>2. b \in DOMAIN sections' /\ sections'[b] = sections[b]
    BY DEF SectionsGrow
  <2> QED  BY <1>3, <2>1, <2>2 DEF Beside, Private, Slot
<1> QED  BY <1>3, <1>4 DEF HandlesGrow

(* The object of a slot with a handle survives a commit.                    *)
LEMMA CommitSlot ==
    ASSUME NEW D, NEW p \in Plans(D), Commit(p), NEW s \in Slots, refs[s] # 0
    PROVE  objects'[s] = p.objects[s] /\ waits' = p.waits /\ DOMAIN waits' = D
<1>1. p.signaled \subseteq Slots /\ DOMAIN p.waits = D
  BY PlanParts
<1>2. ~Reclaimable(p.objects[s], refs[s])
  BY DEF Reclaimable
<1> QED  BY <1>1, <1>2, CommitParts

-----------------------------------------------------------------------------
(* A pass that is committed.                                                *)

(* The wait w for slot s is granted by the step, as plan p is resolved.     *)
HandsOver(p, s, w) ==
    /\ p.objects[s].owner = NoThread
    /\ w \in Waiting(s, p.waits) /\ \A k \in Waiting(s, p.waits) : w <= k
    /\ objects'[s].type = "mutex"
    /\ objects'[s].owner = p.waits[w].thread
    /\ objects'[s].depth = p.objects[s].depth + 1
    /\ waits'[w].result # Pending
    /\ Waiting(s, waits') = Waiting(s, p.waits) \ {w}

LeavesAlone(p, s) ==
    /\ objects'[s] = p.objects[s]
    /\ Waiting(s, waits') = Waiting(s, p.waits)
    /\ p.objects[s].owner = NoThread => Waiting(s, p.waits) = {}

LEMMA PassOutcome ==
    ASSUME IInv, NEW D, D \subseteq DOMAIN waits, NEW L, NEW p, SoundPlan(p, D, L),
           NEW s \in Slots, refs[s] # 0, Alone(p.objects[s], s, p.waits),
           Commit(ResolveWaiters(p, nextWait, now))
    PROVE  /\ DOMAIN waits' = D /\ \A k \in D : SameWait(p.waits[k], waits'[k])
           /\ LeavesAlone(p, s) \/ \E w \in Waiting(s, p.waits) : HandsOver(p, s, w)
<1> PICK q : q = ResolveWaiters(p, nextWait, now)
  OBVIOUS
<1>1. nextWait \in Nat /\ D \subseteq 1 .. nextWait
  BY DEF IInv, WaitInv, WaitsTyped
<1>2. p \in Plans(D) /\ Mutexes(p, L) /\ WaitsFit(p.waits, D, L)
  BY SoundMutexes
<1>3. /\ Resolved(p, q, D)
      /\ \/ /\ Passed(p, q, s)
            /\ p.objects[s].owner = NoThread => Waiting(s, p.waits) = {}
         \/ \E w \in Waiting(s, p.waits) : Handed(p, q, s, w)
  BY <1>1, <1>2, PassAlone
<1>4. q \in Plans(D) /\ \A k \in D : SameWait(p.waits[k], q.waits[k])
  BY <1>3 DEF Resolved
<1>5. objects'[s] = q.objects[s] /\ waits' = q.waits /\ DOMAIN waits' = D
  BY <1>4, CommitSlot
<1>6. /\ \A k \in Waiting(s, waits') : k \in Waiting(s, p.waits) /\ waits'[k].result = Pending
      /\ \A k \in Waiting(s, p.waits) :
             waits'[k].result = Pending => k \in Waiting(s, waits')
  <2>1. \A k \in Waiting(s, waits') : waits'[k].result = Pending
    BY DEF Waiting
  <2> QED  BY <1>2, <1>3, <1>5, <2>1, WaitingResolved
<1>7. CASE /\ Passed(p, q, s)
           /\ p.objects[s].owner = NoThread => Waiting(s, p.waits) = {}
  <2>1. Waiting(s, waits') = Waiting(s, p.waits)
    BY <1>5, <1>6, <1>7 DEF Passed
  <2> QED  BY <1>4, <1>5, <1>7, <2>1 DEF LeavesAlone, Passed
<1>8. ASSUME NEW w \in Waiting(s, p.waits), Handed(p, q, s, w) PROVE HandsOver(p, s, w)
  <2>1. /\ waits'[w].result # Pending
        /\ \A k \in Waiting(s, p.waits) \ {w} : waits'[k].result = Pending
    BY <1>5, <1>8 DEF Handed
  <2>2. Waiting(s, waits') = Waiting(s, p.waits) \ {w}
    BY <1>6, <2>1
  <2> QED  BY <1>5, <1>8, <2>2 DEF HandsOver, Handed
<1> QED  BY <1>3, <1>4, <1>5, <1>7, <1>8

(* A pass leaves a section alone whose mutex the plan has not touched.      *)
LEMMA PassStill ==
    ASSUME IInv, SecInv, NEW p, SoundPlan(p, DOMAIN waits, live), p.waits = waits,
           Commit(ResolveWaiters(p, nextWait, now)),
           NEW b \in DOMAIN sections, Beside(b), p.objects[Slot(b)] = objects[Slot(b)]
    PROVE  Still(b)
<1>1. Slot(b) \in Slots /\ refs[Slot(b)] # 0 /\ Alone(p.objects[Slot(b)], Slot(b), p.waits)
  BY SectionParts, SectionAlone
<1>2. LeavesAlone(p, Slot(b)) \/ \E w \in Waiting(Slot(b), p.waits) : HandsOver(p, Slot(b), w)
  BY <1>1, PassOutcome
<1>3. ~\E w \in Waiting(Slot(b), p.waits) : HandsOver(p, Slot(b), w)
  BY FreeSection DEF HandsOver
<1> QED  BY <1>2, <1>3 DEF LeavesAlone, Still

-----------------------------------------------------------------------------
(* The guest's other calls.                                                 *)

(* What is shown of a call that leaves all sections alone.                  *)
AsideStep == IInv' /\ SecInv' /\ UNCHANGED Lock!lock

LEMMA UsedSlots ==
    ASSUME SecInv, NEW h \in UsedHandles
    PROVE  /\ h \in DOMAIN handles
           /\ \A b \in DOMAIN sections : h # sections[b] /\ handles[h] # Slot(b)
  BY DEF UsedHandles, SecInv, Private

LEMMA CreateAside ==
    ASSUME IInv, SecInv, NEW o, NEW signal, Create(o, signal), SectionsGrow
    PROVE  /\ HandlesGrow /\ \A b \in DOMAIN sections : Still(b)
           /\ apcs' = apcs /\ reply' = reply
<1>1. PICK s \in Slots : /\ FirstFree(s) /\ OpenHandle(s)
                         /\ objects' = [objects EXCEPT ![s] = o]
                         /\ UNCHANGED <<waits, apcs, reply>>
  BY DEF Create
<1>2. \A b \in DOMAIN sections : Slot(b) # s /\ Slot(b) \in Slots
  BY <1>1, SectionParts DEF FirstFree
<1>3. HandlesGrow /\ \A b \in DOMAIN sections : Beside(b)
  BY <1>1, <1>2, OpenBeside
<1>4. objects \in [Slots -> ObjectKind]
  BY PlanFacts
<1> QED  BY <1>1, <1>2, <1>3, <1>4 DEF Still

LEMMA CreateMutexAside ==
    ASSUME IInv, SecInv, NEW t \in Threads, CreateMutex(t), UNCHANGED own
    PROVE  AsideStep
<1>1. t \in live
  BY DEF CreateMutex, Call, Running
<1>2. PICK initial \in BOOLEAN :
         Create([type |-> "mutex", owner |-> IF initial THEN t ELSE NoThread,
                 depth |-> IF initial THEN 1 ELSE 0, abandoned |-> FALSE], ~initial)
  BY DEF CreateMutex
<1>3. IInv' /\ WaitsAdvance
  BY <1>1, <1>2, CreateMutexKeeps DEF Steady
<1>4. SectionsGrow
  BY DEF own, SectionsGrow
<1>5. HandlesGrow /\ (\A b \in DOMAIN sections : Still(b)) /\ apcs' = apcs /\ reply' = reply
  BY <1>2, <1>4, CreateAside
<1>6. PendingHeld'
  BY <1>3, <1>5, CalmKeeps, GrowingHeld DEF SecInv, Calm
<1> QED  BY <1>3, <1>5, <1>6, AsideKeeps DEF AsideStep

LEMMA OpenThreadAside ==
    ASSUME IInv, SecInv, NEW t \in Threads, NEW target \in Threads, OpenThread(t, target),
           UNCHANGED own
    PROVE  AsideStep
<1>1. IInv' /\ WaitsAdvance
  BY OpenThreadKeeps DEF Steady
<1>2. SectionsGrow
  BY DEF own, SectionsGrow
<1>3. HandlesGrow /\ (\A b \in DOMAIN sections : Still(b)) /\ apcs' = apcs /\ reply' = reply
  <2>1. ASSUME NEW s \in Slots, objects[s].type = "thread", OpenHandle(s),
               UNCHANGED <<objects, waits, apcs, reply>>
        PROVE  HandlesGrow /\ (\A b \in DOMAIN sections : Still(b))
    <3>1. \A b \in DOMAIN sections : Slot(b) # s
      BY <2>1, SectionParts
    <3>2. HandlesGrow /\ \A b \in DOMAIN sections : Beside(b)
      BY <1>2, <2>1, <3>1, OpenBeside
    <3> QED  BY <2>1, <3>2 DEF Still
  <2>2. ASSUME NEW o, NEW signal, Create(o, signal)
        PROVE  HandlesGrow /\ (\A b \in DOMAIN sections : Still(b)) /\ apcs' = apcs /\ reply' = reply
    BY <1>2, <2>2, CreateAside
  <2> QED  BY <2>1, <2>2 DEF OpenThread
<1>4. PendingHeld'
  BY <1>1, <1>3, CalmKeeps, GrowingHeld DEF SecInv, Calm
<1> QED  BY <1>1, <1>3, <1>4, AsideKeeps DEF AsideStep

(* Handles that are closed or moved.                                        *)
LEMMA ClosedAside ==
    ASSUME IInv, IInv', SecInv, NEW h \in UsedHandles, waits' = FailWaits(h),
           \A k \in DOMAIN handles \ {h} : k \in DOMAIN handles' /\ handles'[k] = handles[k],
           \A k \in DOMAIN handles' : k \in DOMAIN handles \ {h} \/ handles'[k] = handles[h],
           \A s \in Slots : s # handles[h] => objects'[s] = objects[s],
           UNCHANGED <<apcs, reply>>, UNCHANGED own
    PROVE  AsideStep
<1>1. PendingHeld' /\ WaitsAdvance
  BY ClosedHeld DEF SecInv
<1>2. ASSUME NEW b \in DOMAIN sections PROVE Still(b)
  <2>1. h \in DOMAIN handles /\ h # sections[b] /\ handles[h] # Slot(b) /\ Slot(b) \in Slots
    BY UsedSlots, SectionParts
  <2>2. Waiting(Slot(b), waits') = Waiting(Slot(b), waits)
    BY <2>1, ClosedWaiting
  <2>3. sections[b] \in DOMAIN handles /\ Private(b) /\ sections' = sections
    BY DEF SecInv, SecTyped, own
  <2>4. \A k \in DOMAIN handles' : handles'[k] = Slot(b) => k = sections[b]
    BY <2>1, <2>3 DEF Private
  <2>5. Beside(b)
    BY <2>1, <2>3, <2>4 DEF Beside, Slot
  <2> QED  BY <2>1, <2>2, <2>5 DEF Still
<1> QED  BY <1>1, <1>2, AsideKeeps DEF AsideStep

LEMMA CloseHandleAside ==
    ASSUME IInv, SecInv, NEW t \in Threads, NEW h \in UsedHandles, CloseHandle(t, h), UNCHANGED own
    PROVE  AsideStep
<1>1. Close(h) /\ h \in DOMAIN handles
  BY UsedSlots DEF CloseHandle
<1>2. IInv'
  BY <1>1, CloseKeeps
<1>3. /\ waits' = FailWaits(h) /\ UNCHANGED <<apcs, reply>>
      /\ DOMAIN handles' = DOMAIN handles \ {h}
      /\ \A k \in DOMAIN handles \ {h} : handles'[k] = handles[k]
      /\ objects' = objects \/ objects' = [objects EXCEPT ![handles[h]] = Free]
  BY <1>1 DEF Close
<1>4. \A s \in Slots : s # handles[h] => objects'[s] = objects[s]
  BY <1>3, PlanFacts
<1>5. /\ \A k \in DOMAIN handles \ {h} : k \in DOMAIN handles' /\ handles'[k] = handles[k]
      /\ \A k \in DOMAIN handles' : k \in DOMAIN handles \ {h} \/ handles'[k] = handles[h]
  BY <1>3
<1> QED  BY <1>2, <1>3, <1>4, <1>5, ClosedAside

LEMMA DuplicateAside ==
    ASSUME IInv, SecInv, NEW t \in Threads, NEW h \in UsedHandles, DuplicateHandle(t, h),
           UNCHANGED own
    PROVE  AsideStep
<1>1. /\ h \in DOMAIN handles /\ handles[h] \in Slots
      /\ \A b \in DOMAIN sections : handles[h] # Slot(b)
  BY UsedSlots, HandleNames
<1>2. IInv' /\ WaitsAdvance
  BY <1>1, DuplicateKeeps DEF Steady
<1>3. UNCHANGED <<objects, apcs, reply>>
  BY DEF DuplicateHandle
<1>4. CASE OpenHandle(handles[h]) /\ UNCHANGED waits
  <2>1. HandlesGrow /\ \A b \in DOMAIN sections : Beside(b)
    BY <1>1, <1>4, OpenBeside DEF own, SectionsGrow
  <2>2. \A b \in DOMAIN sections : Still(b)
    BY <1>3, <1>4, <2>1 DEF Still
  <2>3. PendingHeld'
    BY <1>2, <1>3, <2>1, CalmKeeps, GrowingHeld DEF SecInv, Calm
  <2> QED  BY <1>2, <1>3, <2>2, <2>3, AsideKeeps DEF AsideStep
<1>5. CASE /\ handles' = [k \in (DOMAIN handles \ {h}) \cup {nextHandle'} |->
                             IF k = nextHandle' THEN handles[h] ELSE handles[k]]
           /\ nextHandle' = nextHandle + 1 /\ waits' = FailWaits(h)
  <2>1. nextHandle' \notin DOMAIN handles
    <3>1. nextHandle \in Nat /\ DOMAIN handles \subseteq 1 .. nextHandle
      BY DEF IInv, ObjectInv, HandlesTyped
    <3> QED  BY <1>5, <3>1
  <2>2. /\ \A k \in DOMAIN handles \ {h} : k \in DOMAIN handles' /\ handles'[k] = handles[k]
        /\ \A k \in DOMAIN handles' : k \in DOMAIN handles \ {h} \/ handles'[k] = handles[h]
    BY <1>5, <2>1
  <2> QED  BY <1>2, <1>3, <1>5, <2>2, ClosedAside
<1> QED  BY <1>4, <1>5 DEF DuplicateHandle

(* A section whose handle is not touched.                                   *)
LEMMA SameHandles ==
    ASSUME IInv, SecInv, UNCHANGED <<handles, sections>>, NEW b \in DOMAIN sections
    PROVE  Beside(b)
  BY DEF Beside, Slot, SecInv, SecTyped, Private

(* The plan of a release that frees the mutex.                              *)
LEMMA ReleasedPlan ==
    ASSUME IInv, NEW t \in Threads, NEW s \in Slots, objects[s].type = "mutex",
           objects[s].owner = t, objects[s].depth = 1,
           NEW p, p = SetSignal(PutObject(Plan, s, Released(objects[s])), s)
    PROVE  /\ SoundPlan(p, DOMAIN waits, live) /\ p.waits = waits
           /\ \A k \in Slots :
                  p.objects[k] = IF k = s THEN Released(objects[s]) ELSE objects[k]
           /\ p.objects[s].type = "mutex" /\ p.objects[s].owner = NoThread
           /\ p.objects[s].depth = 0
<1> PICK r : r = Released(objects[s])
  OBVIOUS
<1>1. /\ r \in ObjectKind /\ r.type = "mutex" /\ MutexSound(r, TRUE, live)
      /\ s \notin signaled /\ objects[s] \in MutexKind
  BY ReleasedMutex
<1>2. r.owner = NoThread /\ r.depth = 0
  BY <1>1 DEF Released, MutexKind
<1> PICK O : O = [objects EXCEPT ![s] = r]
  OBVIOUS
<1> PICK B : B = signaled \cup {s}
  OBVIOUS
<1>3. p = [objects |-> O, signaled |-> B, waits |-> waits]
  <2>1. PutObject(Plan, s, r) = [objects |-> O, signaled |-> signaled, waits |-> waits]
    BY DEF PutObject, Plan
  <2> QED  BY <2>1 DEF SetSignal
<1>4. SoundPlan(p, DOMAIN waits, live)
  <2>1. B \in SUBSET Slots /\ B \ {s} = Plan.signaled \ {s} /\ s \in B
    BY PlanFacts
  <2>2. ObjectSound(r, s \in B, live, nextHandle)
    BY <1>1, <2>1 DEF ObjectSound
  <2>3. p = [objects |-> [Plan.objects EXCEPT ![s] = r], signaled |-> B, waits |-> Plan.waits]
    BY <1>3, PlanFacts
  <2>4. r.type = objects[s].type /\ (r.type = "timer" => r.id = Plan.objects[s].id)
    BY <1>1
  <2>5. SoundPlan(Plan, DOMAIN waits, live)
    BY PlanFacts
  <2> QED  BY <1>1, <2>1, <2>2, <2>3, <2>4, <2>5, SoundPut
<1>5. \A k \in Slots : p.objects[k] = IF k = s THEN r ELSE objects[k]
  BY <1>3, PlanFacts
<1> QED  BY <1>1, <1>2, <1>3, <1>4, <1>5

(* A mutex that is released through a handle that is not private, or the    *)
(* mutex of one section: the other sections are left alone.                 *)
LEMMA ReleaseStill ==
    ASSUME IInv, SecInv, NEW t \in Threads, NEW h \in DOMAIN handles, Release(t, h),
           UNCHANGED sections, NEW b \in DOMAIN sections, handles[h] # Slot(b)
    PROVE  Still(b)
<1> PICK s : s = handles[h]
  OBVIOUS
<1> PICK o : o = objects[s]
  OBVIOUS
<1> PICK r : r = Released(o)
  OBVIOUS
<1> PICK p : p = SetSignal(PutObject(Plan, s, r), s)
  OBVIOUS
<1>1. s \in Slots /\ o.type = "mutex" /\ o.owner = t
  BY HandleNames DEF Release
<1>2. UNCHANGED handles /\ Beside(b)
  <2>1. UNCHANGED handles
    BY DEF Release, Signal
  <2> QED  BY <2>1, SameHandles
<1>3. CASE /\ o.depth = 1 /\ Waiters(s) # {}
           /\ Commit(ResolveWaiters(p, nextWait, now))
  <2>1. SoundPlan(p, DOMAIN waits, live) /\ p.waits = waits /\ p.objects[Slot(b)] = objects[Slot(b)]
    BY <1>1, <1>3, ReleasedPlan, SectionParts
  <2> QED  BY <1>2, <1>3, <2>1, PassStill
<1>4. CASE objects' = [objects EXCEPT ![s] = r] /\ UNCHANGED waits
  BY <1>1, <1>2, <1>4, SectionParts, PlanFacts DEF Still
<1> QED  BY <1>3, <1>4 DEF Release, Signal, Released

LEMMA ReleaseMutexAside ==
    ASSUME IInv, SecInv, NEW t \in Threads, NEW h \in UsedHandles, ReleaseMutex(t, h),
           UNCHANGED own
    PROVE  AsideStep
<1>1. /\ h \in DOMAIN handles /\ \A b \in DOMAIN sections : handles[h] # Slot(b)
      /\ Release(t, h) /\ UNCHANGED sections
  BY UsedSlots DEF ReleaseMutex, own
<1>2. \A b \in DOMAIN sections : Still(b)
  BY <1>1, ReleaseStill
<1>3. IInv' /\ WaitsAdvance
  BY <1>1, ReleaseKeeps DEF Steady
<1>4. UNCHANGED <<handles, apcs, reply>>
  BY <1>1 DEF Release, Signal
<1>5. PendingHeld'
  BY <1>3, <1>4, CalmKeeps, GrowingHeld DEF SecInv, Calm, HandlesGrow
<1> QED  BY <1>2, <1>3, <1>4, <1>5, AsideKeeps DEF AsideStep

(* A thread that runs does not enter.                                       *)
LEMMA RunningOutside ==
    ASSUME SecInv, NEW t \in Threads, Running(t)
    PROVE  entering[t] = NoAddress
<1>1. reply[t].wait = 0
  BY DEF Running, NoReply
<1> QED  BY <1>1 DEF SecInv, Inside

(* A wait call concerns the caller's reply alone.                           *)
LEMMA WaitReply ==
    ASSUME IInv, NEW p, NEW w, NEW timeout, WaitOn(p, w, timeout),
           NEW u \in Threads, u # w.thread
    PROVE  reply'[u] = reply[u]
<1>1. reply \in [Threads -> Reply]
  BY DEF IInv, WaitInv, FramesTyped
<1> QED  BY <1>1 DEF WaitOn, Answer

(* A wait call leaves the sections alone that it does not name.             *)
LEMMA WaitStill ==
    ASSUME IInv, SecInv, NEW t \in Threads, Running(t), NEW w \in WaitRecord, Fits(w),
           w.thread = t, NEW timeout, WaitOn(Plan, w, timeout), UNCHANGED sections,
           NEW b \in DOMAIN sections, \A i \in DOMAIN w.slots : w.slots[i] # Slot(b)
    PROVE  Still(b)
<1> PICK p : p = Plan
  OBVIOUS
<1> PICK s : s = Slot(b)
  OBVIOUS
<1> PICK D : D = DOMAIN waits
  OBVIOUS
<1>1. /\ SoundPlan(p, D, live) /\ p \in Plans(D) /\ p.waits = waits /\ p.objects = objects
      /\ DOMAIN p.waits = D
  BY PlanFacts DEF SoundPlan
<1>2. s \in Slots /\ refs[s] # 0
  BY SectionParts
<1>3. Beside(b) /\ w.thread \in live
  <2>1. UNCHANGED handles
    BY DEF WaitOn
  <2> QED  BY <2>1, SameHandles DEF Running
<1>4. ASSUME NEW E, NEW q \in Plans(E), Commit(q), q.objects[s] = objects[s],
             Waiting(s, q.waits) = Waiting(s, waits)
      PROVE  Still(b)
  BY <1>2, <1>3, <1>4, CommitSlot DEF Still
<1>5. CASE Commit(p)
  BY <1>1, <1>4, <1>5
<1>6. CASE Satisfied(p, w) /\ Commit(TakeObjects(p, w))
  <2> PICK q : q = TakeObjects(p, w)
    OBVIOUS
  <2>1. s \notin Taken(p, w)
    BY <1>6, TakenNamed
  <2>2. q \in Plans(D) /\ q.waits = waits /\ q.objects[s] = objects[s]
    BY <1>1, <1>2, <1>6, <2>1, TakeParts
  <2> QED  BY <1>4, <1>6, <2>2
<1>7. CASE Commit(Entered(p, w))
  <2> PICK n : n = nextWait + 1
    OBVIOUS
  <2> PICK q : q = Entered(p, w)
    OBVIOUS
  <2>1. EnteredIn(p, Entered(p, w), w, DOMAIN waits, nextWait + 1)
    BY <1>1, <1>3, EnteredParts
  <2>2. EnteredIn(p, q, w, D, n)
    BY <2>1
  <2>3. /\ q \in Plans(D \cup {n}) /\ q.objects[s] = objects[s]
        /\ DOMAIN q.waits = D \cup {n} /\ q.waits[n] = w /\ n \notin D
        /\ \A k \in D : q.waits[k] = waits[k]
    BY <1>1, <2>2 DEF EnteredIn, SoundPlan
  <2>4. Waiting(s, q.waits) = Waiting(s, waits)
    BY <2>3 DEF Waiting
  <2> QED  BY <1>4, <1>7, <2>3, <2>4
<1> QED  BY <1>5, <1>6, <1>7 DEF WaitOn, Entered

LEMMA WaitForObjectsAside ==
    ASSUME IInv, SecInv, NEW t \in Threads, WaitForObjects(t, UsedHandles), UNCHANGED own
    PROVE  AsideStep
<1>1. PICK mode \in {"any", "all"}, timeout \in Timeouts, alertable \in Alertable :
        /\ Running(t)
        /\ \E n \in 1 .. 2 : \E hs \in [1 .. n -> UsedHandles] :
             WaitOn(Plan, NewWait(t, hs, mode, timeout, alertable), timeout)
  BY DEF WaitForObjects, Call
<1>2. PICK n \in 1 .. 2 : \E hs \in [1 .. n -> UsedHandles] :
             WaitOn(Plan, NewWait(t, hs, mode, timeout, alertable), timeout)
  BY <1>1
<1>3. PICK hs \in [1 .. n -> UsedHandles] :
             WaitOn(Plan, NewWait(t, hs, mode, timeout, alertable), timeout)
  BY <1>2
<1>4. PICK w : w = NewWait(t, hs, mode, timeout, alertable)
  OBVIOUS
<1>5. /\ UsedHandles \in SUBSET DOMAIN handles
      /\ mode \in {"any", "all", "sleep"} /\ alertable \in BOOLEAN
      /\ timeout \in Nat \cup {Never}
  BY AlertableTyped, BoundsAssumption DEF UsedHandles
<1>6. hs \in Seq(DOMAIN handles) /\ Len(hs) <= 64 /\ DOMAIN hs = 1 .. n
  <2>1. hs \in [1 .. n -> DOMAIN handles] /\ n \in Nat
    BY <1>5
  <2>2. hs \in Seq(DOMAIN handles) /\ Len(hs) = n
    BY <2>1
  <2> QED  BY <2>2
<1>7. /\ w \in WaitRecord /\ Fits(w) /\ w.thread = t /\ w.handles = hs
      /\ \A i \in DOMAIN hs : w.slots[i] = handles[hs[i]]
  <2>1. hs \in Seq(DOMAIN handles) /\ Len(hs) <= 64
    BY <1>6
  <2>2. mode \in {"any", "all", "sleep"} /\ alertable \in BOOLEAN /\ timeout \in Nat \cup {Never}
    BY <1>5
  <2>3. w \in WaitRecord /\ Fits(w) /\ w.thread = t /\ w.handles = hs
    BY <1>4, <2>1, <2>2, NewWaitFits
  <2>4. \A i \in DOMAIN hs : w.slots[i] = handles[hs[i]]
    BY ONLY <1>4 DEF NewWait
  <2> QED  BY <2>3, <2>4
<1>8. WaitOn(Plan, w, timeout)
  BY <1>3, <1>4
<1>9. IInv' /\ WaitsAdvance
  BY <1>5, WaitForObjectsKeeps DEF Steady
<1>10. ASSUME NEW b \in DOMAIN sections PROVE Still(b)
  <2>1. \A i \in DOMAIN w.slots : w.slots[i] # Slot(b)
    <3>1. ASSUME NEW i \in DOMAIN w.slots PROVE w.slots[i] # Slot(b)
      <4>1. i \in DOMAIN hs /\ hs[i] \in UsedHandles
        BY <1>6, <1>7 DEF Fits
      <4> QED  BY <1>7, <4>1, UsedSlots
    <3> QED  BY <3>1
  <2>2. UNCHANGED sections
    BY DEF own
  <2> QED  BY <1>1, <1>7, <1>8, <2>1, <2>2, WaitStill
<1>11. UNCHANGED <<handles, apcs>>
  BY <1>8 DEF WaitOn
<1>12. PendingHeld'
  BY <1>9, <1>11, CalmKeeps, GrowingHeld DEF SecInv, Calm, HandlesGrow
<1>13. \A u \in Threads : entering[u] # NoAddress => reply'[u] = reply[u]
  BY <1>1, <1>7, <1>8, WaitReply, RunningOutside
<1> QED  BY <1>9, <1>10, <1>11, <1>12, <1>13, AsideKeeps DEF AsideStep

(* A wait that leaves the table.                                            *)
LEMMA ForgetWaiting ==
    ASSUME NEW id, waits' = Forget(id)
    PROVE  /\ \A s : Waiting(s, waits') = Waiting(s, waits) \ {id}
           /\ DOMAIN waits' = DOMAIN waits \ {id}
           /\ \A w \in DOMAIN waits \ {id} : waits'[w] = waits[w]
<1>1. DOMAIN waits' = DOMAIN waits \ {id} /\ \A w \in DOMAIN waits \ {id} : waits'[w] = waits[w]
  BY DEF Forget
<1> QED  BY <1>1 DEF Waiting

(* What the end of a blocked call does, whoever ends it.                    *)
LEMMA ForgetParts ==
    ASSUME IInv, SecInv, NEW t \in Threads, waits' = Forget(reply[t].wait),
           reply' = [reply EXCEPT ![t] = NoReply],
           UNCHANGED <<objects, signaled, refs, handles, nextHandle, nextWait, apcs, now,
                       queue, live>>
    PROVE  /\ IInv' /\ WaitsAdvance /\ WaitsFall /\ Calm' /\ PendingHeld'
           /\ \A u \in Threads : reply'[u] = IF u = t THEN NoReply ELSE reply[u]
<1>1. IInv' /\ WaitsAdvance
  BY ForgetKeeps DEF Steady
<1>2. Calm' /\ WaitsFall /\ PendingHeld'
  BY <1>1, CalmKeeps, GrowingHeld DEF SecInv, Calm, HandlesGrow
<1>3. reply \in [Threads -> Reply]
  BY DEF IInv, WaitInv, FramesTyped
<1> QED  BY <1>1, <1>2, <1>3

LEMMA FinishReplyAside ==
    ASSUME IInv, SecInv, NEW t \in Threads, entering[t] = NoAddress, FinishReply(t),
           UNCHANGED own
    PROVE  AsideStep
<1>1. /\ waits' = Forget(reply[t].wait) /\ reply' = [reply EXCEPT ![t] = NoReply]
      /\ UNCHANGED <<objects, signaled, refs, handles, nextHandle, nextWait, apcs, now,
                     queue, live>>
      /\ Answered(t)
  BY DEF FinishReply
<1>2. /\ IInv' /\ WaitsAdvance /\ PendingHeld'
      /\ \A u \in Threads : reply'[u] = IF u = t THEN NoReply ELSE reply[u]
  BY <1>1, ForgetParts
<1>3. ASSUME NEW b \in DOMAIN sections PROVE Still(b)
  <2>1. Waiting(Slot(b), waits') = Waiting(Slot(b), waits) \ {reply[t].wait}
    BY <1>1, ForgetWaiting
  <2>2. reply[t].wait \notin Waiting(Slot(b), waits)
    <3>1. 0 \notin DOMAIN waits
      BY DEF IInv, WaitInv, WaitsTyped
    <3> QED  BY <1>1, <3>1 DEF Answered, Waiting
  <2>3. Beside(b)
    BY <1>1, SameHandles DEF own
  <2> QED  BY <1>1, <2>1, <2>2, <2>3 DEF Still
<1>4. apcs' = apcs /\ \A u \in Threads : entering[u] # NoAddress => reply'[u] = reply[u]
  BY <1>1, <1>2
<1> QED  BY <1>2, <1>3, <1>4, AsideKeeps DEF AsideStep

LEMMA OtherCallAside ==
    ASSUME IInv, SecInv, NEW t \in Threads, OtherCall(t)
    PROVE  AsideStep
  BY CreateMutexAside, OpenThreadAside, DuplicateAside, CloseHandleAside, ReleaseMutexAside,
     WaitForObjectsAside, FinishReplyAside DEF OtherCall

-----------------------------------------------------------------------------
(* A call on section a leaves the other sections alone.                     *)

AsideOf(a) ==
    /\ \A b \in DOMAIN sections \ {a} : /\ Still(b) /\ copy'[b] = copy[b]
                                        /\ b \in disturbed => b \in disturbed'
    /\ DOMAIN sections' \subseteq DOMAIN sections \cup {a}
    /\ stale \subseteq stale'
    /\ \A u \in Threads : /\ entering[u] \notin {NoAddress, a} => entering'[u] = entering[u]
                          /\ entering'[u] \notin {NoAddress, a} =>
                                 entering'[u] = entering[u] /\ reply'[u] = reply[u]

LEMMA OthersKeep ==
    ASSUME IInv, IInv', SecInv, SecTyped', Calm', PendingHeld', WaitsFall,
           NEW a \in Addresses, AsideOf(a),
           a \in DOMAIN sections' => Private(a)' /\ Exact(a)',
           \A u \in Threads : entering'[u] = a => Inside(u)'
    PROVE  SecInv' /\ \A b \in Addresses \ {a} : SameLock(b)
<1>1. a # NoAddress
  BY AddressesAssumption
<1>2. ASSUME NEW b \in DOMAIN sections, b # a
      PROVE  Private(b)' /\ Exact(b)' /\ SameLock(b)
  <2>1. /\ Still(b) /\ copy'[b] = copy[b] /\ (b \in disturbed => b \in disturbed')
        /\ (b \in stale => b \in stale') /\ Exact(b) /\ b # NoAddress
        /\ \A u \in Threads : entering[u] = b => entering'[u] = b
    BY <1>2, SectionParts DEF AsideOf, SecInv
  <2> QED  BY <2>1, StillPrivate, StillExact, StillSame
<1>3. ASSUME NEW u \in Threads PROVE Inside(u)'
  <2>1. CASE entering'[u] = a
    BY <2>1
  <2>2. CASE entering'[u] # a
    <3>1. entering'[u] # NoAddress => /\ entering[u] = entering'[u] /\ reply'[u] = reply[u]
                                      /\ entering[u] \in DOMAIN sections \ {a}
      BY <2>2 DEF AsideOf, SecInv, Inside
    <3>2. entering'[u] # NoAddress => Still(entering[u])
      BY <3>1 DEF AsideOf
    <3> QED  BY <3>1, <3>2, StillInside
  <2> QED  BY <2>1, <2>2
<1>4. ASSUME NEW b \in Addresses \ {a} PROVE SameLock(b)
  <2>1. CASE b \in DOMAIN sections
    BY <1>2, <2>1
  <2>2. CASE b \notin DOMAIN sections
    <3>1. b \notin DOMAIN sections'
      BY <2>2 DEF AsideOf
    <3> QED  BY <2>2, <3>1, AbsentSame
  <2> QED  BY <2>1, <2>2
<1>5. \A b \in DOMAIN sections' : b = a \/ b \in DOMAIN sections
  BY DEF AsideOf
<1> QED  BY <1>2, <1>3, <1>4, <1>5 DEF SecInv

(* All sections are left alone, though one of them may be remapped, or      *)
(* published once more.                                                     *)
LEMMA AllStill ==
    ASSUME IInv, IInv', SecInv, SecTyped', Calm', PendingHeld', WaitsFall,
           NEW a \in DOMAIN sections, AsideOf(a), Still(a), Exact(a)',
           \A u \in Threads :
               entering'[u] = a => entering[u] = a /\ reply'[u] = reply[u],
           \A u \in Threads : entering[u] = a /\ entering'[u] # a /\ reply[u].wait # 0 =>
               waits[reply[u].wait].result # Pending
    PROVE  SecInv' /\ UNCHANGED Lock!lock
<1>1. a \in Addresses
  BY SectionParts
<1>2. ASSUME NEW w \in Waiting(Slot(a), waits') PROVE entering'[waits'[w].thread] = a
  <2>1. w \in Waiting(Slot(a), waits) /\ w \in DOMAIN waits'
    BY DEF Still, Waiting
  <2>2. /\ w \in DOMAIN waits /\ waits[w].thread \in Threads /\ entering[waits[w].thread] = a
        /\ reply[waits[w].thread].wait = w /\ waits[w].result = Pending
    BY <2>1, WaiterParts
  <2>3. waits'[w].thread = waits[w].thread
    BY <2>1, <2>2 DEF WaitsFall, SameWait
  <2>4. w # 0
    BY <2>2 DEF IInv, WaitInv, WaitsTyped
  <2> QED  BY <2>2, <2>3, <2>4
<1>3. objects'[Slot(a)].type = "mutex"
  BY SectionParts DEF Still
<1>4. Private(a)'
  BY <1>2, <1>3, BesidePrivate DEF Still
<1>5. \A u \in Threads : entering'[u] = a => Inside(u)'
  BY StillInside
<1>6. SecInv' /\ \A b \in Addresses \ {a} : SameLock(b)
  BY <1>1, <1>4, <1>5, OthersKeep
<1>7. SameLock(a)
  BY StillSame
<1> QED  BY <1>6, <1>7, LockStutters

LEMMA RemapAside ==
    ASSUME IInv, SecInv, NEW t \in Threads, NEW a \in Addresses, Remap(t, a)
    PROVE  AsideStep
<1>1. /\ a \in DOMAIN sections /\ stale' = stale \cup {a}
      /\ UNCHANGED <<vars, sections, copy, entering, disturbed>>
  BY DEF Remap
<1>2. UNCHANGED <<objects, handles, waits, apcs, reply>>
  BY <1>1 DEF vars, context
<1>3. IInv'
  BY <1>1, StutterKeeps
<1>4. SecTyped' /\ Calm' /\ PendingHeld' /\ WaitsFall
  BY <1>1, <1>2 DEF SecInv, SecTyped, Calm, PendingHeld, WaitsFall, SameWait
<1>5. \A b \in DOMAIN sections : Still(b)
  BY <1>1, <1>2, SameHandles DEF Still
<1>6. AsideOf(a)
  BY <1>1, <1>2, <1>5 DEF AsideOf
<1>7. Exact(a)'
  BY <1>1 DEF Exact
<1> QED  BY <1>1, <1>2, <1>3, <1>4, <1>5, <1>6, <1>7, AllStill DEF AsideStep

(* advance_synchronization_reply of a blocked EnterCriticalSection          *)
LEMMA FinishEnterAside ==
    ASSUME IInv, SecInv, NEW t \in Threads, FinishEnter(t)
    PROVE  AsideStep
<1> PICK a : a = entering[t]
  OBVIOUS
<1>1. /\ a \in DOMAIN sections /\ a # NoAddress /\ FinishReply(t) /\ Publish(a)
      /\ entering' = [entering EXCEPT ![t] = NoAddress] /\ UNCHANGED <<sections, stale>>
  BY DEF FinishEnter, Usable
<1>2. /\ waits' = Forget(reply[t].wait) /\ reply' = [reply EXCEPT ![t] = NoReply]
      /\ UNCHANGED <<objects, signaled, refs, handles, nextHandle, nextWait, apcs, now,
                     queue, live>>
      /\ Answered(t)
  BY <1>1 DEF FinishReply
<1>3. /\ IInv' /\ PendingHeld' /\ Calm' /\ WaitsFall
      /\ \A u \in Threads : reply'[u] = IF u = t THEN NoReply ELSE reply[u]
  BY <1>2, ForgetParts
<1>4. \A u \in Threads : entering'[u] = IF u = t THEN NoAddress ELSE entering[u]
  BY <1>1 DEF SecInv, SecTyped
<1>5. ASSUME NEW b \in DOMAIN sections PROVE Still(b)
  <2>1. Waiting(Slot(b), waits') = Waiting(Slot(b), waits) \ {reply[t].wait}
    BY <1>2, ForgetWaiting
  <2>2. reply[t].wait \notin Waiting(Slot(b), waits)
    <3>1. 0 \notin DOMAIN waits
      BY DEF IInv, WaitInv, WaitsTyped
    <3> QED  BY <1>2, <3>1 DEF Answered, Waiting
  <2>3. Beside(b)
    BY <1>1, <1>2, SameHandles
  <2> QED  BY <1>2, <2>1, <2>2, <2>3 DEF Still
<1>6. Exact(a)' /\ DOMAIN copy' = Addresses
  BY <1>1, <1>5, PublishedExact DEF Still
<1>7. SecTyped'
  <2>1. entering' \in [Threads -> Addresses \cup {NoAddress}]
    BY <1>1 DEF SecInv, SecTyped
  <2> QED  BY <1>1, <1>2, <1>6, <2>1 DEF SecInv, SecTyped
<1>8. \A b \in Addresses \ {a} : copy'[b] = copy[b] /\ (b \in disturbed => b \in disturbed')
  BY <1>1 DEF Publish, SecInv, SecTyped
<1>9. AsideOf(a)
  <2>1. \A b \in DOMAIN sections : b \in Addresses
    BY DEF SecInv, SecTyped
  <2> QED  BY <1>1, <1>3, <1>4, <1>5, <1>8, <2>1 DEF AsideOf
<1>10. \A u \in Threads : entering[u] = a /\ entering'[u] # a /\ reply[u].wait # 0 =>
           waits[reply[u].wait].result # Pending
  BY <1>2, <1>4 DEF Answered
<1> QED  BY <1>1, <1>3, <1>4, <1>5, <1>6, <1>7, <1>9, <1>10, AllStill DEF AsideStep

-----------------------------------------------------------------------------
(* Steps of the lock.                                                       *)

(* A thread that runs is in no queue.                                       *)
LEMMA NotBlocked ==
    ASSUME IInv, SecInv, NEW t \in Threads, Running(t)
    PROVE  ~Lock!Blocked(t)
<1> SUFFICES ASSUME NEW a \in Addresses, NEW i \in DOMAIN Queue(a), Queue(a)[i] = t
             PROVE  FALSE
  BY DEF Lock!Blocked
<1> PICK W : W = Members(a)
  OBVIOUS
<1>1. Queue(a) = Line(W, waits)
  BY QueueIsLine
<1>2. W \in SUBSET Nat /\ IsFiniteSet(W)
  BY SectionParts, FS_EmptySet DEF Members
<1>3. PICK w \in W : Place(w, W) = i
  <2>1. /\ DOMAIN Line(W, waits) = 1 .. Cardinality(W)
        /\ \A k \in 1 .. Cardinality(W) : \E w \in W : Place(w, W) = k
    BY <1>2, LineParts
  <2>2. i \in 1 .. Cardinality(W)
    BY <1>1, <2>1
  <2> QED  BY <2>1, <2>2
<1>4. waits[w].thread = t
  <2>1. Line(W, waits)[Place(w, W)] = waits[w].thread
    BY <1>2, LineParts
  <2> QED  BY <1>1, <1>3, <2>1
<1>5. a \in DOMAIN sections /\ w \in Waiting(Slot(a), waits)
  BY DEF Members
<1> QED  BY <1>4, <1>5, WaiterParts DEF Running

(* What the lock of section a becomes, when the others stay the same.       *)
BecomesAt(a, o, d, q) ==
    /\ \A b \in Addresses \ {a} : SameLock(b)
    /\ Holder(a)' = o /\ Depth(a)' = d /\ Queue(a)' = q

LocksAt(a, o, d, q) ==
    /\ [b \in Addresses |-> Holder(b)]' = [[b \in Addresses |-> Holder(b)] EXCEPT ![a] = o]
    /\ [b \in Addresses |-> Depth(b)]' = [[b \in Addresses |-> Depth(b)] EXCEPT ![a] = d]
    /\ [b \in Addresses |-> Queue(b)]' = [[b \in Addresses |-> Queue(b)] EXCEPT ![a] = q]

LEMMA LockBecomes ==
    ASSUME NEW a \in Addresses, NEW o, NEW d, NEW q, BecomesAt(a, o, d, q)
    PROVE  LocksAt(a, o, d, q)
<1>1. [b \in Addresses |-> Holder(b)]' = [[b \in Addresses |-> Holder(b)] EXCEPT ![a] = o]
  BY DEF BecomesAt, SameLock
<1>2. [b \in Addresses |-> Depth(b)]' = [[b \in Addresses |-> Depth(b)] EXCEPT ![a] = d]
  BY DEF BecomesAt, SameLock
<1>3. [b \in Addresses |-> Queue(b)]' = [[b \in Addresses |-> Queue(b)] EXCEPT ![a] = q]
  BY DEF BecomesAt, SameLock
<1> QED  BY <1>1, <1>2, <1>3 DEF LocksAt

(* The lock of a is the same too.                                           *)
LEMMA LockAtSame ==
    ASSUME NEW a \in Addresses, BecomesAt(a, Holder(a), Depth(a), Queue(a))
    PROVE  UNCHANGED Lock!lock
<1>1. SameLock(a)
  BY DEF BecomesAt, SameLock
<1> QED  BY <1>1, LockStutters DEF BecomesAt

LEMMA LockEnters ==
    ASSUME NEW a \in Addresses, NEW t \in Threads, ~Lock!Blocked(t),
           Holder(a) \in {NoThread, t}, BecomesAt(a, t, Depth(a) + 1, Queue(a))
    PROVE  LockStep
<1>1. LocksAt(a, t, Depth(a) + 1, Queue(a))
  BY LockBecomes
<1>2. Lock!Enter(t, a)
  BY <1>1 DEF LocksAt, Lock!Enter
<1> QED  BY <1>2 DEF LockStep, Lock!Next

LEMMA LockAwaits ==
    ASSUME NEW a \in Addresses, NEW t \in Threads, ~Lock!Blocked(t),
           Holder(a) \notin {NoThread, t},
           BecomesAt(a, Holder(a), Depth(a), Append(Queue(a), t))
    PROVE  LockStep
<1>1. LocksAt(a, Holder(a), Depth(a), Append(Queue(a), t))
  BY LockBecomes
<1>2. Lock!Await(t, a)
  BY <1>1 DEF LocksAt, Lock!Await
<1> QED  BY <1>2 DEF LockStep, Lock!Next

(* The three ways to leave: not the last time, with nobody waiting, and     *)
(* handing the lock on.                                                     *)
LEMMA LockLeaves ==
    ASSUME NEW a \in Addresses, NEW t \in Threads, ~Lock!Blocked(t), Holder(a) = t,
           NEW o, NEW d, NEW q, BecomesAt(a, o, d, q),
           \/ Depth(a) # 1 /\ o = t /\ d = Depth(a) - 1 /\ q = Queue(a)
           \/ Depth(a) = 1 /\ Queue(a) = <<>> /\ o = NoThread /\ d = 0 /\ q = Queue(a)
           \/ /\ Depth(a) = 1 /\ Queue(a) # <<>>
              /\ o = Head(Queue(a)) /\ o # NoThread /\ d = 1 /\ q = Tail(Queue(a))
    PROVE  LockStep
<1>1. LocksAt(a, o, d, q)
  BY LockBecomes
<1>2. Lock!Leave(t, a)
  <2>1. CASE Depth(a) # 1 /\ o = t /\ d = Depth(a) - 1 /\ q = Queue(a)
    BY <1>1, <2>1 DEF LocksAt, Lock!Leave
  <2>2. CASE Depth(a) = 1 /\ Queue(a) = <<>> /\ o = NoThread /\ d = 0 /\ q = Queue(a)
    BY <1>1, <2>2 DEF LocksAt, Lock!Leave
  <2>3. CASE /\ Depth(a) = 1 /\ Queue(a) # <<>>
             /\ o = Head(Queue(a)) /\ o # NoThread /\ d = 1 /\ q = Tail(Queue(a))
    BY <1>1, <2>3 DEF LocksAt, Lock!Leave
  <2> QED  BY <2>1, <2>2, <2>3
<1> QED  BY <1>2 DEF LockStep, Lock!Next

LEMMA LockWithdraws ==
    ASSUME NEW a \in Addresses, NEW t \in Threads,
           BecomesAt(a, Holder(a), Depth(a), Lock!Others(t, Queue(a)))
    PROVE  LockStep
<1> PICK q : q = Lock!Others(t, Queue(a))
  OBVIOUS
<1>1. LocksAt(a, Holder(a), Depth(a), q)
  BY LockBecomes
<1>2. [b \in Addresses |-> Queue(b)][a] = Queue(a)
  OBVIOUS
<1>3. Lock!Withdraw(t, a)
  BY <1>1, <1>2 DEF LocksAt, Lock!Withdraw
<1> QED  BY <1>3 DEF LockStep, Lock!Next

-----------------------------------------------------------------------------
(* The calls on a section.                                                  *)

SectionStep == IInv' /\ SecInv' /\ LockStep

LEMMA AsideIsStep == AsideStep => SectionStep
  BY DEF AsideStep, SectionStep, LockStep

(* Waits for a slot that is free, or was until now: there are none.         *)
LEMMA FreeUnawaited ==
    ASSUME IInv, SecInv, NEW s \in Slots, objects[s].type = "free"
    PROVE  Waiting(s, waits) = {}
<1> SUFFICES ASSUME NEW w \in Waiting(s, waits) PROVE FALSE
  OBVIOUS
<1>1. w \in DOMAIN waits /\ waits[w].result = Pending
  BY DEF Waiting
<1>2. PICK i \in DOMAIN waits[w].slots : waits[w].slots[i] = s
  BY DEF Waiting
<1>3. i \in DOMAIN waits[w].handles
  BY <1>1, <1>2 DEF IInv, WaitInv, WaitsFit, Fits
<1>4. waits[w].handles[i] \in DOMAIN handles /\ handles[waits[w].handles[i]] = s
  BY <1>1, <1>2, <1>3 DEF SecInv, PendingHeld, Held
<1> QED  BY <1>4, HandleNames

LEMMA InitializeAside ==
    ASSUME IInv, SecInv, NEW t \in Threads, NEW a \in Addresses, InitializeCriticalSection(t, a)
    PROVE  AsideStep
<1> PICK o : o = [type |-> "mutex", owner |-> NoThread, depth |-> 0, abandoned |-> FALSE]
  OBVIOUS
<1> PICK n : n = nextHandle + 1
  OBVIOUS
<1>1. /\ a \notin DOMAIN sections /\ Create(o, TRUE) /\ t \in live
      /\ sections' = [b \in DOMAIN sections \cup {a} |->
                        IF b = a THEN nextHandle' ELSE sections[b]]
      /\ copy' = [copy EXCEPT ![a] = Words(NoThread, 0, 0)]
      /\ disturbed' = disturbed \ {a}
      /\ UNCHANGED <<stale, entering>>
  BY DEF InitializeCriticalSection, Running
<1>2. PICK s \in Slots : /\ FirstFree(s) /\ OpenHandle(s)
                         /\ objects' = [objects EXCEPT ![s] = o]
                         /\ UNCHANGED <<waits, apcs, reply>>
  BY <1>1 DEF Create
<1>3. IInv' /\ WaitsAdvance
  <2>1. o = [type |-> "mutex", owner |-> IF FALSE THEN t ELSE NoThread,
             depth |-> IF FALSE THEN 1 ELSE 0, abandoned |-> FALSE]
    OBVIOUS
  <2>2. Create([type |-> "mutex", owner |-> IF FALSE THEN t ELSE NoThread,
                depth |-> IF FALSE THEN 1 ELSE 0, abandoned |-> FALSE], ~FALSE)
    BY <1>1, <2>1
  <2> QED  BY <1>1, <2>2, CreateMutexKeeps DEF Steady
<1>4. SectionsGrow
  BY <1>1 DEF SectionsGrow
<1>5. HandlesGrow /\ (\A b \in DOMAIN sections : Still(b)) /\ apcs' = apcs /\ reply' = reply
  BY <1>1, <1>4, CreateAside
<1>6. Calm' /\ WaitsFall /\ PendingHeld'
  BY <1>3, <1>5, CalmKeeps, GrowingHeld DEF SecInv, Calm
<1>7. n \notin DOMAIN handles /\ nextHandle' = n
  <2>1. nextHandle \in Nat /\ DOMAIN handles \subseteq 1 .. nextHandle
    BY DEF IInv, ObjectInv, HandlesTyped
  <2> QED  BY <1>2, <2>1 DEF OpenHandle
<1>8. /\ DOMAIN handles' = DOMAIN handles \cup {n} /\ handles'[n] = s
      /\ \A h \in DOMAIN handles : handles'[h] = handles[h]
  BY <1>2, <1>7 DEF OpenHandle
<1>9. /\ DOMAIN sections' = DOMAIN sections \cup {a} /\ sections'[a] = n
      /\ \A b \in DOMAIN sections : sections'[b] = sections[b]
  BY <1>1, <1>7
<1>10. Slot(a)' = s /\ objects'[s] = o /\ Waiting(s, waits') = {}
  <2>1. objects \in [Slots -> ObjectKind]
    BY PlanFacts
  <2>2. Waiting(s, waits) = {}
    BY <1>2, FreeUnawaited DEF FirstFree
  <2> QED  BY <1>2, <1>8, <1>9, <2>1, <2>2 DEF Slot
<1>11. SecTyped'
  <2>1. DOMAIN sections' \subseteq Addresses /\ DOMAIN copy' = Addresses
    BY <1>1, <1>9 DEF SecInv, SecTyped
  <2>2. \A b \in DOMAIN sections : sections[b] \in DOMAIN handles
    BY DEF SecInv, SecTyped
  <2>3. \A b \in DOMAIN sections' : sections'[b] \in DOMAIN handles'
    BY <1>8, <1>9, <2>2
  <2>4. \A b, c \in DOMAIN sections' : sections'[b] = sections'[c] => b = c
    BY <1>7, <1>9, <2>2 DEF SecInv, SecTyped
  <2> QED  BY <1>1, <2>1, <2>3, <2>4 DEF SecInv, SecTyped
<1>12. Private(a)'
  <2>1. \A h \in DOMAIN handles' : handles'[h] = s => h = n
    <3>1. \A h \in DOMAIN handles : handles[h] # s
      BY <1>2, HandleNames DEF FirstFree
    <3> QED  BY <1>8, <3>1
  <2> QED  BY <1>9, <1>10, <2>1 DEF Private
<1>13. copy'[a] = Words(NoThread, 0, 0)
  BY <1>1 DEF SecInv, SecTyped
<1>14. Exact(a)'
  <2>1. Cardinality({}) = 0
    BY FS_EmptySet
  <2> QED  BY <1>10, <1>13, <2>1 DEF Exact
<1>15. \A u \in Threads : entering'[u] # a
  <2>1. \A u \in Threads : entering[u] # NoAddress => entering[u] \in DOMAIN sections
    BY DEF SecInv, Inside
  <2> QED  BY <1>1, <2>1, AddressesAssumption
<1>16. AsideOf(a)
  <2>1. \A b \in DOMAIN sections \ {a} : copy'[b] = copy[b]
    BY <1>1 DEF SecInv, SecTyped
  <2> QED  BY <1>1, <1>5, <1>9, <2>1 DEF AsideOf
<1>17. SecInv' /\ \A b \in Addresses \ {a} : SameLock(b)
  BY <1>3, <1>6, <1>11, <1>12, <1>14, <1>15, <1>16, OthersKeep
<1>18. SameLock(a)
  <2>1. Members(a) = {} /\ Members(a)' = {}
    <3>1. Members(a)' = Waiting(Slot(a)', waits')
      BY <1>9 DEF Members
    <3> QED  BY <1>1, <1>10, <3>1 DEF Members
  <2>2. Line({}, waits') = Line({}, waits)
    BY LineSame, FS_EmptySet
  <2>3. Queue(a)' = Queue(a)
    BY <2>1, <2>2, QueueIsLine
  <2>4. Holder(a)' = Holder(a) /\ Depth(a)' = Depth(a)
    <3>1. o.owner = NoThread /\ o.depth = 0
      OBVIOUS
    <3>2. Holder(a) = NoThread /\ Depth(a) = 0
      BY <1>1 DEF Holder, Depth
    <3>3. Holder(a)' = objects'[Slot(a)'].owner /\ Depth(a)' = objects'[Slot(a)'].depth
      BY <1>9 DEF Holder, Depth
    <3> QED  BY <1>10, <3>1, <3>2, <3>3
  <2> QED  BY <2>3, <2>4 DEF SameLock
<1> QED  BY <1>3, <1>17, <1>18, LockStutters DEF AsideStep

(* A section nobody is inside of or waits for: nobody enters it either.     *)
LEMMA NobodyEnters ==
    ASSUME IInv, SecInv, NEW a \in DOMAIN sections, objects[Slot(a)].owner = NoThread,
           NEW u \in Threads
    PROVE  entering[u] # a
<1> SUFFICES ASSUME entering[u] = a PROVE FALSE
  OBVIOUS
<1>1. Inside(u) /\ a # NoAddress /\ u # NoThread
  BY SectionParts, NoThreadAssumption DEF SecInv
<1> QED  BY <1>1 DEF Inside

LEMMA DeleteAside ==
    ASSUME IInv, SecInv, NEW t \in Threads, NEW a \in Addresses, DeleteCriticalSection(t, a)
    PROVE  AsideStep
<1> PICK h : h = sections[a]
  OBVIOUS
<1>1. /\ a \in DOMAIN sections /\ objects[Slot(a)].owner = NoThread /\ Close(h)
      /\ sections' = [b \in DOMAIN sections \ {a} |-> sections[b]]
      /\ UNCHANGED <<copy, stale, entering, disturbed>>
  BY DEF DeleteCriticalSection, Usable
<1>2. h \in DOMAIN handles /\ handles[h] = Slot(a)
  BY <1>1 DEF SecInv, SecTyped, Slot
<1>3. IInv'
  BY <1>1, <1>2, CloseKeeps
<1>4. /\ waits' = FailWaits(h) /\ UNCHANGED <<apcs, reply>>
      /\ DOMAIN handles' = DOMAIN handles \ {h}
      /\ \A k \in DOMAIN handles \ {h} : handles'[k] = handles[k]
      /\ objects' = objects \/ objects' = [objects EXCEPT ![Slot(a)] = Free]
  BY <1>1, <1>2 DEF Close
<1>5. PendingHeld' /\ WaitsAdvance
  BY <1>4, ClosedHeld DEF SecInv
<1>6. Calm' /\ WaitsFall
  BY <1>4, <1>5, CalmKeeps DEF SecInv, Calm
<1>7. /\ DOMAIN sections' = DOMAIN sections \ {a}
      /\ \A b \in DOMAIN sections \ {a} : sections'[b] = sections[b] /\ sections[b] # h
  BY <1>1 DEF SecInv, SecTyped
<1>8. ASSUME NEW b \in DOMAIN sections \ {a} PROVE Still(b)
  <2>1. sections[b] \in DOMAIN handles /\ Private(b) /\ Slot(b) \in Slots
    BY SectionParts DEF SecInv
  <2>2. Slot(b) # Slot(a)
    BY <1>1, SlotsDiffer
  <2>3. Waiting(Slot(b), waits') = Waiting(Slot(b), waits)
    BY <1>4, <1>7, ClosedWaiting
  <2>4. objects'[Slot(b)] = objects[Slot(b)]
    BY <1>4, <2>1, <2>2, PlanFacts
  <2>5. Beside(b)
    BY <1>4, <1>7, <2>1 DEF Beside, Private, Slot
  <2> QED  BY <2>3, <2>4, <2>5 DEF Still
<1>9. SecTyped'
  <2>1. \A b \in DOMAIN sections' : sections'[b] \in DOMAIN handles'
    BY <1>4, <1>7 DEF SecInv, SecTyped
  <2> QED  BY <1>1, <1>7, <2>1 DEF SecInv, SecTyped
<1>10. \A u \in Threads : entering'[u] # a
  BY <1>1, NobodyEnters
<1>11. AsideOf(a)
  BY <1>1, <1>4, <1>7, <1>8 DEF AsideOf
<1>12. SecInv' /\ \A b \in Addresses \ {a} : SameLock(b)
  BY <1>3, <1>5, <1>6, <1>7, <1>9, <1>10, <1>11, OthersKeep
<1>13. SameLock(a)
  <2>1. Waiting(Slot(a), waits) = {} /\ objects[Slot(a)].depth = 0
    BY <1>1, FreeSection
  <2>2. Members(a) = {} /\ Members(a)' = {}
    BY <1>1, <1>7, <2>1 DEF Members
  <2>3. Line({}, waits') = Line({}, waits)
    BY LineSame, FS_EmptySet
  <2>4. Queue(a)' = Queue(a)
    BY <2>2, <2>3, QueueIsLine
  <2> QED  BY <1>1, <1>7, <2>1, <2>4 DEF SameLock, Holder, Depth
<1> QED  BY <1>3, <1>12, <1>13, LockStutters DEF AsideStep

-----------------------------------------------------------------------------
(* Entering a section.                                                      *)

(* What the rest of the code keeps of a section that is written.            *)
LEMMA WrittenCopy ==
    ASSUME SecInv, NEW a \in Addresses, NEW x, copy' = [copy EXCEPT ![a] = x],
           disturbed' = disturbed \ {a}
    PROVE  /\ DOMAIN copy' = Addresses /\ copy'[a] = x
           /\ \A b \in Addresses \ {a} : /\ copy'[b] = copy[b]
                                         /\ b \in disturbed => b \in disturbed'
  BY DEF SecInv, SecTyped

(* A call of thread t on section a.                                         *)
CallOn(t, a) ==
    /\ UNCHANGED <<handles, sections, stale, apcs>>
    /\ DOMAIN copy' = Addresses
    /\ \A b \in Addresses \ {a} : copy'[b] = copy[b] /\ (b \in disturbed => b \in disturbed')
    /\ \A b \in DOMAIN sections \ {a} : Still(b)
    /\ entering[t] = NoAddress /\ entering'[t] \in {NoAddress, a}
    /\ entering' \in [Threads -> Addresses \cup {NoAddress}]
    /\ \A u \in Threads \ {t} : entering'[u] = entering[u] /\ reply'[u] = reply[u]

LEMMA CallKeeps ==
    ASSUME IInv, IInv', SecInv, WaitsAdvance, NEW t \in Threads, NEW a \in DOMAIN sections,
           CallOn(t, a), objects'[Slot(a)].type = "mutex",
           \A w \in Waiting(Slot(a), waits') : entering'[waits'[w].thread] = a,
           Exact(a)', \A u \in Threads : entering'[u] = a => Inside(u)'
    PROVE  SecInv' /\ \A b \in Addresses \ {a} : SameLock(b)
<1>1. /\ UNCHANGED <<handles, sections, stale, apcs>> /\ DOMAIN copy' = Addresses
      /\ entering' \in [Threads -> Addresses \cup {NoAddress}]
  BY DEF CallOn
<1>2. Calm' /\ WaitsFall /\ PendingHeld'
  BY <1>1, CalmKeeps, GrowingHeld DEF SecInv, Calm, HandlesGrow
<1>3. SecTyped'
  BY <1>1 DEF SecInv, SecTyped
<1>4. a \in Addresses /\ Beside(a)
  BY <1>1, SectionParts, SameHandles
<1>5. Private(a)'
  BY <1>4, BesidePrivate
<1>6. AsideOf(a)
  <2>1. DOMAIN sections \subseteq Addresses
    BY DEF SecInv, SecTyped
  <2>2. ASSUME NEW u \in Threads
        PROVE  /\ entering[u] \notin {NoAddress, a} => entering'[u] = entering[u]
               /\ entering'[u] \notin {NoAddress, a} =>
                      entering'[u] = entering[u] /\ reply'[u] = reply[u]
    BY DEF CallOn
  <2>3. \A b \in DOMAIN sections \ {a} :
            Still(b) /\ copy'[b] = copy[b] /\ (b \in disturbed => b \in disturbed')
    BY <2>1 DEF CallOn
  <2>4. DOMAIN sections' \subseteq DOMAIN sections \cup {a} /\ stale \subseteq stale'
    BY <1>1
  <2> QED  BY ONLY <2>2, <2>3, <2>4 DEF AsideOf
<1> QED  BY <1>2, <1>3, <1>4, <1>5, <1>6, OthersKeep

(* Who enters and is not the caller keeps its wait.                         *)
LEMMA OtherInside ==
    ASSUME IInv, IInv', SecInv, WaitsFall, NEW t \in Threads, NEW a \in DOMAIN sections,
           CallOn(t, a), NEW u \in Threads \ {t}, entering'[u] = a,
           IF waits'[reply[u].wait].result = Pending
           THEN objects'[Slot(a)].owner \notin {NoThread, u}
           ELSE objects'[Slot(a)].owner = u
    PROVE  Inside(u)'
<1>1. entering'[u] = entering[u] /\ reply'[u] = reply[u] /\ UNCHANGED <<handles, sections>>
  BY DEF CallOn
<1>2. Beside(a) /\ a # NoAddress
  BY <1>1, SameHandles, SectionParts
<1>3. Inside(u) /\ FrameHolds(reply[u], u, waits)
  BY DEF SecInv, IInv, WaitInv, FramesHold, ThreadHolds
<1> QED  BY <1>1, <1>2, <1>3, MovedInside

(* What a thread that enters a section finds.                               *)
LEMMA EnteringParts ==
    ASSUME IInv, SecInv, NEW a \in DOMAIN sections, NEW u \in Threads, entering[u] = a,
           NEW k, k = reply[u].wait
    PROVE  /\ k # 0 /\ k \in DOMAIN waits /\ waits[k].thread = u
           /\ waits[k].result = Pending <=> k \in Waiting(Slot(a), waits)
           /\ waits[k].result = Pending => objects[Slot(a)].owner \notin {NoThread, u}
           /\ waits[k].result # Pending => objects[Slot(a)].owner = u
<1>1. a # NoAddress /\ Inside(u) /\ FrameHolds(reply[u], u, waits)
  BY SectionParts DEF SecInv, IInv, WaitInv, FramesHold, ThreadHolds
<1>2. k # 0 /\ k \in DOMAIN waits /\ waits[k].thread = u /\ WaitsFor(waits[k], Slot(a))
  BY <1>1 DEF Inside, FrameHolds
<1>3. waits[k].slots = <<Slot(a)>>
  BY <1>2 DEF WaitsFor
<1>4. 1 \in DOMAIN waits[k].slots /\ waits[k].slots[1] = Slot(a)
  BY <1>3
<1>5. waits[k].result = Pending <=> k \in Waiting(Slot(a), waits)
  BY <1>2, <1>4 DEF Waiting
<1> QED  BY <1>1, <1>2, <1>5 DEF Inside

(* EnterCriticalSection and TryEnterCriticalSection when nobody else is     *)
(* inside.                                                                  *)
LEMMA EnterStep ==
    ASSUME IInv, SecInv, NEW t \in Threads, NEW a \in Addresses, Enter(t, a)
    PROVE  SectionStep
<1> PICK s : s = Slot(a)
  OBVIOUS
<1> PICK o : o = objects[s]
  OBVIOUS
<1>1. /\ Running(t) /\ t \in live /\ a \in DOMAIN sections /\ TryAcquireMutex(t, sections[a])
      /\ Publish(a) /\ UNCHANGED <<sections, stale, entering>>
  BY DEF Enter, Usable, Running
<1>2. /\ s \in Slots /\ sections[a] \in DOMAIN handles /\ o \in ObjectKind /\ o.type = "mutex"
      /\ o \in MutexKind
  BY <1>1, SectionParts DEF ObjectKind
<1>3. /\ o.owner \in {NoThread, t}
      /\ objects' = [objects EXCEPT ![s] = Consume(o, t)]
      /\ UNCHANGED <<handles, waits, apcs, reply>>
  BY <1>1 DEF TryAcquireMutex, Slot
<1>4. IInv'
  BY <1>1, <1>2, TryAcquireKeeps
<1>5. /\ objects'[s].type = "mutex" /\ objects'[s].owner = t /\ objects'[s].depth = o.depth + 1
      /\ \A r \in Slots \ {s} : objects'[r] = objects[r]
  <2>1. PICK r : r = Consume(o, t)
    OBVIOUS
  <2>2. r.type = "mutex" /\ r.owner = t /\ r.depth = o.depth + 1
    BY <1>2, <2>1, ConsumeKind
  <2> QED  BY <1>2, <1>3, <2>1, <2>2, PlanFacts
<1>6. WaitsAdvance /\ WaitsFall
  <2>1. waits' = waits
    BY <1>3
  <2>2. WaitsFall
    BY <2>1 DEF WaitsFall, SameWait
  <2>3. \A k \in DOMAIN waits : MayBecome(waits[k], waits'[k])
    BY <2>1, Unmoved DEF IInv, WaitInv, WaitsTyped
  <2> QED  BY <2>1, <2>2, <2>3 DEF WaitsAdvance
<1>7. \A b \in DOMAIN sections : Beside(b)
  BY <1>1, <1>3, SameHandles
<1>8. ASSUME NEW b \in DOMAIN sections \ {a} PROVE Still(b)
  <2>1. Slot(b) # s /\ Slot(b) \in Slots
    BY <1>1, SlotsDiffer, SectionParts
  <2> QED  BY <1>3, <1>5, <1>7, <2>1 DEF Still
<1>9. Exact(a)'
  BY <1>1, <1>7, PublishedExact
<1>10. entering[t] = NoAddress
  BY <1>1, RunningOutside
<1>11. CallOn(t, a)
  <2>1. PICK x : copy' = [copy EXCEPT ![a] = x] /\ disturbed' = disturbed \ {a}
    BY <1>1 DEF Publish
  <2>2. /\ DOMAIN copy' = Addresses
        /\ \A b \in Addresses \ {a} : copy'[b] = copy[b] /\ (b \in disturbed => b \in disturbed')
    BY <2>1, WrittenCopy
  <2>3. entering' \in [Threads -> Addresses \cup {NoAddress}]
    BY <1>1 DEF SecInv, SecTyped
  <2> QED  BY <1>1, <1>3, <1>8, <1>10, <2>2, <2>3 DEF CallOn
<1>12. \A w \in Waiting(s, waits') : entering'[waits'[w].thread] = a
  BY <1>1, <1>3, WaiterParts
<1>13. ASSUME NEW u \in Threads, entering'[u] = a PROVE Inside(u)'
  <2>1. u # t /\ entering[u] = a /\ u # NoThread /\ t # NoThread
    BY <1>1, <1>10, <1>13, SectionParts, NoThreadAssumption
  <2>2. waits[reply[u].wait].result # Pending => o.owner = u
    BY <1>1, <2>1, EnteringParts
  <2>3. waits'[reply[u].wait].result = Pending /\ objects'[s].owner \notin {NoThread, u}
    BY <1>3, <1>5, <2>1, <2>2
  <2> QED  BY <1>1, <1>4, <1>6, <1>11, <1>13, <2>1, <2>3, OtherInside
<1>14. SecInv' /\ \A b \in Addresses \ {a} : SameLock(b)
  BY <1>1, <1>4, <1>5, <1>6, <1>9, <1>11, <1>12, <1>13, CallKeeps
<1>15. /\ Holder(a) = o.owner /\ Depth(a) = o.depth
       /\ Holder(a)' = t /\ Depth(a)' = o.depth + 1
  BY <1>1, <1>5, <1>7, BesideSlot DEF Holder, Depth
<1>16. Queue(a)' = Queue(a)
  <2>1. PICK W : W = Waiting(s, waits)
    OBVIOUS
  <2>2. Members(a) = W /\ Members(a)' = W
    BY <1>1, <1>3, <1>7, <2>1, BesideSlot DEF Members
  <2>3. W \in SUBSET Nat /\ IsFiniteSet(W)
    BY <1>1, <2>1, SectionParts
  <2>4. Line(W, waits') = Line(W, waits)
    BY <1>3, <2>3, LineSame
  <2> QED  BY <2>2, <2>4, QueueIsLine
<1>17. BecomesAt(a, t, Depth(a) + 1, Queue(a))
  BY <1>14, <1>15, <1>16 DEF BecomesAt
<1>18. LockStep
  BY <1>1, <1>3, <1>15, <1>17, NotBlocked, LockEnters
<1> QED  BY <1>4, <1>14, <1>18 DEF SectionStep

(* The wait of thread t for section a.                                      *)
EntryWait(t, a) == NewWait(t, <<sections[a]>>, "any", Never, FALSE)

IsEntryWait(w, t, a) ==
    /\ w \in WaitRecord /\ Fits(w) /\ Fresh(w, Never) /\ w.thread = t
    /\ w.result = Pending /\ w.handles = <<sections[a]>>
    /\ WaitsFor(w, Slot(a)) /\ DOMAIN w.slots = {1} /\ w.slots[1] = Slot(a)

LEMMA SectionWait ==
    ASSUME IInv, SecInv, NEW a \in DOMAIN sections, NEW t \in Threads
    PROVE  IsEntryWait(EntryWait(t, a), t, a)
<1> PICK w : w = EntryWait(t, a)
  OBVIOUS
<1>1. PICK hs : hs = <<sections[a]>>
  OBVIOUS
<1>2. hs \in Seq(DOMAIN handles) /\ Len(hs) <= 64 /\ DOMAIN hs = {1} /\ hs[1] = sections[a]
  BY <1>1, SectionParts
<1>3. w = NewWait(t, hs, "any", Never, FALSE)
  BY <1>1 DEF EntryWait
<1>4. /\ w \in WaitRecord /\ Fits(w) /\ Fresh(w, Never) /\ w.thread = t
      /\ w.result = Pending /\ w.handles = hs
      /\ \A i \in DOMAIN hs : w.slots[i] = handles[hs[i]]
  <2>1. PICK mode \in {"any", "all", "sleep"}, alertable \in BOOLEAN,
             timeout \in Nat \cup {Never} :
               mode = "any" /\ alertable = FALSE /\ timeout = Never
    OBVIOUS
  <2>2. /\ w = NewWait(t, hs, mode, timeout, alertable)
        /\ mode \in {"any", "all", "sleep"} /\ alertable \in BOOLEAN
        /\ timeout \in Nat \cup {Never}
    BY <1>3, <2>1
  <2>3. /\ w \in WaitRecord /\ Fits(w) /\ w.thread = t /\ w.result = Pending /\ w.handles = hs
        /\ \A i \in DOMAIN hs : w.slots[i] = handles[hs[i]]
    BY ONLY IInv, t \in Threads, <1>2, <2>2, NewWaitFits
  <2>4. Fresh(w, timeout)
    BY ONLY IInv, t \in Threads, <1>2, <2>2, NewWaitFits
  <2> QED  BY <2>1, <2>3, <2>4
<1>5. w.mode = "any" /\ w.deadline = Never /\ w.alertable = FALSE
  BY <1>3 DEF NewWait
<1>6. w.slots \in Seq(Slots) /\ DOMAIN w.slots = {1} /\ w.slots[1] = Slot(a)
  <2>1. handles[hs[1]] = Slot(a)
    BY <1>2 DEF Slot
  <2>2. w.slots[1] = handles[hs[1]]
    BY <1>2, <1>4
  <2>3. w.slots \in Seq(Slots) /\ DOMAIN w.slots = DOMAIN w.handles
    BY <1>4 DEF Fits, WaitRecord
  <2> QED  BY <1>2, <1>4, <2>1, <2>2, <2>3
<1>7. w.slots = <<Slot(a)>>
  <2>1. PICK q : q = w.slots
    OBVIOUS
  <2>2. q \in Seq(Slots) /\ DOMAIN q = {1} /\ q[1] = Slot(a)
    BY <1>6, <2>1
  <2>3. Len(q) = 1
    BY ONLY <2>2
  <2>4. q = <<Slot(a)>>
    BY ONLY <2>2, <2>3
  <2> QED  BY <2>1, <2>4
<1> QED  BY <1>1, <1>4, <1>5, <1>6, <1>7 DEF WaitsFor, IsEntryWait

(* The wait w of thread t for section a is entered into the table as n.     *)
EntersAs(a, t, w, n) ==
    /\ n \in Nat \ {0} /\ DOMAIN waits' = DOMAIN waits \cup {n}
    /\ waits'[n] = w /\ \A k \in DOMAIN waits : k < n /\ waits'[k] = waits[k]
    /\ objects'[Slot(a)] = objects[Slot(a)] /\ reply'[t].wait = n

LEMMA WaitEnters ==
    ASSUME IInv, SecInv, NEW a \in DOMAIN sections, NEW t \in Threads, Running(t),
           objects[Slot(a)].owner \notin {NoThread, t},
           NEW w, w = EntryWait(t, a),
           WaitOn(Plan, w, Never), NEW n, n = nextWait + 1
    PROVE  EntersAs(a, t, w, n)
<1> PICK s : s = Slot(a)
  OBVIOUS
<1> PICK p : p = Plan
  OBVIOUS
<1> PICK D : D = DOMAIN waits
  OBVIOUS
<1>1. /\ w \in WaitRecord /\ Fits(w) /\ WaitsFor(w, s) /\ w.thread = t
  <2>1. IsEntryWait(w, t, a)
    BY SectionWait
  <2> QED  BY <2>1 DEF IsEntryWait
<1>2. SoundPlan(p, D, live) /\ p \in Plans(D) /\ p.waits = waits /\ p.objects = objects
  BY PlanFacts DEF SoundPlan
<1>3. ~Satisfied(p, w)
  <2>1. p.objects[s].type = "mutex" /\ s \in Slots
    BY <1>2, SectionParts
  <2>2. Satisfied(p, w) <=> p.objects[s].owner \in {NoThread, w.thread}
    BY <1>1, <1>2, <2>1, WaitsForOne
  <2> QED  BY <1>1, <1>2, <2>2
<1>4. w.alertable = FALSE /\ Never # 0
  <2>1. w.alertable = FALSE
    BY <1>1 DEF WaitsFor
  <2>2. Never # 0
    BY DEF Never
  <2> QED  BY <2>1, <2>2
<1>5. /\ nextWait' = n /\ Commit(Entered(p, w))
      /\ reply' = [reply EXCEPT ![t] = [wait |-> n, alertable |-> w.alertable,
                                        result |-> Pending, delivered |-> FALSE]]
  BY <1>1, <1>3, <1>4 DEF WaitOn, Entered
<1>6. EnteredIn(p, Entered(p, w), w, DOMAIN waits, nextWait + 1)
  BY <1>1, <1>2, EnteredParts DEF Running
<1> PICK q : q = Entered(p, w)
  OBVIOUS
<1>7. EnteredIn(p, q, w, D, n)
  BY <1>6
<1>8. /\ q \in Plans(D \cup {n}) /\ q.objects[s] = objects[s] /\ q.waits[n] = w
      /\ \A k \in D : q.waits[k] = waits[k]
  BY <1>2, <1>7 DEF EnteredIn, SoundPlan
<1>9. objects'[s] = q.objects[s] /\ waits' = q.waits /\ DOMAIN waits' = D \cup {n}
  <2>1. s \in Slots /\ refs[s] # 0
    BY SectionParts
  <2> PICK E : E = D \cup {n}
    OBVIOUS
  <2>2. q \in Plans(E) /\ Commit(q)
    BY <1>5, <1>8
  <2> QED  BY <2>1, <2>2, CommitSlot
<1>10. n \in Nat \ {0} /\ \A k \in D : k < n
  BY DEF IInv, WaitInv, WaitsTyped
<1>11. reply'[t].wait = n
  <2>1. reply \in [Threads -> Reply]
    BY DEF IInv, WaitInv, FramesTyped
  <2> QED  BY <1>5, <2>1
<1> QED  BY <1>2, <1>8, <1>9, <1>10, <1>11 DEF EntersAs

(* EnterCriticalSection while another thread is inside.                     *)
LEMMA EnterContendedStep ==
    ASSUME IInv, SecInv, NEW t \in Threads, NEW a \in Addresses, EnterContended(t, a)
    PROVE  SectionStep
<1> PICK s : s = Slot(a)
  OBVIOUS
<1> PICK w : w = EntryWait(t, a)
  OBVIOUS
<1> PICK n : n = nextWait + 1
  OBVIOUS
<1> PICK W : W = Waiting(s, waits)
  OBVIOUS
<1>1. /\ Running(t) /\ a \in DOMAIN sections /\ objects[s].owner \notin {NoThread, t}
      /\ WaitOn(Plan, w, Never) /\ Publish(a)
      /\ entering' = [entering EXCEPT ![t] = a] /\ UNCHANGED <<sections, stale>>
  BY DEF EnterContended, Usable, EntryWait
<1>2. UNCHANGED <<handles, apcs>>
  BY <1>1 DEF WaitOn
<1>3. /\ w \in WaitRecord /\ Fits(w) /\ Fresh(w, Never) /\ w.thread = t /\ w.result = Pending
      /\ w.handles = <<sections[a]>> /\ WaitsFor(w, s)
      /\ DOMAIN w.slots = {1} /\ w.slots[1] = s
  <2>1. IsEntryWait(w, t, a)
    BY <1>1, SectionWait
  <2> QED  BY <2>1 DEF IsEntryWait
<1>4. IInv' /\ WaitsAdvance
  BY <1>1, <1>3, PlanWaitKeeps DEF Steady
<1>5. /\ n \in Nat \ {0} /\ DOMAIN waits' = DOMAIN waits \cup {n} /\ waits'[n] = w
      /\ \A k \in DOMAIN waits : k < n /\ waits'[k] = waits[k]
      /\ objects'[s] = objects[s] /\ reply'[t].wait = n
  <2>1. EntersAs(a, t, w, n)
    BY <1>1, WaitEnters
  <2> QED  BY <2>1 DEF EntersAs
<1>6. WaitsFall
  BY <1>5 DEF WaitsFall, SameWait
<1>7. /\ s \in Slots /\ objects[s].type = "mutex" /\ W \in SUBSET Nat /\ IsFiniteSet(W)
      /\ a # NoAddress /\ \A k \in W : k \in DOMAIN waits
  BY <1>1, SectionParts DEF Waiting
<1>8. Waiting(s, waits') = W \cup {n}
  <2>1. n \notin DOMAIN waits
    BY <1>5, <1>4 DEF IInv, WaitInv, WaitsTyped
  <2>2. n \in Waiting(s, waits')
    BY <1>3, <1>5 DEF Waiting
  <2>3. \A k \in DOMAIN waits : k \in Waiting(s, waits') <=> k \in W
    BY <1>5 DEF Waiting
  <2>4. \A k \in Waiting(s, waits') : k \in DOMAIN waits'
    BY DEF Waiting
  <2> QED  BY <1>5, <1>7, <2>2, <2>3, <2>4
<1>9. entering[t] = NoAddress
  BY <1>1, RunningOutside
<1>10. \A u \in Threads : entering'[u] = IF u = t THEN a ELSE entering[u]
  BY <1>1 DEF SecInv, SecTyped
<1>11. \A u \in Threads \ {t} : reply'[u] = reply[u]
  BY <1>1, <1>3, WaitReply
<1>12. ASSUME NEW b \in DOMAIN sections \ {a} PROVE Still(b)
  <2>1. \A i \in DOMAIN w.slots : w.slots[i] # Slot(b)
    BY <1>1, <1>3, SlotsDiffer
  <2>2. UNCHANGED sections
    BY <1>1
  <2> QED  BY <1>1, <1>3, <2>1, <2>2, WaitStill
<1>13. Beside(a)
  BY <1>1, <1>2, SameHandles
<1>14. Exact(a)'
  BY <1>1, <1>13, PublishedExact
<1>15. CallOn(t, a)
  <2>1. PICK x : copy' = [copy EXCEPT ![a] = x] /\ disturbed' = disturbed \ {a}
    BY <1>1 DEF Publish
  <2>2. /\ DOMAIN copy' = Addresses
        /\ \A b \in Addresses \ {a} : copy'[b] = copy[b] /\ (b \in disturbed => b \in disturbed')
    BY <2>1, WrittenCopy
  <2>3. entering' \in [Threads -> Addresses \cup {NoAddress}]
    BY <1>1 DEF SecInv, SecTyped
  <2> QED  BY <1>1, <1>2, <1>9, <1>10, <1>11, <1>12, <2>2, <2>3 DEF CallOn
<1>16. ASSUME NEW k \in Waiting(s, waits') PROVE entering'[waits'[k].thread] = a
  <2>1. CASE k = n
    BY <1>3, <1>5, <1>10, <2>1
  <2>2. CASE k # n
    <3>1. k \in W /\ waits'[k] = waits[k]
      BY <1>5, <1>7, <1>8, <2>2
    <3>2. entering[waits[k].thread] = a /\ waits[k].thread \in Threads
      BY <1>1, <3>1, WaiterParts
    <3> QED  BY <1>10, <3>1, <3>2
  <2> QED  BY <2>1, <2>2
<1>17. ASSUME NEW u \in Threads, entering'[u] = a PROVE Inside(u)'
  <2>1. CASE u = t
    <3>1. Slot(a)' = s /\ a \in DOMAIN sections'
      BY <1>1, <1>13, BesideSlot
    <3>2. entering'[t] = a /\ reply'[t].wait = n /\ n # 0 /\ sections' = sections
          /\ objects'[s].owner \notin {NoThread, t}
      BY <1>1, <1>5, <1>10
    <3> QED  BY <1>3, <1>5, <2>1, <3>1, <3>2 DEF Inside
  <2>2. CASE u # t
    <3>1. entering[u] = a
      BY <1>10, <1>17, <2>2
    <3> PICK k : k = reply[u].wait
      OBVIOUS
    <3>2. /\ k \in DOMAIN waits
          /\ waits[k].result = Pending => objects[s].owner \notin {NoThread, u}
          /\ waits[k].result # Pending => objects[s].owner = u
      BY <1>1, <3>1, EnteringParts
    <3>3. waits'[k] = waits[k]
      BY <1>5, <3>2
    <3>4. IF waits'[k].result = Pending
          THEN objects'[s].owner \notin {NoThread, u}
          ELSE objects'[s].owner = u
      BY <1>5, <3>2, <3>3
    <3> QED  BY <1>1, <1>4, <1>6, <1>15, <1>17, <2>2, <3>4, OtherInside
  <2> QED  BY <2>1, <2>2
<1>18. SecInv' /\ \A b \in Addresses \ {a} : SameLock(b)
  BY <1>1, <1>4, <1>5, <1>7, <1>14, <1>15, <1>16, <1>17, CallKeeps
<1>19. /\ Holder(a) = objects[s].owner /\ Holder(a)' = Holder(a) /\ Depth(a)' = Depth(a)
  BY <1>1, <1>5, <1>13, BesideSlot DEF Holder, Depth
<1>20. Queue(a)' = Append(Queue(a), t)
  <2>1. Members(a) = W /\ Members(a)' = W \cup {n}
    BY <1>1, <1>8, <1>13, BesideSlot DEF Members
  <2>2. Line(W \cup {n}, waits') = Append(Line(W, waits), waits'[n].thread)
    <3>1. /\ \A k \in W : k < n
          /\ \A k \in W : waits'[k].thread = waits[k].thread
      BY <1>5, <1>7
    <3>2. n \in Nat /\ W \in SUBSET Nat /\ IsFiniteSet(W)
      BY <1>5, <1>7
    <3> PICK V : V = waits
      OBVIOUS
    <3> PICK U : U = waits'
      OBVIOUS
    <3>3. Joins(W, n, V, U)
      <4>1. /\ \A k \in W : k < n
            /\ \A k \in W : U[k].thread = V[k].thread
        BY <3>1
      <4> QED  BY ONLY <3>2, <4>1, LineAppend
    <3> QED  BY <3>3 DEF Joins
  <2> QED  BY <1>3, <1>5, <2>1, <2>2, QueueIsLine
<1>21. BecomesAt(a, Holder(a), Depth(a), Append(Queue(a), t))
  BY <1>18, <1>19, <1>20 DEF BecomesAt
<1>22. LockStep
  BY <1>1, <1>19, <1>21, NotBlocked, LockAwaits
<1> QED  BY <1>4, <1>18, <1>22 DEF SectionStep

-----------------------------------------------------------------------------
(* Leaving a section.                                                       *)

(* The mutex of section a is handed to the wait w, the oldest for it.       *)
HandsOn(a, w) ==
    /\ w \in Waiting(Slot(a), waits) /\ \A k \in Waiting(Slot(a), waits) : w <= k
    /\ objects'[Slot(a)].type = "mutex"
    /\ objects'[Slot(a)].owner = waits[w].thread /\ objects'[Slot(a)].depth = 1
    /\ waits'[w].result # Pending
    /\ Waiting(Slot(a), waits') = Waiting(Slot(a), waits) \ {w}

(* It is released with nobody to hand it to.                                *)
Lets(a) ==
    /\ objects'[Slot(a)] = Released(objects[Slot(a)])
    /\ waits' = waits
    /\ objects[Slot(a)].depth = 1 => Waiting(Slot(a), waits) = {}

LEMMA LeaveOutcome ==
    ASSUME IInv, SecInv, NEW t \in Threads, NEW a \in DOMAIN sections, Release(t, sections[a])
    PROVE  /\ DOMAIN waits' = DOMAIN waits
           /\ \/ Lets(a)
              \/ /\ objects[Slot(a)].depth = 1
                 /\ \E w \in Waiting(Slot(a), waits) : HandsOn(a, w)
<1> PICK s : s = Slot(a)
  OBVIOUS
<1> PICK o : o = objects[s]
  OBVIOUS
<1> PICK p : p = SetSignal(PutObject(Plan, s, Released(o)), s)
  OBVIOUS
<1>1. s \in Slots /\ refs[s] # 0 /\ o.type = "mutex" /\ o.owner = t
  BY SectionParts DEF Release, Slot
<1>2. CASE /\ o.depth = 1 /\ Waiters(s) # {} /\ Commit(ResolveWaiters(p, nextWait, now))
  <2>1. /\ SoundPlan(p, DOMAIN waits, live) /\ p.waits = waits
        /\ p.objects[s].type = "mutex" /\ p.objects[s].owner = NoThread /\ p.objects[s].depth = 0
    BY <1>1, <1>2, ReleasedPlan
  <2>2. Alone(p.objects[s], s, p.waits)
    <3>1. \A w \in Waiting(s, waits) :
             /\ WaitsFor(waits[w], s) /\ waits[w].thread \in Threads
             /\ waits[w].thread # NoThread /\ reply[waits[w].thread].wait = w
      BY WaiterParts
    <3> QED  BY <2>1, <3>1 DEF Alone
  <2>3. /\ DOMAIN waits' = DOMAIN waits
        /\ LeavesAlone(p, s) \/ \E w \in Waiting(s, p.waits) : HandsOver(p, s, w)
    BY <1>1, <1>2, <2>1, <2>2, PassOutcome
  <2>4. CASE LeavesAlone(p, s)
    <3>1. Waiting(s, waits) = {}
      BY <2>1, <2>4 DEF LeavesAlone
    <3>2. FALSE
      BY <1>2, <3>1, WaitersAre
    <3> QED  BY <3>2
  <2>5. ASSUME NEW w \in Waiting(s, waits), HandsOver(p, s, w) PROVE HandsOn(a, w)
    <3>1. p.objects[s].depth + 1 = 1
      BY <2>1
    <3> QED  BY <2>1, <2>5, <3>1 DEF HandsOver, HandsOn
  <2> QED  BY <1>2, <2>1, <2>3, <2>4, <2>5
<1>3. CASE /\ ~(o.depth = 1 /\ Waiters(s) # {})
           /\ objects' = [objects EXCEPT ![s] = Released(o)] /\ UNCHANGED waits
  BY <1>1, <1>3, PlanFacts, WaitersAre DEF Lets
<1> QED  BY <1>2, <1>3 DEF Release, Signal, Released, Slot

(* A wait for a mutex that is free and awaited: its line is empty.          *)
LEMMA LineNone == \A V : Line({}, V) = <<>>
<1> SUFFICES ASSUME NEW V PROVE Line({}, V) = <<>>
  OBVIOUS
<1>1. PICK q : q = Line({}, V)
  OBVIOUS
<1>2. q = [i \in 1 .. Cardinality({}) |-> q[i]] /\ Cardinality({}) = 0
  BY <1>1, LineParts, FS_EmptySet
<1>3. q = [i \in 1 .. 0 |-> q[i]]
  BY <1>2
<1>4. q \in Seq({}) /\ Len(q) = 0
  BY ONLY <1>3
<1>5. q = <<>>
  BY ONLY <1>4
<1> QED  BY <1>1, <1>5

(* What LeaveCriticalSection writes, and leaves alone.                      *)
LEMMA LeaveParts ==
    ASSUME IInv, SecInv, NEW t \in Threads, NEW a \in Addresses, Leave(t, a)
    PROVE  /\ Running(t) /\ a \in DOMAIN sections /\ Release(t, sections[a])
           /\ objects[Slot(a)].owner = t /\ objects[Slot(a)] \in MutexKind
           /\ objects[Slot(a)].depth \in Nat \ {0}
           /\ copy'[a] = Words(objects'[Slot(a)].owner, objects'[Slot(a)].depth,
                               Cardinality(Waiting(Slot(a), waits))
                                 - (IF objects'[Slot(a)].owner \in {NoThread, t} THEN 0 ELSE 1))
           /\ IInv' /\ WaitsAdvance /\ WaitsFall /\ CallOn(t, a)
           /\ entering' = entering /\ reply' = reply
<1> PICK x : x = Words(objects'[Slot(a)].owner, objects'[Slot(a)].depth,
                       Cardinality(Waiting(Slot(a), waits))
                         - (IF objects'[Slot(a)].owner \in {NoThread, t} THEN 0 ELSE 1))
  OBVIOUS
<1>1. /\ Running(t) /\ a \in DOMAIN sections /\ Release(t, sections[a])
      /\ copy' = [copy EXCEPT ![a] = x] /\ disturbed' = disturbed \ {a}
      /\ UNCHANGED <<sections, stale, entering>>
  BY WaitersAre DEF Leave, Usable
<1>2. /\ sections[a] \in DOMAIN handles /\ handles[sections[a]] = Slot(a) /\ Slot(a) \in Slots
  BY <1>1, SectionParts DEF Slot
<1>3. objects[Slot(a)].owner = t /\ objects[Slot(a)].type = "mutex"
  BY <1>1, <1>2 DEF Release
<1>4. objects[Slot(a)] \in MutexKind /\ objects[Slot(a)].depth \in Nat \ {0}
  BY <1>2, <1>3, ReleasedMutex
<1>5. IInv' /\ WaitsAdvance
  BY <1>1, <1>2, ReleaseKeeps DEF Steady
<1>6. UNCHANGED <<handles, apcs, reply>>
  BY <1>1 DEF Release, Signal
<1>7. WaitsFall
  BY <1>5, <1>6, CalmKeeps DEF SecInv, Calm
<1>8. ASSUME NEW b \in DOMAIN sections \ {a} PROVE Still(b)
  <2>1. handles[sections[a]] # Slot(b)
    BY <1>1, <1>2, SlotsDiffer
  <2> QED  BY <1>1, <1>2, <2>1, ReleaseStill
<1>9. /\ DOMAIN copy' = Addresses /\ copy'[a] = x
      /\ \A b \in Addresses \ {a} : copy'[b] = copy[b] /\ (b \in disturbed => b \in disturbed')
  BY <1>1, WrittenCopy
<1>10. entering[t] = NoAddress
  BY <1>1, RunningOutside
<1>11. entering' \in [Threads -> Addresses \cup {NoAddress}]
  BY <1>1 DEF SecInv, SecTyped
<1>12. CallOn(t, a)
  BY <1>1, <1>6, <1>8, <1>9, <1>10, <1>11 DEF CallOn
<1> QED  BY <1>1, <1>3, <1>4, <1>5, <1>6, <1>7, <1>9, <1>12

(* With nobody to hand the section to.                                      *)
LEMMA LetsStep ==
    ASSUME IInv, SecInv, NEW t \in Threads, NEW a \in Addresses, Leave(t, a), Lets(a)
    PROVE  SectionStep
<1> PICK s : s = Slot(a)
  OBVIOUS
<1> PICK o : o = objects[s]
  OBVIOUS
<1> PICK W : W = Waiting(s, waits)
  OBVIOUS
<1>1. /\ Running(t) /\ a \in DOMAIN sections /\ o.owner = t /\ o \in MutexKind
      /\ o.depth \in Nat \ {0} /\ IInv' /\ WaitsAdvance /\ WaitsFall /\ CallOn(t, a)
      /\ entering' = entering /\ reply' = reply
  BY LeaveParts
<1>2. /\ W \in SUBSET Nat /\ IsFiniteSet(W) /\ a # NoAddress /\ t # NoThread
      /\ o.type = "mutex"
  BY <1>1, SectionParts, NoThreadAssumption
<1>3. /\ objects'[s].type = "mutex" /\ objects'[s].depth = o.depth - 1
      /\ objects'[s].owner = IF o.depth = 1 THEN NoThread ELSE t
  <2>1. objects'[s] = [o EXCEPT !.owner = IF o.depth = 1 THEN NoThread ELSE @, !.depth = @ - 1]
    BY DEF Lets, Released
  <2> QED  BY <1>1, <1>2, <2>1 DEF MutexKind
<1>4. waits' = waits /\ (o.depth = 1 => W = {})
  BY DEF Lets
<1>5. Beside(a) /\ Slot(a)' = s
  BY <1>1, SameHandles, BesideSlot DEF CallOn
<1>6. Exact(a)'
  <2>1. copy'[a] = Words(objects'[s].owner, objects'[s].depth,
                         Cardinality(W) - (IF objects'[s].owner \in {NoThread, t} THEN 0 ELSE 1))
    BY LeaveParts
  <2>2. objects'[s].owner \in {NoThread, t}
    BY <1>3
  <2>3. Cardinality(W) - 0 = Cardinality(W)
    BY <1>2, FS_CardinalityType
  <2>4. copy'[a] = Words(objects'[s].owner, objects'[s].depth, Cardinality(W))
    BY <2>1, <2>2, <2>3
  <2> QED  BY <1>4, <1>5, <2>4 DEF Exact
<1>7. \A w \in Waiting(s, waits') : entering'[waits'[w].thread] = a
  BY <1>1, <1>4, WaiterParts
<1>8. ASSUME NEW u \in Threads, entering'[u] = a PROVE Inside(u)'
  <2>1. u # t /\ entering[u] = a
    BY <1>1, <1>2, <1>8 DEF CallOn
  <2> PICK k : k = reply[u].wait
    OBVIOUS
  <2>2. waits[k].result = Pending /\ k \in W
    BY <1>1, <2>1, EnteringParts
  <2>3. objects'[s].owner = t /\ waits'[k].result = Pending
    BY <1>3, <1>4, <2>2
  <2> QED  BY <1>1, <1>2, <1>8, <2>1, <2>3, OtherInside
<1>9. SecInv' /\ \A b \in Addresses \ {a} : SameLock(b)
  BY <1>1, <1>3, <1>6, <1>7, <1>8, CallKeeps
<1>10. /\ Holder(a) = t /\ Depth(a) = o.depth
       /\ Holder(a)' = objects'[s].owner /\ Depth(a)' = o.depth - 1
  BY <1>1, <1>3, <1>5 DEF Holder, Depth, Beside
<1>11. Members(a) = W /\ Members(a)' = W /\ Line(W, waits') = Line(W, waits)
  BY <1>1, <1>2, <1>4, <1>5, LineSame DEF Members, Beside
<1>12. Queue(a) = Line(W, waits) /\ Queue(a)' = Queue(a)
  BY <1>11, QueueIsLine
<1>13. BecomesAt(a, objects'[s].owner, o.depth - 1, Queue(a))
  BY <1>9, <1>10, <1>12 DEF BecomesAt
<1>14. LockStep
  <2>1. CASE o.depth # 1
    <3>1. BecomesAt(a, t, o.depth - 1, Queue(a))
      BY <1>3, <1>13, <2>1
    <3> QED  BY <1>1, <1>10, <2>1, <3>1, NotBlocked, LockLeaves
  <2>2. CASE o.depth = 1
    <3>1. Queue(a) = <<>>
      BY <1>4, <1>12, <2>2, LineNone
    <3>2. o.depth - 1 = 0 /\ objects'[s].owner = NoThread
      BY <1>3, <2>2
    <3>3. BecomesAt(a, NoThread, 0, Queue(a))
      BY <1>13, <3>2
    <3> QED  BY <1>1, <1>10, <2>2, <3>1, <3>3, NotBlocked, LockLeaves
  <2> QED  BY <2>1, <2>2
<1> QED  BY <1>1, <1>9, <1>14 DEF SectionStep

(* With threads that wait.                                                  *)
LEMMA HandsOnStep ==
    ASSUME IInv, SecInv, NEW t \in Threads, NEW a \in Addresses, Leave(t, a),
           objects[Slot(a)].depth = 1, NEW w, HandsOn(a, w), DOMAIN waits' = DOMAIN waits
    PROVE  SectionStep
<1> PICK s : s = Slot(a)
  OBVIOUS
<1> PICK o : o = objects[s]
  OBVIOUS
<1> PICK W : W = Waiting(s, waits)
  OBVIOUS
<1> PICK v : v = waits[w].thread
  OBVIOUS
<1>1. /\ Running(t) /\ a \in DOMAIN sections /\ o.owner = t
      /\ IInv' /\ WaitsAdvance /\ WaitsFall /\ CallOn(t, a)
      /\ entering' = entering /\ reply' = reply
  BY LeaveParts
<1>2. /\ W \in SUBSET Nat /\ IsFiniteSet(W) /\ a # NoAddress /\ t # NoThread
  BY <1>1, SectionParts, NoThreadAssumption
<1>3. /\ w \in W /\ \A k \in W : w <= k
      /\ objects'[s].type = "mutex" /\ objects'[s].owner = v /\ objects'[s].depth = 1
      /\ waits'[w].result # Pending /\ Waiting(s, waits') = W \ {w}
  BY DEF HandsOn
<1>4. v \in Threads /\ v # NoThread /\ v # t /\ reply[v].wait = w
  BY <1>1, <1>3, WaiterParts
<1>5. Beside(a) /\ Slot(a)' = s
  BY <1>1, SameHandles, BesideSlot DEF CallOn
<1>6. Exact(a)'
  <2>1. copy'[a] = Words(objects'[s].owner, objects'[s].depth,
                         Cardinality(W) - (IF objects'[s].owner \in {NoThread, t} THEN 0 ELSE 1))
    BY LeaveParts
  <2>2. objects'[s].owner \notin {NoThread, t}
    BY <1>3, <1>4
  <2>3. Cardinality(W \ {w}) = Cardinality(W) - 1
    BY <1>2, <1>3, FS_RemoveElement
  <2>4. copy'[a] = Words(objects'[s].owner, objects'[s].depth, Cardinality(W \ {w}))
    BY <2>1, <2>2, <2>3
  <2> QED  BY <1>3, <1>5, <2>4 DEF Exact
<1>7. ASSUME NEW k \in W
      PROVE  /\ k \in DOMAIN waits /\ k \in DOMAIN waits' /\ waits'[k].thread = waits[k].thread
             /\ entering[waits[k].thread] = a
  <2>1. k \in DOMAIN waits /\ entering[waits[k].thread] = a
    BY <1>1, WaiterParts
  <2> QED  BY <1>1, <2>1 DEF WaitsFall, SameWait
<1>8. \A k \in Waiting(s, waits') : entering'[waits'[k].thread] = a
  BY <1>1, <1>3, <1>7
<1>9. ASSUME NEW u \in Threads, entering'[u] = a PROVE Inside(u)'
  <2>1. u # t /\ entering[u] = a
    BY <1>1, <1>2, <1>9 DEF CallOn
  <2> PICK k : k = reply[u].wait
    OBVIOUS
  <2>2. k \in W /\ waits[k].thread = u
    BY <1>1, <2>1, EnteringParts
  <2>3. IF waits'[k].result = Pending
        THEN objects'[s].owner \notin {NoThread, u}
        ELSE objects'[s].owner = u
    <3>1. CASE k = w
      BY <1>3, <2>2, <3>1
    <3>2. CASE k # w
      <4>1. waits'[k].result = Pending
        BY <1>3, <2>2, <3>2 DEF Waiting
      <4>2. v # u
        BY <1>4, <3>2
      <4> QED  BY <1>3, <1>4, <4>1, <4>2
    <3> QED  BY <3>1, <3>2
  <2> QED  BY <1>1, <1>2, <1>9, <2>1, <2>3, OtherInside
<1>10. SecInv' /\ \A b \in Addresses \ {a} : SameLock(b)
  BY <1>1, <1>3, <1>6, <1>8, <1>9, CallKeeps
<1>11. /\ Holder(a) = t /\ Depth(a) = 1 /\ Holder(a)' = v /\ Depth(a)' = 1
  BY <1>1, <1>3, <1>5 DEF Holder, Depth, Beside
<1>12. Members(a) = W /\ Members(a)' = W \ {w}
  BY <1>1, <1>3, <1>5 DEF Members, Beside
<1>13. /\ Line(W, waits) # <<>> /\ Head(Line(W, waits)) = v
       /\ Line(W \ {w}, waits') = Tail(Line(W, waits))
  <2> PICK V : V = waits
    OBVIOUS
  <2> PICK U : U = waits'
    OBVIOUS
  <2>1. /\ W \in SUBSET Nat /\ IsFiniteSet(W) /\ w \in W /\ v = V[w].thread
        /\ \A k \in W : w <= k
        /\ \A k \in W \ {w} : U[k].thread = V[k].thread
    BY <1>2, <1>3, <1>7
  <2>2. Leads(W, w, V, U)
    BY ONLY <2>1, LineTail
  <2> QED  BY <2>1, <2>2 DEF Leads
<1>14. Queue(a) # <<>> /\ Head(Queue(a)) = v /\ Queue(a)' = Tail(Queue(a))
  BY <1>12, <1>13, QueueIsLine
<1>15. BecomesAt(a, v, 1, Tail(Queue(a)))
  BY <1>10, <1>11, <1>14 DEF BecomesAt
<1>16. LockStep
  BY <1>1, <1>4, <1>11, <1>14, <1>15, NotBlocked, LockLeaves
<1> QED  BY <1>1, <1>10, <1>16 DEF SectionStep

(* LeaveCriticalSection.                                                    *)
LEMMA LeaveStep ==
    ASSUME IInv, SecInv, NEW t \in Threads, NEW a \in Addresses, Leave(t, a)
    PROVE  SectionStep
<1>1. a \in DOMAIN sections /\ Release(t, sections[a])
  BY LeaveParts
<1> QED  BY <1>1, LeaveOutcome, LetsStep, HandsOnStep

-----------------------------------------------------------------------------
(* A blocked call that is withdrawn.                                        *)

(* Without the wait id of thread t, the others are in line.                 *)
Drops(W, id, t, V, U) == Lock!Others(t, Line(W, V)) = Line(W \ {id}, U)

LEMMA LineDrops ==
    ASSUME NEW W \in SUBSET Nat, IsFiniteSet(W), NEW V, NEW U, NEW t, NEW id,
           \A v \in W : V[v].thread = t <=> v = id,
           \A v \in W \ {id} : U[v].thread = V[v].thread
    PROVE  Drops(W, id, t, V, U)
<1>1. CASE id \in W
  <2>1. V[id].thread = t /\ \A v \in W \ {id} : V[v].thread # t /\ U[v].thread = V[v].thread
    BY <1>1
  <2> QED  BY <1>1, <2>1, LineOthers DEF Drops
<1>2. CASE id \notin W
  <2>1. W \ {id} = W /\ (\A v \in W : V[v].thread # t) /\ \A v \in W : U[v].thread = V[v].thread
    BY <1>2
  <2>2. Lock!Others(t, Line(W, V)) = Line(W, V)
    BY <2>1, LineOthers
  <2>3. Line(W, U) = Line(W, V)
    BY <2>1, LineSame
  <2> QED  BY <2>1, <2>2, <2>3 DEF Drops
<1> QED  BY <1>1, <1>2

(* The wait of the reply of thread t is its only one for section b.         *)
LEMMA OwnWait ==
    ASSUME IInv, SecInv, NEW b \in DOMAIN sections, NEW t \in Threads,
           NEW id, id = reply[t].wait
    PROVE  \A v \in Waiting(Slot(b), waits) : waits[v].thread = t <=> v = id
<1> SUFFICES ASSUME NEW v \in Waiting(Slot(b), waits)
             PROVE  waits[v].thread = t <=> v = id
  OBVIOUS
<1>1. waits[v].thread \in Threads /\ reply[waits[v].thread].wait = v /\ v \in DOMAIN waits
  BY WaiterParts
<1>2. FrameHolds(reply[t], t, waits)
  BY DEF IInv, WaitInv, FramesHold, ThreadHolds
<1>3. 0 \notin DOMAIN waits
  BY DEF IInv, WaitInv, WaitsTyped
<1> QED  BY <1>1, <1>2, <1>3 DEF FrameHolds

LEMMA WithdrawParts ==
    ASSUME IInv, SecInv, NEW t \in Threads, Withdraw(t), NEW id, id = reply[t].wait
    PROVE  /\ IInv' /\ WaitsAdvance /\ WaitsFall /\ Calm' /\ PendingHeld'
           /\ UNCHANGED <<objects, handles, apcs, sections, copy, stale>>
           /\ disturbed' = disturbed \cup {b \in DOMAIN sections : entering[t] = b}
           /\ \A u \in Threads : reply'[u] = IF u = t THEN NoReply ELSE reply[u]
           /\ \A u \in Threads : entering'[u] = IF u = t THEN NoAddress ELSE entering[u]
           /\ entering' \in [Threads -> Addresses \cup {NoAddress}]
           /\ \A w \in DOMAIN waits \ {id} : w \in DOMAIN waits' /\ waits'[w] = waits[w]
           /\ \A b \in DOMAIN sections :
                 /\ Beside(b) /\ Waiting(Slot(b), waits') = Waiting(Slot(b), waits) \ {id}
                 /\ entering[t] # b => Still(b)
<1>1. /\ waits' = Forget(id) /\ reply' = [reply EXCEPT ![t] = NoReply]
      /\ UNCHANGED <<objects, signaled, refs, handles, nextHandle, nextWait, apcs, now,
                     queue, live>>
      /\ disturbed' = disturbed \cup {b \in DOMAIN sections : entering[t] = b}
      /\ entering' = [entering EXCEPT ![t] = NoAddress]
      /\ UNCHANGED <<sections, copy, stale>>
  BY DEF Withdraw, CancelWait
<1>2. /\ IInv' /\ WaitsAdvance /\ WaitsFall /\ Calm' /\ PendingHeld'
      /\ \A u \in Threads : reply'[u] = IF u = t THEN NoReply ELSE reply[u]
  BY <1>1, ForgetParts
<1>3. /\ \A u \in Threads : entering'[u] = IF u = t THEN NoAddress ELSE entering[u]
      /\ entering' \in [Threads -> Addresses \cup {NoAddress}]
  BY <1>1 DEF SecInv, SecTyped
<1>4. \A w \in DOMAIN waits \ {id} : w \in DOMAIN waits' /\ waits'[w] = waits[w]
  BY <1>1, ForgetWaiting
<1>5. ASSUME NEW b \in DOMAIN sections
      PROVE  /\ Beside(b) /\ Waiting(Slot(b), waits') = Waiting(Slot(b), waits) \ {id}
             /\ entering[t] # b => Still(b)
  <2>1. Beside(b) /\ Waiting(Slot(b), waits') = Waiting(Slot(b), waits) \ {id}
    BY <1>1, SameHandles, ForgetWaiting
  <2>2. ASSUME entering[t] # b PROVE id \notin Waiting(Slot(b), waits)
    <3>1. ASSUME id \in Waiting(Slot(b), waits) PROVE entering[t] = b
      <4>1. waits[id].thread = t
        BY <3>1, OwnWait
      <4>2. entering[waits[id].thread] = b
        BY <3>1, WaiterParts
      <4> QED  BY <4>1, <4>2
    <3> QED  BY <2>2, <3>1
  <2> QED  BY <1>1, <2>1, <2>2 DEF Still
<1> QED  BY <1>1, <1>2, <1>3, <1>4, <1>5

(* A call that is blocked elsewhere.                                        *)
LEMMA WithdrawAside ==
    ASSUME IInv, SecInv, NEW t \in Threads, Withdraw(t), entering[t] = NoAddress
    PROVE  AsideStep
<1>1. /\ IInv' /\ WaitsAdvance /\ PendingHeld' /\ UNCHANGED <<apcs, sections, copy, stale>>
      /\ disturbed' = disturbed \cup {b \in DOMAIN sections : entering[t] = b}
      /\ \A u \in Threads : reply'[u] = IF u = t THEN NoReply ELSE reply[u]
      /\ \A u \in Threads : entering'[u] = IF u = t THEN NoAddress ELSE entering[u]
      /\ entering' \in [Threads -> Addresses \cup {NoAddress}]
      /\ \A b \in DOMAIN sections : entering[t] # b => Still(b)
  BY WithdrawParts
<1>2. \A b \in DOMAIN sections : b # NoAddress
  BY SectionParts
<1>3. disturbed' = disturbed
  BY <1>1, <1>2
<1>4. entering' = entering
  BY <1>1 DEF SecInv, SecTyped
<1>5. UNCHANGED own /\ \A b \in DOMAIN sections : Still(b)
  BY <1>1, <1>2, <1>3, <1>4 DEF own
<1>6. apcs' = apcs /\ \A u \in Threads : entering[u] # NoAddress => reply'[u] = reply[u]
  BY <1>1
<1> QED  BY <1>1, <1>5, <1>6, AsideKeeps DEF AsideStep

LEMMA WithdrawStep ==
    ASSUME IInv, SecInv, NEW t \in Threads, Withdraw(t)
    PROVE  SectionStep
<1> SUFFICES ASSUME entering[t] # NoAddress
             PROVE  SectionStep
  BY WithdrawAside, AsideIsStep
<1> PICK a : a = entering[t]
  OBVIOUS
<1> PICK id : id = reply[t].wait
  OBVIOUS
<1> PICK s : s = Slot(a)
  OBVIOUS
<1> PICK W : W = Waiting(s, waits)
  OBVIOUS
<1>1. a \in DOMAIN sections
  BY DEF SecInv, Inside
<1>2. /\ IInv' /\ WaitsAdvance /\ WaitsFall /\ Calm' /\ PendingHeld'
      /\ UNCHANGED <<objects, handles, apcs, sections, copy, stale>>
      /\ disturbed' = disturbed \cup {b \in DOMAIN sections : entering[t] = b}
      /\ \A u \in Threads : reply'[u] = IF u = t THEN NoReply ELSE reply[u]
      /\ \A u \in Threads : entering'[u] = IF u = t THEN NoAddress ELSE entering[u]
      /\ entering' \in [Threads -> Addresses \cup {NoAddress}]
      /\ \A w \in DOMAIN waits \ {id} : w \in DOMAIN waits' /\ waits'[w] = waits[w]
      /\ \A b \in DOMAIN sections :
            /\ Beside(b) /\ Waiting(Slot(b), waits') = Waiting(Slot(b), waits) \ {id}
            /\ entering[t] # b => Still(b)
  BY WithdrawParts
<1>3. /\ a \in Addresses /\ a # NoAddress /\ W \in SUBSET Nat /\ IsFiniteSet(W)
      /\ objects[s].type = "mutex"
  BY <1>1, SectionParts
<1>4. Beside(a) /\ Slot(a)' = s /\ Waiting(s, waits') = W \ {id}
  BY <1>1, <1>2, BesideSlot
<1>5. \A v \in W : waits[v].thread = t <=> v = id
  BY <1>1, OwnWait
<1>6. Exact(a)'
  BY <1>1, <1>2 DEF Exact
<1>7. Private(a)'
  <2>1. ASSUME NEW w \in W \ {id} PROVE entering'[waits'[w].thread] = a
    <3>1. w \in DOMAIN waits /\ waits[w].thread \in Threads /\ entering[waits[w].thread] = a
      BY <1>1, WaiterParts
    <3>2. waits'[w] = waits[w] /\ waits[w].thread # t
      BY <1>2, <1>5, <2>1, <3>1
    <3> QED  BY <1>2, <3>1, <3>2
  <2>2. objects'[s].type = "mutex"
    BY <1>2, <1>3
  <2> QED  BY <1>4, <2>1, <2>2, BesidePrivate
<1>8. ASSUME NEW u \in Threads, entering'[u] = a PROVE Inside(u)'
  <2>1. u # t /\ entering[u] = a /\ reply'[u] = reply[u]
    BY <1>2, <1>3, <1>8
  <2> PICK k : k = reply[u].wait
    OBVIOUS
  <2>2. /\ k # 0 /\ k \in DOMAIN waits /\ waits[k].thread = u
        /\ waits[k].result = Pending => objects[s].owner \notin {NoThread, u}
        /\ waits[k].result # Pending => objects[s].owner = u
    BY <1>1, <2>1, EnteringParts
  <2>3. k # id
    <3>1. FrameHolds(reply[t], t, waits)
      BY DEF IInv, WaitInv, FramesHold, ThreadHolds
    <3> QED  BY <2>1, <2>2, <3>1 DEF FrameHolds
  <2>4. waits'[k] = waits[k] /\ objects' = objects
    BY <1>2, <2>2, <2>3
  <2>5. IF waits'[k].result = Pending
        THEN objects'[s].owner \notin {NoThread, u}
        ELSE objects'[s].owner = u
    BY <2>2, <2>4
  <2>6. Inside(u) /\ FrameHolds(reply[u], u, waits)
    BY DEF SecInv, IInv, WaitInv, FramesHold, ThreadHolds
  <2> QED  BY <1>2, <1>3, <1>4, <1>8, <2>1, <2>5, <2>6, MovedInside
<1>9. SecTyped'
  BY <1>2 DEF SecInv, SecTyped
<1>10. AsideOf(a)
  BY <1>2 DEF AsideOf
<1>11. SecInv' /\ \A b \in Addresses \ {a} : SameLock(b)
  BY <1>2, <1>3, <1>6, <1>7, <1>8, <1>9, <1>10, OthersKeep
<1>12. Holder(a)' = Holder(a) /\ Depth(a)' = Depth(a)
  BY <1>1, <1>2, <1>4 DEF Holder, Depth, Beside
<1>13. Members(a) = W /\ Members(a)' = W \ {id}
  BY <1>1, <1>4 DEF Members, Beside
<1>14. Lock!Others(t, Line(W, waits)) = Line(W \ {id}, waits')
  <2> PICK V : V = waits
    OBVIOUS
  <2> PICK U : U = waits'
    OBVIOUS
  <2>1. /\ W \in SUBSET Nat /\ IsFiniteSet(W) /\ \A v \in W : V[v].thread = t <=> v = id
        /\ \A v \in W \ {id} : U[v].thread = V[v].thread
    BY <1>2, <1>3, <1>5 DEF Waiting
  <2>2. Drops(W, id, t, V, U)
    BY ONLY <2>1, LineDrops
  <2> QED  BY <2>2 DEF Drops
<1>15. Queue(a)' = Lock!Others(t, Queue(a))
  BY <1>13, <1>14, QueueIsLine
<1>16. BecomesAt(a, Holder(a), Depth(a), Lock!Others(t, Queue(a)))
  BY <1>11, <1>12, <1>15 DEF BecomesAt
<1> QED  BY <1>2, <1>3, <1>11, <1>16, LockWithdraws DEF SectionStep

-----------------------------------------------------------------------------
(* A thread that is terminated.                                             *)

(* The plan of the exit of thread u, without its waits.                     *)
ExitPlan(u) == ExitThreadObjects(DropThread(Plan, u), u)

KeptBy(u) == {k \in DOMAIN waits : waits[k].thread # u}

LEMMA ExitPlanSound ==
    ASSUME IInv, NEW u, NEW p, p = ExitPlan(u), NEW D, D = KeptBy(u)
    PROVE  /\ SoundPlan(p, D, live \ {u}) /\ DOMAIN p.waits = D
           /\ \A k \in D : p.waits[k] = waits[k]
           /\ \A s \in Slots : p.objects[s] = Exited(objects[s], u)
<1>1. PICK V : V = [k \in D |-> waits[k]]
  OBVIOUS
<1>2. V \in [D -> WaitRecord] /\ \A k \in D : V[k] = waits[k]
  BY <1>1 DEF IInv, WaitInv, WaitsTyped, KeptBy
<1>3. WaitsFit(V, D, live) /\ WaitsFit(V, D, live \ {u})
  BY <1>2 DEF IInv, WaitInv, WaitsFit, KeptBy
<1>4. PICK a : a = DropThread(Plan, u)
  OBVIOUS
<1>5. a = [Plan EXCEPT !.waits = V]
  BY <1>1, <1>4 DEF DropThread, Plan, KeptBy
<1>6. SoundPlan(a, D, live) /\ a.waits = V /\ a.objects = objects
  <2>1. SoundPlan(a, D, live)
    BY <1>2, <1>3, <1>5, PlanFacts, SoundTable
  <2> QED  BY <1>5, <2>1 DEF Plan
<1>7. SoundPlan(p, D, live \ {u}) /\ p.waits = V
  BY <1>3, <1>4, <1>6, SoundExit DEF ExitPlan
<1>8. \A s \in Slots : p.objects[s] = Exited(objects[s], u)
  <2>1. a \in Plans(D)
    BY <1>6 DEF SoundPlan
  <2> QED  BY <1>4, <1>6, <2>1, ExitObjects DEF ExitPlan
<1> QED  BY <1>2, <1>7, <1>8

(* A mutex after the exit of a thread.                                      *)
LEMMA ExitedMutex ==
    ASSUME NEW o \in MutexKind, NEW u, NEW r, r = Exited(o, u)
    PROVE  /\ o.owner = u => r.type = "mutex" /\ r.owner = NoThread /\ r.depth = 0
           /\ o.owner # u => r = o
<1>1. o.type = "mutex"
  BY DEF MutexKind
<1>2. CASE o.owner = u
  <2>1. r = [o EXCEPT !.owner = NoThread, !.depth = 0, !.abandoned = TRUE]
    BY <1>1, <1>2 DEF Exited
  <2> QED  BY <1>2, <2>1 DEF MutexKind
<1>3. CASE o.owner # u
  BY <1>1, <1>3 DEF Exited
<1> QED  BY <1>2, <1>3

(* What the termination of thread u does to section b: its wait, if it has  *)
(* one, is dropped, and if it was inside, the section is free or handed on. *)
Departs(b, u) ==
    LET W == Waiting(Slot(b), waits) IN
    /\ objects'[Slot(b)].type = "mutex"
    /\ \/ /\ objects[Slot(b)].owner # u
          /\ objects'[Slot(b)] = objects[Slot(b)]
          /\ Waiting(Slot(b), waits') = W \ {reply[u].wait}
       \/ /\ objects[Slot(b)].owner = u /\ W = {} /\ Waiting(Slot(b), waits') = {}
          /\ objects'[Slot(b)].owner = NoThread /\ objects'[Slot(b)].depth = 0
       \/ /\ objects[Slot(b)].owner = u /\ reply[u].wait \notin W
          /\ \E w \in W : HandsOn(b, w)

LEMMA SectionDeparts ==
    ASSUME IInv, SecInv, NEW u \in Threads, NEW p, p = ExitPlan(u),
           Commit(ResolveWaiters(p, nextWait, now)), NEW b \in DOMAIN sections
    PROVE  DOMAIN waits' = KeptBy(u) /\ Departs(b, u)
<1> PICK s : s = Slot(b)
  OBVIOUS
<1> PICK o : o = objects[s]
  OBVIOUS
<1> PICK W : W = Waiting(s, waits)
  OBVIOUS
<1> PICK id : id = reply[u].wait
  OBVIOUS
<1> PICK D : D = KeptBy(u)
  OBVIOUS
<1>1. s \in Slots /\ o \in MutexKind /\ o.type = "mutex" /\ refs[s] = 1
  BY SectionParts
<1>2. /\ SoundPlan(p, D, live \ {u}) /\ DOMAIN p.waits = D /\ D \subseteq DOMAIN waits
      /\ \A k \in D : p.waits[k] = waits[k]
      /\ p.objects[s] = Exited(o, u)
  <2>1. /\ SoundPlan(p, D, live \ {u}) /\ DOMAIN p.waits = D
        /\ \A k \in D : p.waits[k] = waits[k]
        /\ \A k \in Slots : p.objects[k] = Exited(objects[k], u)
    BY ExitPlanSound
  <2>2. D \subseteq DOMAIN waits
    BY DEF KeptBy
  <2>3. p.objects[s] = Exited(objects[s], u)
    BY <1>1, <2>1
  <2> QED  BY <2>1, <2>2, <2>3
<1>3. /\ o.owner = u => /\ p.objects[s].type = "mutex" /\ p.objects[s].owner = NoThread
                        /\ p.objects[s].depth = 0
      /\ o.owner # u => p.objects[s] = o
  BY <1>1, <1>2, ExitedMutex
<1>4. ASSUME NEW w \in W
      PROVE  /\ w \in DOMAIN waits /\ WaitsFor(waits[w], s) /\ waits[w].thread \in Threads
             /\ waits[w].thread # NoThread /\ reply[waits[w].thread].wait = w
             /\ o.owner \notin {NoThread, waits[w].thread}
             /\ waits[w].thread = u <=> w = id
  BY <1>4, WaiterParts, OwnWait
<1>5. Waiting(s, p.waits) = W \ {id}
  <2>1. \A k \in D : k \in Waiting(s, p.waits) <=> k \in W
    BY <1>2 DEF Waiting
  <2>2. Waiting(s, p.waits) \subseteq D
    BY <1>2 DEF Waiting
  <2>3. \A k \in W : k \in D <=> k # id
    BY <1>4 DEF KeptBy
  <2> QED  BY <2>1, <2>2, <2>3
<1>6. Alone(p.objects[s], s, p.waits)
  <2>1. p.objects[s].type = "mutex"
    BY <1>1, <1>3
  <2>2. ASSUME NEW w \in Waiting(s, p.waits)
        PROVE  /\ p.waits[w] = waits[w] /\ w \in W
    <3>1. w \in D /\ w \in W
      BY <1>2, <1>5 DEF Waiting
    <3> QED  BY <1>2, <3>1
  <2>3. \A w \in W : waits[w].thread # p.objects[s].owner
    BY <1>3, <1>4
  <2> QED  BY <1>4, <2>1, <2>2, <2>3 DEF Alone
<1>7. /\ DOMAIN waits' = D
      /\ LeavesAlone(p, s) \/ \E w \in Waiting(s, p.waits) : HandsOver(p, s, w)
  <2>1. PICK L : L = live \ {u}
    OBVIOUS
  <2>2. /\ D \subseteq DOMAIN waits /\ SoundPlan(p, D, L) /\ s \in Slots /\ refs[s] # 0
        /\ Alone(p.objects[s], s, p.waits) /\ Commit(ResolveWaiters(p, nextWait, now))
    BY <1>1, <1>2, <1>6, <2>1
  <2> QED  BY ONLY IInv, <2>2, PassOutcome
<1>8. CASE o.owner # u
  <2>1. p.objects[s].owner = NoThread => W = {}
    BY <1>3, <1>8, FreeSection
  <2>2. LeavesAlone(p, s)
    BY <1>5, <1>7, <2>1 DEF HandsOver
  <2> QED  BY <1>1, <1>3, <1>5, <1>7, <1>8, <2>2 DEF LeavesAlone, Departs
<1>9. CASE o.owner = u
  <2>1. id \notin W
    BY <1>4, <1>9
  <2>2. Waiting(s, p.waits) = W
    BY <1>5, <2>1
  <2>3. CASE LeavesAlone(p, s)
    BY <1>3, <1>7, <1>9, <2>2, <2>3 DEF LeavesAlone, Departs
  <2>4. ASSUME NEW w \in W, HandsOver(p, s, w) PROVE HandsOn(b, w)
    <3>1. p.waits[w] = waits[w]
      <4>1. w \in D
        BY <1>2, <2>2 DEF Waiting
      <4> QED  BY <1>2, <4>1
    <3>2. p.objects[s].depth + 1 = 1
      BY <1>3, <1>9
    <3> QED  BY <2>2, <2>4, <3>1, <3>2 DEF HandsOver, HandsOn
  <2>5. ASSUME NEW w \in W, HandsOn(b, w) PROVE Departs(b, u)
    BY <1>9, <2>1, <2>5 DEF Departs, HandsOn
  <2> QED  BY <1>7, <2>2, <2>3, <2>4, <2>5
<1> QED  BY <1>8, <1>9

(* What TerminateThread writes, and leaves alone.                           *)
LEMMA TerminateParts ==
    ASSUME IInv, SecInv, NEW t \in Threads, NEW u \in Threads, Terminate(t, u)
    PROVE  /\ IInv' /\ WaitsAdvance /\ WaitsFall /\ Calm' /\ PendingHeld'
           /\ UNCHANGED <<handles, sections, copy, stale>>
           /\ disturbed' = disturbed \cup SectionsOf(u)
           /\ \A x \in Threads : reply'[x] = IF x = u THEN NoReply ELSE reply[x]
           /\ \A x \in Threads : entering'[x] = IF x = u THEN NoAddress ELSE entering[x]
           /\ entering' \in [Threads -> Addresses \cup {NoAddress}]
           /\ \A b \in DOMAIN sections : Beside(b) /\ Departs(b, u) /\ DOMAIN waits' = KeptBy(u)
<1>1. /\ TerminateThread(t, u) /\ disturbed' = disturbed \cup SectionsOf(u)
      /\ entering' = [entering EXCEPT ![u] = NoAddress] /\ UNCHANGED <<sections, copy, stale>>
  BY DEF Terminate
<1>2. IInv' /\ WaitsAdvance
  BY <1>1, TerminateThreadKeeps DEF Steady
<1>3. PICK p : p = ExitPlan(u)
  OBVIOUS
<1>4. /\ Commit(ResolveWaiters(p, nextWait, now)) /\ apcs' = apcs \ {u}
      /\ reply' = [reply EXCEPT ![u] = NoReply] /\ handles' = handles
  BY <1>1, <1>3 DEF TerminateThread, ExitPlan
<1>5. Calm' /\ WaitsFall /\ PendingHeld'
  BY <1>2, <1>4, CalmKeeps, GrowingHeld DEF SecInv, Calm, HandlesGrow
<1>6. \A x \in Threads : reply'[x] = IF x = u THEN NoReply ELSE reply[x]
  BY <1>4 DEF IInv, WaitInv, FramesTyped
<1>7. /\ \A x \in Threads : entering'[x] = IF x = u THEN NoAddress ELSE entering[x]
      /\ entering' \in [Threads -> Addresses \cup {NoAddress}]
  BY <1>1 DEF SecInv, SecTyped
<1>8. \A b \in DOMAIN sections : Beside(b) /\ Departs(b, u) /\ DOMAIN waits' = KeptBy(u)
  BY <1>1, <1>3, <1>4, SameHandles, SectionDeparts
<1> QED  BY <1>1, <1>2, <1>4, <1>5, <1>6, <1>7, <1>8

(* A section after the termination of a thread.                             *)
LEMMA DepartedSection ==
    ASSUME IInv, SecInv, NEW t \in Threads, NEW u \in Threads, Terminate(t, u),
           NEW b \in DOMAIN sections
    PROVE  Private(b)' /\ Exact(b)'
<1> PICK s : s = Slot(b)
  OBVIOUS
<1> PICK W : W = Waiting(s, waits)
  OBVIOUS
<1> PICK id : id = reply[u].wait
  OBVIOUS
<1>1. /\ WaitsFall /\ UNCHANGED <<sections, copy, stale>>
      /\ disturbed' = disturbed \cup SectionsOf(u)
      /\ \A x \in Threads : entering'[x] = IF x = u THEN NoAddress ELSE entering[x]
      /\ Beside(b) /\ Departs(b, u)
  BY TerminateParts
<1>2. /\ objects'[s].type = "mutex"
      /\ \/ objects[s].owner # u /\ objects'[s] = objects[s] /\ Waiting(s, waits') = W \ {id}
         \/ objects[s].owner = u /\ W = {} /\ Waiting(s, waits') = {}
         \/ objects[s].owner = u /\ id \notin W /\ Waiting(s, waits') \subseteq W
  BY <1>1 DEF Departs, HandsOn
<1>3. ASSUME NEW w \in W
      PROVE  /\ w \in DOMAIN waits /\ waits[w].thread \in Threads
             /\ entering[waits[w].thread] = b /\ (waits[w].thread = u <=> w = id)
  BY <1>3, WaiterParts, OwnWait
<1>4. Private(b)'
  <2>1. ASSUME NEW w \in Waiting(s, waits') PROVE entering'[waits'[w].thread] = b
    <3>1. w \in W /\ w # id
      BY <1>2, <2>1
    <3>2. w \in DOMAIN waits /\ w \in DOMAIN waits'
      BY <1>3, <3>1 DEF Waiting
    <3>3. waits'[w].thread = waits[w].thread
      BY <1>1, <3>2 DEF WaitsFall, SameWait
    <3> QED  BY <1>1, <1>3, <3>1, <3>3
  <2> QED  BY <1>1, <1>2, <2>1, BesidePrivate
<1>5. Exact(b)'
  <2>1. CASE b \in SectionsOf(u)
    <3>1. b \in disturbed'
      BY <1>1, <2>1
    <3> QED  BY <3>1 DEF Exact
  <2>2. CASE b \notin SectionsOf(u)
    <3>1. entering[u] # b /\ objects[s].owner # u
      BY <2>2 DEF SectionsOf
    <3>2. id \notin W
      BY <1>3, <3>1
    <3>3. Still(b)
      BY <1>1, <1>2, <3>1, <3>2 DEF Still
    <3>4. Exact(b) /\ copy'[b] = copy[b] /\ (b \in disturbed => b \in disturbed')
          /\ (b \in stale => b \in stale')
      BY <1>1 DEF SecInv
    <3> QED  BY <3>3, <3>4, StillExact
  <2> QED  BY <2>1, <2>2
<1> QED  BY <1>4, <1>5

(* A thread that enters a section while another is terminated.              *)
LEMMA DepartedInside ==
    ASSUME IInv, SecInv, NEW t \in Threads, NEW u \in Threads, Terminate(t, u),
           NEW x \in Threads
    PROVE  Inside(x)'
<1> SUFFICES ASSUME entering'[x] # NoAddress
             PROVE  Inside(x)'
  BY DEF Inside
<1> PICK b : b = entering[x]
  OBVIOUS
<1> PICK s : s = Slot(b)
  OBVIOUS
<1> PICK W : W = Waiting(s, waits)
  OBVIOUS
<1> PICK k : k = reply[x].wait
  OBVIOUS
<1>1. /\ IInv' /\ WaitsFall
      /\ \A y \in Threads : reply'[y] = IF y = u THEN NoReply ELSE reply[y]
      /\ \A y \in Threads : entering'[y] = IF y = u THEN NoAddress ELSE entering[y]
  BY TerminateParts
<1>2. x # u /\ entering'[x] = b /\ b # NoAddress /\ reply'[x] = reply[x]
  BY <1>1
<1>3. Inside(x) /\ FrameHolds(reply[x], x, waits)
  BY DEF SecInv, IInv, WaitInv, FramesHold, ThreadHolds
<1>4. b \in DOMAIN sections
  BY <1>2, <1>3 DEF Inside
<1>5. Beside(b) /\ Departs(b, u) /\ DOMAIN waits' = KeptBy(u)
  BY <1>4, TerminateParts
<1>6. /\ k \in DOMAIN waits /\ waits[k].thread = x
      /\ (waits[k].result = Pending <=> k \in W)
      /\ (waits[k].result = Pending => objects[s].owner \notin {NoThread, x})
      /\ (waits[k].result # Pending => objects[s].owner = x)
  BY <1>4, EnteringParts
<1>7. k \in DOMAIN waits' /\ (waits'[k].result = Pending => waits[k].result = Pending)
  BY <1>1, <1>2, <1>5, <1>6 DEF KeptBy, WaitsFall
<1>8. IF waits'[k].result = Pending
      THEN objects'[s].owner \notin {NoThread, x}
      ELSE objects'[s].owner = x
  <2>1. CASE /\ objects[s].owner # u /\ objects'[s] = objects[s]
             /\ Waiting(s, waits') = W \ {reply[u].wait}
    <3>1. CASE k \in W
      <4>1. k # reply[u].wait
        BY <1>2, <1>4, <1>6, <3>1, OwnWait
      <4>2. k \in Waiting(s, waits')
        BY <2>1, <3>1, <4>1
      <4>3. waits'[k].result = Pending
        BY <4>2 DEF Waiting
      <4> QED  BY <1>6, <2>1, <3>1, <4>3
    <3>2. CASE k \notin W
      BY <1>6, <1>7, <2>1, <3>2
    <3> QED  BY <3>1, <3>2
  <2>2. CASE objects[s].owner = u /\ W = {}
    BY <1>2, <1>6, <2>2
  <2>3. ASSUME objects[s].owner = u, NEW w \in W, HandsOn(b, w)
        PROVE  IF waits'[k].result = Pending
               THEN objects'[s].owner \notin {NoThread, x}
               ELSE objects'[s].owner = x
    <3>1. k \in W
      BY <1>2, <1>6, <2>3
    <3>2. /\ objects'[s].owner = waits[w].thread /\ waits'[w].result # Pending
          /\ Waiting(s, waits') = W \ {w}
      BY <2>3 DEF HandsOn
    <3>3. CASE k = w
      BY <1>6, <3>2, <3>3
    <3>4. CASE k # w
      <4>1. k \in Waiting(s, waits')
        BY <3>1, <3>2, <3>4
      <4>2. waits'[k].result = Pending
        BY <4>1 DEF Waiting
      <4>3. waits[w].thread # NoThread /\ reply[waits[w].thread].wait = w
        BY <1>4, WaiterParts
      <4>4. waits[w].thread # x
        BY <3>4, <4>3
      <4> QED  BY <3>2, <4>2, <4>3, <4>4
    <3> QED  BY <3>3, <3>4
  <2> QED  BY <1>5, <2>1, <2>2, <2>3 DEF Departs
<1> QED  BY <1>1, <1>2, <1>3, <1>5, <1>8, MovedInside

LEMMA TerminateSound ==
    ASSUME IInv, SecInv, NEW t \in Threads, NEW u \in Threads, Terminate(t, u)
    PROVE  SecInv'
<1>1. /\ Calm' /\ PendingHeld' /\ UNCHANGED <<handles, sections, copy, stale>>
      /\ entering' \in [Threads -> Addresses \cup {NoAddress}]
  BY TerminateParts
<1>2. SecTyped'
  BY <1>1 DEF SecInv, SecTyped
<1>3. \A a \in DOMAIN sections' : Private(a)' /\ Exact(a)'
  BY <1>1, DepartedSection
<1>4. \A x \in Threads : Inside(x)'
  BY DepartedInside
<1> QED  BY <1>1, <1>2, <1>3, <1>4 DEF SecInv

(* What the lock of a becomes when thread u is gone from it.                *)
Gone(a, u) ==
    LET rest == Lock!Others(u, Queue(a))
    IN  IF Holder(a) # u
        THEN Holder(a)' = Holder(a) /\ Depth(a)' = Depth(a) /\ Queue(a)' = rest
        ELSE IF rest = <<>>
             THEN Holder(a)' = NoThread /\ Depth(a)' = 0 /\ Queue(a)' = rest
             ELSE Holder(a)' = Head(rest) /\ Depth(a)' = 1 /\ Queue(a)' = Tail(rest)

LEMMA LockExits ==
    ASSUME NEW u \in Threads, \A a \in Addresses : Gone(a, u)
    PROVE  LockStep
<1> DEFINE O == [a \in Addresses |-> Holder(a)]
           E == [a \in Addresses |-> Depth(a)]
           Q == [a \in Addresses |-> Queue(a)]
           R == [a \in Addresses |-> Lock!Others(u, Q[a])]
<1>1. \A a \in Addresses : /\ O[a] = Holder(a) /\ E[a] = Depth(a) /\ Q[a] = Queue(a)
                           /\ R[a] = Lock!Others(u, Queue(a))
  OBVIOUS
<1>2. O' = [a \in Addresses |->
               IF O[a] # u THEN O[a] ELSE IF O[a] = u /\ R[a] # <<>> THEN Head(R[a]) ELSE NoThread]
  <2>1. O' = [a \in Addresses |-> Holder(a)']
    OBVIOUS
  <2> HIDE DEF O, E, Q, R
  <2> QED  BY <1>1, <2>1 DEF Gone
<1>3. E' = [a \in Addresses |->
               IF O[a] # u THEN E[a] ELSE IF O[a] = u /\ R[a] # <<>> THEN 1 ELSE 0]
  <2>1. E' = [a \in Addresses |-> Depth(a)']
    OBVIOUS
  <2> HIDE DEF O, E, Q, R
  <2> QED  BY <1>1, <2>1 DEF Gone
<1>4. Q' = [a \in Addresses |-> IF O[a] = u /\ R[a] # <<>> THEN Tail(R[a]) ELSE R[a]]
  <2>1. Q' = [a \in Addresses |-> Queue(a)']
    OBVIOUS
  <2> HIDE DEF O, E, Q, R
  <2> QED  BY <1>1, <2>1 DEF Gone
<1>5. Lock!Exit(u)
  BY <1>2, <1>3, <1>4 DEF Lock!Exit
<1> QED  BY <1>5 DEF LockStep, Lock!Next

(* Where there is no section.                                               *)
LEMMA AbsentGone ==
    ASSUME NEW a, a \notin DOMAIN sections, sections' = sections, NEW u \in Threads
    PROVE  Gone(a, u)
<1>1. Holder(a) = NoThread /\ Depth(a) = 0 /\ Holder(a)' = NoThread /\ Depth(a)' = 0
  BY DEF Holder, Depth
<1>2. Members(a) = {} /\ Members(a)' = {}
  BY DEF Members
<1>3. Queue(a) = <<>> /\ Queue(a)' = <<>>
  BY <1>2, QueueIsLine, LineNone
<1>4. Lock!Others(u, <<>>) = <<>>
  BY DEF Lock!Others
<1>5. Holder(a) # u
  BY <1>1, NoThreadAssumption
<1> QED  BY <1>1, <1>3, <1>4, <1>5 DEF Gone

LEMMA SectionGone ==
    ASSUME IInv, SecInv, NEW t \in Threads, NEW u \in Threads, Terminate(t, u),
           NEW b \in DOMAIN sections
    PROVE  Gone(b, u)
<1> PICK s : s = Slot(b)
  OBVIOUS
<1> PICK W : W = Waiting(s, waits)
  OBVIOUS
<1> PICK id : id = reply[u].wait
  OBVIOUS
<1> PICK V : V = waits
  OBVIOUS
<1> PICK U : U = waits'
  OBVIOUS
<1>1. /\ WaitsFall /\ sections' = sections /\ DOMAIN waits' = KeptBy(u)
      /\ Beside(b) /\ Departs(b, u)
  BY TerminateParts
<1>2. W \in SUBSET Nat /\ IsFiniteSet(W) /\ b # NoAddress
  BY SectionParts
<1>3. Slot(b)' = s
  BY <1>1, BesideSlot
<1>4. /\ Holder(b) = objects[s].owner /\ Depth(b) = objects[s].depth
      /\ Holder(b)' = objects'[s].owner /\ Depth(b)' = objects'[s].depth
  BY <1>1, <1>3 DEF Holder, Depth
<1>5. Members(b) = W /\ Members(b)' = Waiting(s, waits')
  BY <1>1, <1>3 DEF Members
<1>6. Queue(b) = Line(W, V) /\ Queue(b)' = Line(Waiting(s, waits'), U)
  BY <1>5, QueueIsLine
<1>7. \A v \in W : V[v].thread = u <=> v = id
  BY OwnWait
<1>8. \A v \in W \ {id} : U[v].thread = V[v].thread
  <2>1. \A v \in W \ {id} : v \in DOMAIN waits /\ v \in DOMAIN waits'
    BY <1>1, <1>7 DEF Waiting, KeptBy
  <2> QED  BY <1>1, <2>1 DEF WaitsFall, SameWait
<1>9. CASE /\ objects[s].owner # u /\ objects'[s] = objects[s]
           /\ Waiting(s, waits') = W \ {id}
  <2>1. Drops(W, id, u, V, U)
    BY ONLY <1>2, <1>7, <1>8, LineDrops
  <2>2. Lock!Others(u, Queue(b)) = Queue(b)'
    BY <1>6, <1>9, <2>1 DEF Drops
  <2> QED  BY <1>4, <1>9, <2>2 DEF Gone
<1>10. CASE /\ objects[s].owner = u /\ W = {} /\ Waiting(s, waits') = {}
            /\ objects'[s].owner = NoThread /\ objects'[s].depth = 0
  <2>1. Queue(b) = <<>> /\ Queue(b)' = <<>>
    BY <1>6, <1>10, LineNone
  <2>2. Lock!Others(u, <<>>) = <<>>
    BY DEF Lock!Others
  <2> QED  BY <1>4, <1>10, <2>1, <2>2 DEF Gone
<1>11. ASSUME objects[s].owner = u, id \notin W, NEW w \in W, HandsOn(b, w)
       PROVE  Gone(b, u)
  <2>1. /\ \A v \in W : w <= v /\ Waiting(s, waits') = W \ {w}
        /\ objects'[s].owner = V[w].thread /\ objects'[s].depth = 1
    BY <1>11 DEF HandsOn
  <2>2. /\ \A v \in W : V[v].thread # u /\ U[v].thread = V[v].thread
        /\ \A v \in W : w <= v
        /\ Waiting(s, waits') = W \ {w}
    BY <1>7, <1>8, <1>11, <2>1
  <2>3. Lock!Others(u, Line(W, V)) = Line(W, V)
    BY ONLY <1>2, <2>2, LineOthers
  <2>4. Leads(W, w, V, U)
    BY ONLY <1>2, <1>11, <2>2, LineTail
  <2>5. /\ Lock!Others(u, Queue(b)) = Line(W, V) /\ Line(W, V) # <<>>
        /\ Head(Line(W, V)) = V[w].thread /\ Queue(b)' = Tail(Line(W, V))
    BY <1>6, <2>2, <2>3, <2>4 DEF Leads
  <2> QED  BY <1>4, <1>11, <2>1, <2>5 DEF Gone
<1> QED  BY <1>1, <1>9, <1>10, <1>11 DEF Departs

(* TerminateThread                                                          *)
LEMMA TerminateStep ==
    ASSUME IInv, SecInv, NEW t \in Threads, NEW u \in Threads, Terminate(t, u)
    PROVE  SectionStep
<1>1. IInv' /\ SecInv' /\ sections' = sections
  BY TerminateParts, TerminateSound
<1>2. \A a \in Addresses : Gone(a, u)
  BY <1>1, AbsentGone, SectionGone
<1> QED  BY <1>1, <1>2, LockExits DEF SectionStep

-----------------------------------------------------------------------------
(* The specification.                                                       *)

LEMMA SectionsStart == InitSections => IInv /\ SecInv /\ Lock!Init
<1> SUFFICES ASSUME InitSections PROVE IInv /\ SecInv /\ Lock!Init
  OBVIOUS
<1>1. /\ Init /\ sections = [a \in {} |-> 1]
      /\ copy = [a \in Addresses |-> Words(NoThread, 0, 0)]
      /\ entering = [t \in Threads |-> NoAddress]
  BY DEF InitSections
<1>2. IInv /\ DOMAIN sections = {}
  BY <1>1, InitSound
<1>3. apcs = {} /\ DOMAIN waits = {}
  BY <1>1 DEF Init
<1>4. SecInv
  <2>1. SecTyped
    BY <1>1, <1>2 DEF SecTyped
  <2>2. Calm /\ PendingHeld
    BY <1>3 DEF Calm, PendingHeld
  <2>3. \A t \in Threads : Inside(t)
    BY <1>1 DEF Inside
  <2> QED  BY <1>2, <2>1, <2>2, <2>3 DEF SecInv
<1>5. Lock!Init
  <2>1. ASSUME NEW a \in Addresses PROVE Holder(a) = NoThread /\ Depth(a) = 0 /\ Queue(a) = <<>>
    <3>1. Holder(a) = NoThread /\ Depth(a) = 0 /\ Members(a) = {}
      BY <1>2 DEF Holder, Depth, Members
    <3>2. Queue(a) = Line(Members(a), waits)
      BY QueueIsLine
    <3>3. Queue(a) = <<>>
      BY <3>1, <3>2, LineNone
    <3> QED  BY <3>1, <3>3
  <2> QED  BY <2>1 DEF Lock!Init
<1> QED  BY <1>2, <1>4, <1>5

LEMMA StutterStep ==
    ASSUME IInv, SecInv, UNCHANGED allVars
    PROVE  SectionStep
<1>1. UNCHANGED vars /\ UNCHANGED own
  BY DEF allVars
<1>2. IInv' /\ WaitsAdvance
  BY <1>1, StutterKeeps DEF Steady
<1>3. /\ UNCHANGED <<objects, handles, waits, apcs, reply>>
      /\ UNCHANGED <<sections, copy, stale, entering, disturbed>>
  BY <1>1 DEF vars, context, own
<1>4. PendingHeld' /\ apcs' = apcs
  BY <1>3 DEF SecInv, PendingHeld, Held
<1>5. \A b \in DOMAIN sections : Still(b)
  BY <1>3, SameHandles DEF Still, Waiting
<1> QED  BY <1>1, <1>2, <1>3, <1>4, <1>5, AsideKeeps, AsideIsStep DEF AsideStep

LEMMA NextSectionStep ==
    ASSUME IInv, SecInv, [NextSections]_allVars
    PROVE  SectionStep
<1>1. CASE UNCHANGED allVars
  BY <1>1, StutterStep
<1>2. ASSUME NEW t \in Threads, NEW a \in Addresses, SectionCall(t, a) PROVE SectionStep
  BY <1>2, InitializeAside, EnterStep, EnterContendedStep, LeaveStep, DeleteAside, RemapAside,
     AsideIsStep DEF SectionCall
<1>3. ASSUME NEW t \in Threads, FinishEnter(t) PROVE SectionStep
  BY <1>3, FinishEnterAside, AsideIsStep
<1>4. ASSUME NEW t \in Threads, Withdraw(t) PROVE SectionStep
  BY <1>4, WithdrawStep
<1>5. ASSUME NEW t \in Threads, NEW u \in Threads, Terminate(t, u) PROVE SectionStep
  BY <1>5, TerminateStep
<1>6. ASSUME NEW t \in Threads, OtherCall(t) PROVE SectionStep
  BY <1>6, OtherCallAside, AsideIsStep
<1> QED  BY <1>1, <1>2, <1>3, <1>4, <1>5, <1>6 DEF NextSections

-----------------------------------------------------------------------------
(* The results.                                                             *)

(* The dispatcher keeps its invariant under the calls on critical sections, *)
(* and each section its private mutex: one handle, waited for alone and by  *)
(* the threads that enter the section, which are inside when they no longer *)
(* wait (critical.rs, EnterCriticalSection to advance_synchronization_reply).*)
THEOREM SectionsSound == SpecSections => [](IInv /\ SecInv)
<1>1. InitSections => IInv /\ SecInv
  BY SectionsStart
<1>2. IInv /\ SecInv /\ [NextSections]_allVars => (IInv /\ SecInv)'
  BY NextSectionStep DEF SectionStep
<1> QED  BY <1>1, <1>2, PTL DEF SpecSections

(* The words a guest reads from a section are the state of its mutex after  *)
(* any order of calls, although LeaveCriticalSection computes them before   *)
(* the mutex is handed on, until a thread is terminated or withdrawn; and   *)
(* a thread blocked in EnterCriticalSection finds its section when it goes  *)
(* on (publish_critical_state).                                             *)
THEOREM SectionsExactHold == SpecSections => []SectionsAreExact
<1>1. ASSUME IInv, SecInv PROVE SectionsAreExact
  <2>1. ASSUME NEW a \in DOMAIN sections \ (disturbed \cup stale)
        PROVE  copy[a] = Words(objects[Slot(a)].owner, objects[Slot(a)].depth,
                               Cardinality(Waiters(Slot(a))))
    BY <1>1, <2>1, WaitersAre DEF SecInv, Exact
  <2>2. CopiesAreExact
    BY <2>1 DEF CopiesAreExact
  <2>3. EnteredSectionsExist
    BY <1>1 DEF SecInv, Inside, EnteredSectionsExist
  <2> QED  BY <2>2, <2>3 DEF SectionsAreExact
<1> QED  BY <1>1, SectionsSound, PTL

(* Critical sections implement recursive locks that are handed on in the    *)
(* order of arrival, by LeaveCriticalSection and by threads terminated      *)
(* inside; closing, deleting, remapping and resuming are not seen by them.  *)
THEOREM SectionsImplementLocks == SpecSections => SectionsAreLocks
<1>1. InitSections => Lock!Init
  BY SectionsStart
<1>2. IInv /\ SecInv /\ [NextSections]_allVars => [Lock!Next]_(Lock!lock)
  BY NextSectionStep DEF SectionStep, LockStep
<1> QED  BY <1>1, <1>2, SectionsSound, PTL DEF SpecSections, SectionsAreLocks, Lock!Spec

-----------------------------------------------------------------------------
(* The dispatcher under critical sections.                                  *)

(* What the dispatcher shows of each of its calls, of the calls on sections *)
(* as well.  (A section is deleted with CloseHandle's function, though the  *)
(* program may close no handle itself.)                                     *)
Regular == Serves /\ (NoRetime => Steady)

LEMMA CreatedRegular ==
    ASSUME IInv, NEW t \in live,
           Create([type |-> "mutex", owner |-> NoThread, depth |-> 0, abandoned |-> FALSE], TRUE)
    PROVE  Regular
<1>1. PICK initial \in BOOLEAN : initial = FALSE
  OBVIOUS
<1>2. Create([type |-> "mutex", owner |-> IF initial THEN t ELSE NoThread,
              depth |-> IF initial THEN 1 ELSE 0, abandoned |-> FALSE], ~initial)
  BY <1>1
<1>3. Steady
  BY <1>2, CreateMutexKeeps
<1>4. PICK o : o = [type |-> "mutex", owner |-> NoThread, depth |-> 0, abandoned |-> FALSE]
  OBVIOUS
<1>5. Create(o, TRUE) /\ o.type = "mutex" /\ ~o.abandoned
  BY <1>4
<1>6. Serves
  BY <1>5, CreateServes
<1> QED  BY <1>3, <1>6 DEF Regular

LEMMA AcquiredRegular ==
    ASSUME IInv, NEW t \in live, NEW h \in DOMAIN handles, TryAcquireMutex(t, h)
    PROVE  Regular
<1>1. PICK s : s = handles[h] /\ objects[s].type = "mutex" /\ s \in Slots
  BY HandleNames DEF TryAcquireMutex
<1>2. /\ objects' = [objects EXCEPT ![s] = Consume(objects[s], t)]
      /\ UNCHANGED <<waits, live>>
  BY <1>1 DEF TryAcquireMutex
<1>3. objects[s] \in MutexKind
  BY <1>1, PlanFacts, Kinds
<1>4. Consume(objects[s], t).type = "mutex" /\ Consume(objects[s], t).owner = t
  BY <1>1, <1>3 DEF Consume, MutexKind
<1>5. \A r \in Slots : objects'[r].type = "semaphore" => objects'[r] = objects[r]
  BY <1>2, <1>4, PlanFacts
<1>6. \A r \in Slots : Unmarked(r)
  <2>1. t # NoThread
    BY NoThreadAssumption DEF IInv, WaitInv, WaitsTyped
  <2> QED  BY <1>2, <1>4, <2>1, PlanFacts DEF Unmarked
<1>7. Serves
  BY <1>2, <1>5, <1>6, WaitsFailed
<1> QED  BY <1>7, TryAcquireKeeps DEF Regular

LEMMA ClosedRegular ==
    ASSUME IInv, NEW h \in DOMAIN handles, Close(h)
    PROVE  Regular
<1>1. /\ waits' = FailWaits(h) /\ live' = live
      /\ objects' = objects \/ objects' = [objects EXCEPT ![handles[h]] = Free]
  BY DEF Close
<1>2. \A r \in Slots : objects'[r] = objects[r] \/ objects'[r] = Free
  BY <1>1, HandleNames, PlanFacts
<1>3. \A r \in Slots : objects'[r].type = "semaphore" => objects'[r] = objects[r]
  BY <1>2 DEF Free
<1>4. \A w \in DOMAIN waits' : waits'[w].result \in {waits[w].result, WaitFailed, IoCompletion}
  BY <1>1, FailResults
<1>5. \A r \in Slots : Unmarked(r)
  BY <1>2 DEF Unmarked, Free
<1>6. Serves
  BY <1>1, <1>3, <1>4, <1>5, WaitsFailed
<1>7. NoRetime => Steady
  BY CloseKeeps DEF HandlesStay
<1> QED  BY <1>6, <1>7 DEF Regular

LEMMA SectionCallRegular ==
    ASSUME IInv, SecInv, NEW t \in Threads, NEW a \in Addresses, SectionCall(t, a)
    PROVE  Regular
<1>1. Running(t) /\ t \in live
  BY DEF SectionCall, InitializeCriticalSection, Enter, EnterContended, Leave,
         DeleteCriticalSection, Remap, Running
<1>2. CASE InitializeCriticalSection(t, a)
  BY <1>1, <1>2, CreatedRegular DEF InitializeCriticalSection
<1>3. CASE Remap(t, a)
  BY <1>3, StutterKeeps, ObjectsAlone DEF Remap, Regular, vars, context
<1>4. ASSUME Usable(a) PROVE a \in DOMAIN sections /\ sections[a] \in DOMAIN handles
  BY <1>4, SectionParts DEF Usable
<1>5. CASE Enter(t, a)
  BY <1>1, <1>4, <1>5, AcquiredRegular DEF Enter
<1>6. CASE EnterContended(t, a)
  <2>1. a \in DOMAIN sections
    BY <1>4, <1>6 DEF EnterContended
  <2>2. PICK w : w = EntryWait(t, a)
    OBVIOUS
  <2>3. w \in WaitRecord /\ Fits(w) /\ Fresh(w, Never) /\ w.thread = t
    BY <2>1, <2>2, SectionWait DEF IsEntryWait
  <2>4. WaitOn(Plan, w, Never)
    BY <1>6, <2>2 DEF EnterContended, EntryWait
  <2>5. Steady
    BY ONLY IInv, t \in Threads, <1>1, <2>3, <2>4, PlanWaitKeeps
  <2>6. Serves
    BY ONLY IInv, <1>1, <2>3, <2>4, PlanWaitServes
  <2> QED  BY <2>5, <2>6 DEF Regular
<1>7. CASE Leave(t, a)
  BY <1>4, <1>7, ReleaseKeeps, ReleaseServes DEF Leave, Regular
<1>8. CASE DeleteCriticalSection(t, a)
  BY <1>4, <1>8, ClosedRegular DEF DeleteCriticalSection
<1> QED  BY <1>2, <1>3, <1>5, <1>6, <1>7, <1>8 DEF SectionCall

(* The calls of the dispatcher, and the ends of threads and calls.          *)
LEMMA OtherCallRegular ==
    ASSUME IInv, NEW t \in Threads, OtherCall(t)
    PROVE  Regular
<1>1. UsedHandles \in SUBSET DOMAIN handles
  BY DEF UsedHandles
<1>2. CASE CreateMutex(t) \/ \E target \in Threads : OpenThread(t, target)
  BY <1>1, <1>2, GuestKeeps, GuestServes DEF Guest, Regular
<1>3. CASE \E h \in UsedHandles : \/ DuplicateHandle(t, h) \/ CloseHandle(t, h)
                                  \/ ReleaseMutex(t, h)
  BY <1>1, <1>3, GuestKeeps, GuestServes DEF Guest, Regular
<1>4. CASE WaitForObjects(t, UsedHandles)
  BY <1>1, <1>4, WaitForObjectsKeeps, WaitsServe DEF Regular
<1>5. CASE FinishReply(t)
  BY <1>5, HostKeeps, EndsServe DEF Regular
<1> QED  BY <1>2, <1>3, <1>4, <1>5 DEF OtherCall

LEMMA NextRegular ==
    ASSUME IInv, SecInv, [NextSections]_allVars
    PROVE  Regular
<1>1. CASE UNCHANGED allVars
  BY <1>1, StutterKeeps, ObjectsAlone DEF Regular, allVars, vars, context
<1>2. ASSUME NEW t \in Threads, NEW a \in Addresses, SectionCall(t, a) PROVE Regular
  BY <1>2, SectionCallRegular
<1>3. ASSUME NEW t \in Threads, FinishEnter(t) \/ Withdraw(t) PROVE Regular
  BY <1>3, HostKeeps, EndsServe DEF FinishEnter, Withdraw, Regular
<1>4. ASSUME NEW t \in Threads, NEW u \in Threads, Terminate(t, u) PROVE Regular
  BY <1>4, TerminateThreadKeeps, TerminateServes DEF Terminate, Regular
<1>5. ASSUME NEW t \in Threads, OtherCall(t) PROVE Regular
  BY <1>5, OtherCallRegular
<1> QED  BY <1>1, <1>2, <1>3, <1>4, <1>5 DEF NextSections

(* Mutexes are coherent, handles are counted and exits leave nothing behind *)
(* also when the mutexes and waits of critical sections are among them.     *)
THEOREM SectionsKeepDispatcher ==
    SpecSections => [](MutexCoherent /\ HandlesExact /\ ExitsAreClean)
<1>1. IInv => MutexCoherent /\ HandlesExact /\ ExitsAreClean
  BY CoherentMutexes, ExactHandles, CleanExits
<1> QED  BY <1>1, SectionsSound, PTL

(* No thread sleeps in EnterCriticalSection or in a wait that its objects   *)
(* satisfy, whoever leaves, deletes, is terminated or withdrawn.  (There    *)
(* are no calls on timers in SpecSections; NoRetime says that their names   *)
(* are not in Calls either, which the lemmas about the dispatcher ask for.) *)
THEOREM SectionsLoseNoWakeups ==
    ASSUME NoRetime PROVE SpecSections => []NoLostWakeup
<1>1. InitSections => NInv
  BY DEF InitSections, Init, NInv, HandlesHeld, AllSettled, SettledPlan
<1>2. IInv /\ SecInv /\ NInv /\ [NextSections]_allVars => NInv'
  BY NextRegular DEF Regular, Steady
<1>3. SpecSections => []NInv
  BY <1>1, <1>2, SectionsSound, PTL DEF SpecSections
<1>4. IInv /\ NInv => NoLostWakeup
  BY SettledIsAwake
<1> QED  BY <1>3, <1>4, SectionsSound, PTL

(* Who gets a mutex, of a section or another, whose owner ended inside is   *)
(* told, in that step or long after it, whichever call or exit hands it on; *)
(* nobody is told without reason.                                           *)
THEOREM SectionsTellAbandonment == SpecSections => AbandonmentIsReported
<1>1. IInv /\ IInv' /\ SecInv /\ [NextSections]_allVars => [Reports]_vars
  BY NextRegular, ServedReports DEF Regular
<1>2. SpecSections => [][Reports]_vars
  BY <1>1, SectionsSound, PTL DEF SpecSections
<1> QED  BY <1>2 DEF AbandonmentIsReported, Reports

=============================================================================
