---------------------------- MODULE SectionLock -----------------------------
(***************************************************************************)
(* What critical sections promise, without handles, waits and copies: a    *)
(* recursive lock per address that is handed to the thread that has waited *)
(* longest, also when its owner is terminated inside.                      *)
(***************************************************************************)
EXTENDS Naturals, Sequences

CONSTANTS Threads, NoThread, Addresses

VARIABLES
    owner,            \* address -> the thread inside, or NoThread
    depth,            \* address -> how often it has entered
    queue             \* address -> the threads that wait, oldest first

lock == <<owner, depth, queue>>

Init ==
    /\ owner = [a \in Addresses |-> NoThread]
    /\ depth = [a \in Addresses |-> 0]
    /\ queue = [a \in Addresses |-> <<>>]

(* A thread in a queue is blocked: it neither enters, leaves nor waits. *)
Blocked(t) == \E a \in Addresses : \E i \in DOMAIN queue[a] : queue[a][i] = t

Enter(t, a) ==
    /\ ~Blocked(t)
    /\ owner[a] \in {NoThread, t}
    /\ owner' = [owner EXCEPT ![a] = t]
    /\ depth' = [depth EXCEPT ![a] = @ + 1]
    /\ UNCHANGED queue

Await(t, a) ==
    /\ ~Blocked(t)
    /\ owner[a] \notin {NoThread, t}
    /\ queue' = [queue EXCEPT ![a] = Append(@, t)]
    /\ UNCHANGED <<owner, depth>>

Leave(t, a) ==
    LET last == depth[a] = 1
        next == IF queue[a] = <<>> THEN NoThread ELSE Head(queue[a])
    IN  /\ ~Blocked(t)
        /\ owner[a] = t
        /\ owner' = [owner EXCEPT ![a] = IF last THEN next ELSE t]
        /\ depth' = [depth EXCEPT ![a] = IF last /\ next # NoThread THEN 1 ELSE @ - 1]
        /\ queue' = [queue EXCEPT ![a] = IF last /\ next # NoThread THEN Tail(@) ELSE @]

(* The queue q without thread t, which is in it once at most. *)
Others(t, q) ==
    LET at == {i \in DOMAIN q : q[i] = t}
        k  == CHOOSE i \in at : TRUE
    IN  IF at = {} THEN q
        ELSE [i \in 1 .. Len(q) - 1 |-> q[IF i < k THEN i ELSE i + 1]]

(* The thread stops waiting. *)
Withdraw(t, a) ==
    /\ queue' = [queue EXCEPT ![a] = Others(t, @)]
    /\ UNCHANGED <<owner, depth>>

(* The thread is gone from all sections at once. *)
Exit(t) ==
    LET rest == [a \in Addresses |-> Others(t, queue[a])]
        Passed(a) == owner[a] = t /\ rest[a] # <<>>
    IN  /\ owner' = [a \in Addresses |->
                       IF owner[a] # t THEN owner[a]
                       ELSE IF Passed(a) THEN Head(rest[a]) ELSE NoThread]
        /\ depth' = [a \in Addresses |->
                       IF owner[a] # t THEN depth[a]
                       ELSE IF Passed(a) THEN 1 ELSE 0]
        /\ queue' = [a \in Addresses |->
                       IF Passed(a) THEN Tail(rest[a]) ELSE rest[a]]

Next ==
    \E t \in Threads :
        \/ Exit(t)
        \/ \E a \in Addresses : \/ Enter(t, a) \/ Await(t, a)
                                \/ Leave(t, a) \/ Withdraw(t, a)

Spec == Init /\ [][Next]_lock

=============================================================================
