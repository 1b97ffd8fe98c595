------------------------- MODULE MCCriticalSections -------------------------
(* Small instances of CriticalSections for TLC.                            *)
EXTENDS CriticalSections, TLC

Symmetry == Permutations(Threads) \cup Permutations(Addresses)

SectionCalls == {"CreateMutex", "OpenThread", "DuplicateHandle", "CloseHandle",
                 "ReleaseMutex", "WaitAny", "WaitAll", "TerminateThread",
                 "CancelWait", "Remap"}

Infinite == {Never}
None     == {}

(* A queue without a thread is what the library's selection makes of it.   *)
Queues == {q \in UNION {[1 .. n -> Threads] : n \in 0 .. Cardinality(Threads)} :
             \A i, j \in DOMAIN q : q[i] = q[j] => i = j}

ASSUME OthersAreTheRest ==
    \A q \in Queues, t \in Threads : Lock!Others(t, q) = SelectSeq(q, LAMBDA u : u # t)
=============================================================================
