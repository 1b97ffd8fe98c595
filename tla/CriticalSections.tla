-------------------------- MODULE CriticalSections --------------------------
(***************************************************************************)
(* Critical sections (process/windows/synchronization/critical.rs): each   *)
(* is a private mutex of the dispatcher and a CRITICAL_SECTION in guest    *)
(* memory, into which the engine copies the mutex's state.  The guest's    *)
(* other calls, on the handles that are not private, are Dispatcher's.     *)
(*                                                                         *)
(* A section occupies one address, so two of them overlap when they have   *)
(* the same address; the debug information on the guest heap is left out.  *)
(***************************************************************************)
EXTENDS Dispatcher

CONSTANTS
    Addresses,        \* where the guest puts critical sections
    NoAddress,        \* Reply32::critical is None
    MaxSections       \* capacity of the list of sections

ASSUME AddressesAssumption == NoAddress \notin Addresses /\ MaxSections \in Nat

VARIABLES
    sections,         \* address of a section -> its private handle
    copy,             \* address -> the words in guest memory
    stale,            \* sections whose pages are not the mapping they had
    entering,         \* thread -> the section its blocked Enter is for
    disturbed         \* history: sections whose mutex changed hands without
                      \* a call on the section, since the copy was written

own     == <<sections, copy, stale, entering, disturbed>>
allVars == <<vars, own>>

(* LockCount, RecursionCount and OwningThread; the rest never changes. *)
Words(owner, depth, waiters) ==
    [count |-> depth + waiters - 1, depth |-> depth, owner |-> owner]

InitSections ==
    /\ Init
    /\ sections = [a \in {} |-> 1]
    /\ copy = [a \in Addresses |-> Words(NoThread, 0, 0)]
    /\ stale = {}
    /\ entering = [t \in Threads |-> NoAddress]
    /\ disturbed = {}

(* check_critical *)
Usable(a) == a \in DOMAIN sections \ stale

Slot(a) == handles[sections[a]]

(* publish_critical_state, after the state has changed. *)
Publish(a) ==
    LET s == Slot(a)
        o == objects'[s]
        waiters == Cardinality({w \in DOMAIN waits' :
                      /\ waits'[w].result = Pending
                      /\ \E i \in DOMAIN waits'[w].slots : waits'[w].slots[i] = s})
    IN  /\ copy' = [copy EXCEPT ![a] = Words(o.owner, o.depth, waiters)]
        /\ disturbed' = disturbed \ {a}

-----------------------------------------------------------------------------
(* InitializeCriticalSection[AndSpinCount, Ex] *)
InitializeCriticalSection(t, a) ==
    /\ Running(t)
    /\ a \notin DOMAIN sections
    /\ Cardinality(DOMAIN sections) < MaxSections
    /\ Create([type |-> "mutex", owner |-> NoThread, depth |-> 0,
               abandoned |-> FALSE], TRUE)
    /\ sections' = [b \in DOMAIN sections \cup {a} |->
                      IF b = a THEN nextHandle' ELSE sections[b]]
    /\ copy' = [copy EXCEPT ![a] = Words(NoThread, 0, 0)]
    /\ disturbed' = disturbed \ {a}
    /\ UNCHANGED <<stale, entering>>

(* EnterCriticalSection, TryEnterCriticalSection: the section is free, or   *)
(* this thread is inside it already.                                       *)
Enter(t, a) ==
    /\ Running(t)
    /\ Usable(a)
    /\ TryAcquireMutex(t, sections[a])
    /\ Publish(a)
    /\ UNCHANGED <<sections, stale, entering>>

(* EnterCriticalSection while another thread is inside: an infinite wait   *)
(* for the private mutex.  (TryEnterCriticalSection returns 0.)            *)
EnterContended(t, a) ==
    /\ Running(t)
    /\ Usable(a)
    /\ objects[Slot(a)].owner \notin {NoThread, t}
    /\ WaitOn(Plan, NewWait(t, <<sections[a]>>, "any", Never, FALSE), Never)
    /\ Publish(a)
    /\ entering' = [entering EXCEPT ![t] = a]
    /\ UNCHANGED <<sections, stale>>

(* Mutant: the thread that is handed the section still counts as waiting. *)
LeaveUncounted(t, a) ==
    /\ Running(t)
    /\ Usable(a)
    /\ Release(t, sections[a])
    /\ LET o == objects'[Slot(a)] IN
         copy' = [copy EXCEPT ![a] =
                    Words(o.owner, o.depth, Cardinality(Waiters(Slot(a))))]
    /\ disturbed' = disturbed \ {a}
    /\ UNCHANGED <<sections, stale, entering>>

(* LeaveCriticalSection: the words are computed from the prepared release  *)
(* and the waiters before it, and written before it is committed.          *)
Leave(t, a) ==
    /\ Running(t)
    /\ Usable(a)
    /\ Release(t, sections[a])
    /\ LET o == objects'[Slot(a)]
           handed == IF o.owner \in {NoThread, t} THEN 0 ELSE 1
       IN  copy' = [copy EXCEPT ![a] =
                      Words(o.owner, o.depth,
                            Cardinality(Waiters(Slot(a))) - handed)]
    /\ disturbed' = disturbed \ {a}
    /\ UNCHANGED <<sections, stale, entering>>

(* Mutant: only the threads that still wait keep a section. *)
DeleteUnawaited(t, a) ==
    /\ Running(t)
    /\ Usable(a)
    /\ Waiters(Slot(a)) = {}
    /\ Close(sections[a])
    /\ sections' = [b \in DOMAIN sections \ {a} |-> sections[b]]
    /\ UNCHANGED <<copy, stale, entering, disturbed>>

DeleteCriticalSection(t, a) ==
    /\ Running(t)
    /\ Usable(a)
    /\ objects[Slot(a)].owner = NoThread
    /\ Waiters(Slot(a)) = {}
    /\ Close(sections[a])
    /\ sections' = [b \in DOMAIN sections \ {a} |-> sections[b]]
    /\ UNCHANGED <<copy, stale, entering, disturbed>>

(* The guest maps other pages over a section: it is in the list for good,  *)
(* and every call on it fails.                                             *)
Remap(t, a) ==
    /\ "Remap" \in Calls
    /\ Running(t)
    /\ a \in DOMAIN sections
    /\ stale' = stale \cup {a}
    /\ UNCHANGED <<vars, sections, copy, entering, disturbed>>

(* advance_synchronization_reply of a blocked EnterCriticalSection: the    *)
(* state is published once more, for which the mutex must be there.        *)
FinishEnter(t) ==
    LET a == entering[t] IN
    /\ a # NoAddress
    /\ Usable(a)
    /\ FinishReply(t)
    /\ Publish(a)
    /\ entering' = [entering EXCEPT ![t] = NoAddress]
    /\ UNCHANGED <<sections, stale>>

(* The sections that thread t is inside of or waits for. *)
SectionsOf(t) == {a \in DOMAIN sections :
                    entering[t] = a \/ objects[Slot(a)].owner = t}

(* The host withdraws a blocked call: nothing is written to the section.   *)
Withdraw(t) ==
    /\ CancelWait(t)
    /\ disturbed' = disturbed \cup {a \in DOMAIN sections : entering[t] = a}
    /\ entering' = [entering EXCEPT ![t] = NoAddress]
    /\ UNCHANGED <<sections, copy, stale>>

(* The mutexes of the thread are passed on, and the copies left behind.    *)
Terminate(t, target) ==
    /\ TerminateThread(t, target)
    /\ disturbed' = disturbed \cup SectionsOf(target)
    /\ entering' = [entering EXCEPT ![target] = NoAddress]
    /\ UNCHANGED <<sections, copy, stale>>

(* The guest's other calls.  It does not use the private handles, which it *)
(* could read from LockSemaphore.                                          *)
UsedHandles == DOMAIN handles \ {sections[a] : a \in DOMAIN sections}

OtherCall(t) ==
    /\ \/ CreateMutex(t)
       \/ \E target \in Threads : OpenThread(t, target)
       \/ \E h \in UsedHandles : \/ DuplicateHandle(t, h)
                                 \/ CloseHandle(t, h)
                                 \/ ReleaseMutex(t, h)
       \/ WaitForObjects(t, UsedHandles)
       \/ entering[t] = NoAddress /\ FinishReply(t)
    /\ UNCHANGED own

SectionCall(t, a) ==
    \/ InitializeCriticalSection(t, a)
    \/ Enter(t, a) \/ EnterContended(t, a) \/ Leave(t, a)
    \/ DeleteCriticalSection(t, a)
    \/ Remap(t, a)

NextSections ==
    \E t \in Threads :
        \/ \E a \in Addresses : SectionCall(t, a)
        \/ FinishEnter(t)
        \/ Withdraw(t)
        \/ \E target \in Threads : Terminate(t, target)
        \/ OtherCall(t)

SpecSections == InitSections /\ [][NextSections]_allVars

-----------------------------------------------------------------------------
(* Properties. *)

(* The copy that a guest reads from a section says who is inside it, how   *)
(* often it entered, and how many threads are inside or wait, after any    *)
(* order of contended enters and leaves (LeaveCriticalSection computes it  *)
(* before the state it is of), unless a thread was terminated or withdrawn *)
(* since.                                                                  *)
CopiesAreExact ==
    \A a \in DOMAIN sections \ (disturbed \cup stale) :
        LET o == objects[Slot(a)] IN
        copy[a] = Words(o.owner, o.depth, Cardinality(Waiters(Slot(a))))

(* A thread blocked in EnterCriticalSection, or already given the section  *)
(* but not yet resumed, finds the section when it goes on: nobody deletes  *)
(* or replaces it meanwhile (publish_critical_state unwraps the search).   *)
EnteredSectionsExist ==
    \A t \in Threads : entering[t] # NoAddress =>
        /\ entering[t] \in DOMAIN sections
        /\ reply[t].wait # 0
        /\ waits[reply[t].wait].handles = <<sections[entering[t]]>>

(* The copy of a section can be written by whoever goes on inside it, and   *)
(* what is written there is the state of its mutex.                         *)
SectionsAreExact == CopiesAreExact /\ EnteredSectionsExist

(* Critical sections are recursive locks that are passed on in the order   *)
(* of arrival, also by threads that are terminated inside, and a section   *)
(* is deleted only when it is free.                                        *)
Holder(a) == IF a \in DOMAIN sections THEN objects[Slot(a)].owner ELSE NoThread
Depth(a)  == IF a \in DOMAIN sections THEN objects[Slot(a)].depth ELSE 0
Queue(a)  ==
    LET W == IF a \in DOMAIN sections THEN Waiters(Slot(a)) ELSE {}
        Nth(i) == CHOOSE w \in W : Cardinality({v \in W : v <= w}) = i
    IN  [i \in 1 .. Cardinality(W) |-> waits[Nth(i)].thread]

Lock == INSTANCE SectionLock WITH
          owner <- [a \in Addresses |-> Holder(a)],
          depth <- [a \in Addresses |-> Depth(a)],
          queue <- [a \in Addresses |-> Queue(a)]

SectionsAreLocks == Lock!Spec

=============================================================================
