---------------------------- MODULE SentMessages ----------------------------
(***************************************************************************)
(* Messages sent between threads: user32 SendMessage to a window of        *)
(* another thread, GetMessage, PeekMessage and the message waits, over the *)
(* part of the scheduler that resumes and enters threads for them          *)
(* (process/windows/user32, process/windows/threads).                      *)
(*                                                                         *)
(* A thread is a stack of frames, the innermost last:                      *)
(*   call      the window procedure of its own window; "held" tells        *)
(*             whether user32 still has the continuation of the call       *)
(*   send      a RemoteCall: waits for the answer of another thread        *)
(*   retrieve  a GetMessage or PeekMessage put off for a queued send       *)
(*   wait      a GetMessage that waits for a posted message                *)
(*   msgwait   MsgWaitForMultipleObjects on QS_SENDMESSAGE alone           *)
(*   proc      a window procedure run for a send of another thread         *)
(* A send is named by its sender and its place in the sender's stack,      *)
(* which stands for the continuation token.  Every thread owns a window.   *)
(***************************************************************************)
EXTENDS Naturals, FiniteSets, Sequences, SequencesExt

CONSTANTS
    N,                  \* threads 1..N, in the order of the thread list
    ContinuationLimit,  \* continuations user32 keeps for one context
    InvocationLimit,    \* limits.apcs: queued invocations of the process
    DepthLimit,         \* active invocations of one thread (32 in the code)
    PostLimit,          \* posted messages one thread may have (queue limit)
    Calls               \* the calls the program of each thread makes

ASSUME ConstantsAssumption ==
    /\ N \in Nat \ {0} /\ ContinuationLimit \in Nat /\ InvocationLimit \in Nat
    /\ DepthLimit \in Nat /\ PostLimit \in Nat
    /\ Calls \in [1..N -> SUBSET {"send", "local", "fail", "get", "peek", "post",
                                  "status", "msgwait", "exit", "terminate"}]

Thread == 1..N

VARIABLES
    state,        \* Runnable, Running, Waiting or Terminated
    stack,        \* frames of each thread
    current,      \* the thread whose context is loaded
    phase,        \* where the pass of schedule_windows_thread stands
    user,         \* runtime_input.thread_id: last thread to call user32
    invocations,  \* queued sends of each target, oldest first
    dispatch,     \* message_dispatch of each thread
    muted,        \* history: a failing call took dispatch from an outer wait
    sent,         \* user32's count of queued sends, and whether seen
    row,          \* the dispatcher's copy of the queue status
    posted        \* posted messages of each thread

vars == <<state, stack, current, phase, user, invocations, dispatch, muted,
          sent, row, posted>>

NoThread == 0
Live(t) == state[t] # "Terminated"
Frame(t) == IF stack[t] = <<>> THEN "none" ELSE Last(stack[t]).kind
UserWaits == {"send", "retrieve", "wait"}
Waits == UserWaits \cup {"msgwait"}

\* guest code of t can execute its next instruction
Executing(t) ==
    phase = "idle" /\ current = t /\ state[t] = "Running" /\ Frame(t) \notin Waits
CallsTo(t, call) == Executing(t) /\ call \in Calls[t]

Procs(t) == {i \in DOMAIN stack[t] : stack[t][i].kind = "proc"}

\* continuations of the innermost context of t: entering an invocation parks
\* the earlier ones with the context
Kept(t) ==
    {i \in DOMAIN stack[t] :
        /\ \A p \in Procs(t) : p < i
        /\ \/ stack[t][i].kind \in UserWaits
           \/ stack[t][i].kind = "call" /\ stack[t][i].held}
HasSlot(t) == Cardinality(Kept(t)) < ContinuationLimit

\* the code keeps one list for all targets: its order between two targets is
\* never read, its length is limited
Queued == UNION {{t} \X DOMAIN invocations[t] : t \in Thread}
HasRoom == Cardinality(Queued) < InvocationLimit
HasSends(t) == invocations[t] # <<>>

Push(t, frame) == [stack EXCEPT ![t] = Append(@, frame)]
Pop(t) == [stack EXCEPT ![t] = Front(@)]

NothingSent == [count |-> 0, fresh |-> FALSE]
Status(s) == [current |-> s.count > 0, fresh |-> s.fresh]
\* the calls that observe the queue of t refresh the dispatcher's row with it
Observe(t) ==
    /\ sent' = [sent EXCEPT ![t].fresh = FALSE]
    /\ row' = [row EXCEPT ![t] = Status(sent'[t])]

\* Mutant: the dispatcher keeps its copy of the status.
ChangeSentUnseen(t, s) == sent' = [sent EXCEPT ![t] = s] /\ UNCHANGED row

\* every change of the sends reaches the row as well
ChangeSent(t, s) ==
    /\ sent' = [sent EXCEPT ![t] = s]
    /\ row' = [row EXCEPT ![t] = Status(s)]

\* the end of a call of the message phase: only a success lets sends in
EndMessageCall(t, ok) ==
    /\ dispatch' = [dispatch EXCEPT ![t] = ok]
    /\ muted' = IF ok THEN muted \ {t}
                ELSE IF \E i \in DOMAIN stack[t] : stack[t][i].kind \in UserWaits
                     THEN muted \cup {t} ELSE muted

Init ==
    /\ state = [t \in Thread |-> IF t = 1 THEN "Running" ELSE "Runnable"]
    /\ stack = [t \in Thread |-> <<>>]
    /\ current = 1
    /\ phase = "idle"
    /\ user = NoThread
    /\ invocations = [t \in Thread |-> <<>>]
    /\ dispatch = [t \in Thread |-> FALSE]
    /\ muted = {}
    /\ sent = [t \in Thread |-> NothingSent]
    /\ row = [t \in Thread |-> Status(NothingSent)]
    /\ posted = [t \in Thread |-> 0]

-----------------------------------------------------------------------------
(* Calls of the guest                                                      *)

\* SendMessage to a window of w: the sender waits, the invocation is queued,
\* a message wait of w is decided
SendRemote(t, w) ==
    /\ CallsTo(t, "send") /\ w # t /\ Live(w)
    /\ HasSlot(t) /\ HasRoom
    /\ LET frame == [kind |-> "send", ready |-> FALSE]
           woken == IF Frame(w) = "msgwait"
                    THEN [stack[w] EXCEPT ![Len(stack[w])].woken = TRUE]
                    ELSE stack[w]
       IN  stack' = [stack EXCEPT ![t] = Append(@, frame), ![w] = woken]
    /\ invocations' = [invocations EXCEPT ![w] =
           Append(@, [sender |-> t, place |-> Len(stack[t]) + 1])]
    /\ ChangeSent(w, [count |-> sent[w].count + 1, fresh |-> TRUE])
    /\ EndMessageCall(t, TRUE)
    /\ user' = t
    /\ UNCHANGED <<state, current, phase, posted>>

\* SendMessage to an own window: the procedure is called back
SendLocal(t) ==
    /\ CallsTo(t, "local") /\ HasSlot(t)
    /\ stack' = Push(t, [kind |-> "call", held |-> TRUE])
    /\ EndMessageCall(t, TRUE)
    /\ user' = t
    /\ UNCHANGED <<state, current, phase, invocations, sent, row, posted>>

\* a message call that fails: a window that is gone, no room for the
\* continuation, or no room in the queue (found before user32 is entered)
FailMessageCall(t) ==
    /\ CallsTo(t, "fail")
    /\ \/ user' = t
       \/ /\ HasSlot(t) /\ ~HasRoom
          /\ \E w \in Thread \ {t} : Live(w)
          /\ UNCHANGED user
    /\ EndMessageCall(t, FALSE)
    /\ UNCHANGED <<state, stack, current, phase, invocations, sent, row, posted>>

\* Mutant: a message is taken from an empty queue.
RetrievedAnyway(t, base, blocking) ==
    /\ Observe(t)
    /\ posted' = [posted EXCEPT ![t] = @ - 1]
    /\ stack' = [stack EXCEPT ![t] = base]

\* retrieve_message over the stack "base": the oldest posted message, or a
\* wait if the call blocks and there is room for one
Retrieved(t, base, blocking) ==
    /\ Observe(t)
    /\ IF posted[t] > 0
       THEN /\ posted' = [posted EXCEPT ![t] = @ - 1]
            /\ stack' = [stack EXCEPT ![t] = base]
       ELSE /\ UNCHANGED posted
            /\ stack' = [stack EXCEPT ![t] =
                   IF blocking THEN Append(base, [kind |-> "wait"]) ELSE base]

\* GetMessage (blocking) and PeekMessage: put off while a send is queued
GetMessage(t, blocking) ==
    /\ CallsTo(t, IF blocking THEN "get" ELSE "peek")
    /\ IF HasSends(t)
       THEN /\ stack' = IF HasSlot(t)
                        THEN Push(t, [kind |-> "retrieve", blocking |-> blocking])
                        ELSE stack
            /\ EndMessageCall(t, HasSlot(t))
            /\ UNCHANGED <<user, sent, row, posted>>
       ELSE /\ Retrieved(t, stack[t], blocking /\ HasSlot(t))
            /\ EndMessageCall(t, posted[t] > 0 \/ (blocking => HasSlot(t)))
            /\ user' = t
    /\ UNCHANGED <<state, current, phase, invocations>>

\* PostMessage to a window of w; a full queue refuses it
PostMessage(t, w) ==
    /\ CallsTo(t, "post") /\ Live(w)
    /\ posted' = [posted EXCEPT ![w] = IF @ < PostLimit THEN @ + 1 ELSE @]
    /\ user' = t
    /\ UNCHANGED <<state, stack, current, phase, invocations, dispatch, muted,
                   sent, row>>

\* GetQueueStatus observes the sends without taking one
GetQueueStatus(t) ==
    /\ CallsTo(t, "status")
    /\ Observe(t)
    /\ user' = t
    /\ UNCHANGED <<state, stack, current, phase, invocations, dispatch, muted,
                   posted>>

\* MsgWaitForMultipleObjects: returns at once for a send not seen before
MsgWait(t) ==
    /\ CallsTo(t, "msgwait")
    /\ stack' = IF sent[t].fresh THEN stack
                ELSE Push(t, [kind |-> "msgwait", woken |-> FALSE])
    /\ Observe(t)
    /\ UNCHANGED <<state, current, phase, user, invocations, dispatch, muted,
                   posted>>

\* a procedure of an own window returns: user32 must know its continuation
ReturnFromCall(t) ==
    /\ Executing(t) /\ Frame(t) = "call" /\ Last(stack[t]).held
    /\ stack' = Pop(t)
    /\ UNCHANGED <<state, current, phase, user, invocations, dispatch, muted,
                   sent, row, posted>>

\* finish_thread_invocation: the sender, if it lives, gets the answer
ReturnFromProc(t) ==
    /\ Executing(t) /\ Frame(t) = "proc"
    /\ LET s == Last(stack[t]).sender
           p == Last(stack[t]).place
       IN  IF Live(s)
           THEN /\ p \in DOMAIN stack[s] /\ stack[s][p].kind = "send"
                /\ ~stack[s][p].ready
                /\ stack' = [stack EXCEPT ![t] = Front(@), ![s][p].ready = TRUE]
                /\ state' = [state EXCEPT ![t] = "Waiting", ![s] = "Runnable"]
           ELSE stack' = Pop(t) /\ state' = [state EXCEPT ![t] = "Waiting"]
    /\ UNCHANGED <<current, phase, user, invocations, dispatch, muted, sent,
                   row, posted>>

\* Mutant: the sends that were still queued are forgotten.
OwedByActive(v) ==
    {f \in {[sender |-> stack[v][i].sender, place |-> stack[v][i].place] :
                i \in Procs(v)} : f.sender # v /\ Live(f.sender)}

\* the sends of live threads that v would have answered
OwedBy(v) ==
    {f \in {[sender |-> stack[v][i].sender, place |-> stack[v][i].place] :
                i \in Procs(v)}
           \cup {invocations[v][i] : i \in DOMAIN invocations[v]} :
        f.sender # v /\ Live(f.sender)}

\* TerminateThread(v) by t, ExitThread when v = t: the sends v owes are
\* answered with 0; the continuations of the current context are dropped if
\* v is the thread that called user32 last
Terminate(t, v) ==
    /\ CallsTo(t, IF v = t THEN "exit" ELSE "terminate") /\ Live(v)
    /\ LET Answered(s) == {f.place : f \in {g \in OwedBy(v) : g.sender = s}}
           Dropped(s, i) == user = v /\ s = t /\ i \in Kept(s)
           After(s, i) ==
               LET f == stack[s][i]
               IN  IF i \in Answered(s) THEN [f EXCEPT !.ready = TRUE]
                   ELSE IF Dropped(s, i) THEN [f EXCEPT !.held = FALSE] ELSE f
       IN  /\ \A f \in OwedBy(v) : ~stack[f.sender][f.place].ready
           /\ stack' = [s \in Thread |->
                  IF s = v THEN <<>> ELSE [i \in DOMAIN stack[s] |-> After(s, i)]]
           /\ state' = [s \in Thread |->
                  IF s = v THEN "Terminated"
                  ELSE IF Answered(s) # {} THEN "Runnable" ELSE state[s]]
    /\ invocations' = [invocations EXCEPT ![v] = <<>>]
    /\ ChangeSent(v, NothingSent)
    /\ posted' = [posted EXCEPT ![v] = 0]
    /\ muted' = muted \ {v}
    /\ UNCHANGED <<current, phase, user, dispatch>>

-----------------------------------------------------------------------------
(* The pass of schedule_windows_thread                                     *)

\* the wait of t has what it waits for
Ready(t) ==
    CASE Frame(t) = "send"     -> Last(stack[t]).ready
      [] Frame(t) = "retrieve" -> TRUE
      [] Frame(t) = "wait"     -> posted[t] > 0
      [] Frame(t) = "msgwait"  -> Last(stack[t]).woken
      [] OTHER                 -> FALSE

\* the wait on top of t ends; a retrieval that finds nothing waits on
EndWait(t) ==
    LET f == Last(stack[t])
        base == Front(stack[t])
    IN  CASE f.kind = "msgwait" ->
               /\ stack' = Pop(t) /\ Observe(t) /\ UNCHANGED <<user, posted>>
          [] f.kind = "send" ->
               stack' = Pop(t) /\ UNCHANGED <<user, sent, row, posted>>
          [] f.kind = "retrieve" ->
               Retrieved(t, base, f.blocking) /\ user' = t
          [] f.kind = "wait" ->
               Retrieved(t, base, TRUE) /\ UNCHANGED user

\* Mutant: a wait resumes although a send came in meanwhile.
ResumeReadyAnyway(t) ==
    IF Ready(t) THEN EndWait(t) ELSE UNCHANGED <<stack, user, sent, row, posted>>

\* a user32 wait is not resumed while a send is queued for its thread
ResumeReady(t) ==
    IF Ready(t) /\ (Frame(t) = "msgwait" \/ ~HasSends(t))
    THEN EndWait(t)
    ELSE UNCHANGED <<stack, user, sent, row, posted>>

\* the host retries the user32 wait of the current thread between passes: a
\* retrieval with a queued send is told to dispatch it first, an answered
\* send returns
RetryWait ==
    LET t == current
    IN  /\ phase = "idle" /\ Live(t) /\ Frame(t) \in UserWaits
        /\ IF Frame(t) # "send" /\ HasSends(t)
           THEN /\ EndMessageCall(t, TRUE)
                /\ UNCHANGED <<stack, user, sent, row, posted>>
           ELSE /\ Ready(t) /\ EndWait(t)
                /\ UNCHANGED <<dispatch, muted>>
        /\ UNCHANGED <<state, current, phase, invocations>>

\* the pass first resumes the current thread, then wakes the parked ones
BeginPass ==
    /\ phase = "idle"
    /\ phase' = "select"
    /\ ResumeReady(current)
    /\ LET blocked == stack'[current] # <<>> /\ Last(stack'[current]).kind \in Waits
       IN state' = [t \in Thread |->
              IF state[t] = "Terminated" THEN "Terminated"
              ELSE IF t = current
                   THEN IF ~blocked THEN "Running"
                        ELSE IF state[t] = "Running" THEN "Waiting" ELSE state[t]
              ELSE IF state[t] = "Waiting" /\ Ready(t) THEN "Runnable" ELSE state[t]]
    /\ UNCHANGED <<current, invocations, dispatch, muted>>

\* Mutant: a thread that waits for an answer takes no send.
EnterableUnsent(t) ==
    dispatch[t] /\ Frame(t) \in {"retrieve", "wait"} /\ HasSends(t)

\* a queued send may enter the wait of t
Enterable(t) == dispatch[t] /\ Frame(t) \in UserWaits /\ HasSends(t)
Eligible(t) ==
    \/ state[t] \in {"Runnable", "Running"}
    \/ /\ state[t] = "Waiting"
       /\ (Enterable(t) \/ Ready(t))

\* the next eligible thread in list order, the current one last; a thread the
\* current one asked for keeps its turn (schedule_required)
Ahead(t, k) == ((t + k - 1) % N) + 1
NextThread(t) ==
    /\ Eligible(t)
    /\ \/ t = current
       \/ \E k \in 1..(N - 1) :
              /\ t = Ahead(current, k)
              /\ \A j \in 1..(k - 1) : ~Eligible(Ahead(current, j))

Select ==
    /\ phase = "select"
    /\ IF \E t \in Thread : Eligible(t)
       THEN \E t \in Thread :
              /\ NextThread(t)
              /\ current' = t
              /\ phase' = "enter"
              /\ state' = IF t # current /\ state[current] = "Running"
                          THEN [state EXCEPT ![current] = "Runnable"] ELSE state
       ELSE phase' = "idle" /\ UNCHANGED <<current, state>>
    /\ UNCHANGED <<stack, user, invocations, dispatch, muted, sent, row, posted>>

\* check_user32_remote_scratch and the limit of active invocations
Refused(t) ==
    \/ ~Live(Head(invocations[t]).sender)
    \/ Cardinality(Procs(t)) = DepthLimit

\* begin_pending_thread_invocation: the oldest send of the current thread
EnterProc ==
    LET t == current
        first == Head(invocations[t])
        left == sent[t].count - 1
    IN  /\ phase = "enter" /\ Enterable(t) /\ ~Refused(t)
        /\ stack' = Push(t, [kind |-> "proc", sender |-> first.sender,
                             place |-> first.place])
        /\ invocations' = [invocations EXCEPT ![t] = Tail(@)]
        /\ ChangeSent(t, [count |-> left, fresh |-> left > 0 /\ sent[t].fresh])
        /\ state' = [state EXCEPT ![t] = "Running"]
        /\ phase' = "idle"
        /\ UNCHANGED <<current, user, dispatch, muted, posted>>

\* the entry fails and the schedule call with it; the send stays queued
EntryFails ==
    /\ phase = "enter" /\ Enterable(current) /\ Refused(current)
    /\ phase' = "idle"
    /\ UNCHANGED <<state, stack, current, user, invocations, dispatch, muted,
                   sent, row, posted>>

\* without a send to enter, the chosen thread resumes or goes on waiting
EnterThread ==
    /\ phase = "enter" /\ ~Enterable(current)
    /\ phase' = "idle"
    /\ ResumeReady(current)
    /\ LET blocked == stack'[current] # <<>> /\ Last(stack'[current]).kind \in Waits
       IN state' = [state EXCEPT ![current] =
              IF blocked THEN "Waiting" ELSE "Running"]
    /\ UNCHANGED <<current, invocations, dispatch, muted>>

Next ==
    \/ \E t, w \in Thread : SendRemote(t, w)
    \/ \E t \in Thread : SendLocal(t)
    \/ \E t \in Thread : FailMessageCall(t)
    \/ \E t \in Thread, blocking \in BOOLEAN : GetMessage(t, blocking)
    \/ \E t, w \in Thread : PostMessage(t, w)
    \/ \E t \in Thread : GetQueueStatus(t)
    \/ \E t \in Thread : MsgWait(t)
    \/ \E t \in Thread : ReturnFromCall(t)
    \/ \E t \in Thread : ReturnFromProc(t)
    \/ \E t, v \in Thread : Terminate(t, v)
    \/ RetryWait \/ BeginPass \/ Select
    \/ EnterProc \/ EntryFails \/ EnterThread

Spec == Init /\ [][Next]_vars

-----------------------------------------------------------------------------
(* Properties                                                              *)

FrameType ==
    [kind : {"call"}, held : BOOLEAN]
    \cup [kind : {"send"}, ready : BOOLEAN]
    \cup [kind : {"retrieve"}, blocking : BOOLEAN]
    \cup [kind : {"wait"}]
    \cup [kind : {"msgwait"}, woken : BOOLEAN]
    \cup [kind : {"proc"}, sender : Thread, place : Nat \ {0}]

TypeOK ==
    /\ state \in [Thread -> {"Runnable", "Running", "Waiting", "Terminated"}]
    /\ stack \in [Thread -> Seq(FrameType)]
    /\ current \in Thread
    /\ phase \in {"idle", "select", "enter"}
    /\ user \in Thread \cup {NoThread}
    /\ invocations \in [Thread -> Seq([sender : Thread, place : Nat \ {0}])]
    /\ dispatch \in [Thread -> BOOLEAN]
    /\ muted \subseteq Thread
    /\ sent \in [Thread -> [count : Nat, fresh : BOOLEAN]]
    /\ row \in [Thread -> [current : BOOLEAN, fresh : BOOLEAN]]
    /\ posted \in [Thread -> Nat]

\* where the send at place p of s is queued, and where it is being answered
QueuedAt(s, p) ==
    {q \in Queued : invocations[q[1]][q[2]] = [sender |-> s, place |-> p]}
ActiveAt(s, p) ==
    {a \in UNION {{t} \X Procs(t) : t \in Thread} :
        stack[a[1]][a[2]].sender = s /\ stack[a[1]][a[2]].place = p}
\* set A has one element, set B none
OneAndNone(A, B) == (\E a \in A : A = {a}) /\ B = {}

\* A thread that waits in SendMessage is owed exactly one answer, by a queued
\* or an active invocation of a live thread, and none once it is answered:
\* no order of nested sends, exits and terminations loses the answer or
\* gives a send two.
SendsHaveOneAnswerer ==
    /\ \A t \in Thread : HasSends(t) => Live(t)
    /\ \A s \in Thread : \A p \in DOMAIN stack[s] :
           stack[s][p].kind = "send" =>
               IF stack[s][p].ready
               THEN QueuedAt(s, p) = {} /\ ActiveAt(s, p) = {}
               ELSE \/ OneAndNone(QueuedAt(s, p), ActiveAt(s, p))
                    \/ OneAndNone(ActiveAt(s, p), QueuedAt(s, p))

\* user32 counts the sends that are queued, and the dispatcher's copy of the
\* queue status agrees with user32, through sends, entries, exits and every
\* call that observes the queue.
SentQueueExact ==
    \A t \in Thread :
        /\ sent[t].count = Len(invocations[t])
        /\ sent[t].fresh => sent[t].count > 0
        /\ row[t] = Status(sent[t])

\* A thread never sleeps in a message wait while a send it has not seen is
\* queued for it.
NoSleepOverSend ==
    \A t \in Thread :
        Frame(t) = "msgwait" /\ ~Last(stack[t]).woken => ~row[t].fresh

\* The three places that know of a queued send (the invocations of the
\* threads, user32 and the dispatcher) agree, so that no message wait sleeps
\* over one (ensure_sent_message, change_sent, commit_signals).
QueueStatusExact == SentQueueExact /\ NoSleepOverSend

\* a send of a thread that still waits for its answer is queued for t
HasLiveSend(t) == \E i \in DOMAIN invocations[t] : Live(invocations[t][i].sender)
\* the next pass that chooses t enters the oldest send queued for it
CanEnter(t) == Enterable(t) /\ ~Refused(t)

\* Threads that send to each other in a circle stand still for three reasons
\* only.  When every live thread waits for an answer, a send of a live thread
\* is queued for one of them, and each send that heads a queue can be entered
\* by a pass unless
\*   - a call that failed inside a procedure closed the wait around it to
\*     sends (message_dispatch is one flag for all the waits of a thread),
\*   - the sender of the oldest queued send has ended
\*     (check_user32_remote_scratch refuses the entry), or
\*   - the thread runs as many procedures as it may (active_invocations).
CirclesStopForAReason ==
    LET live == {t \in Thread : Live(t)}
    IN  live # {} /\ (\A t \in live : Frame(t) = "send" /\ ~Ready(t)) =>
            /\ \E t \in live : HasLiveSend(t)
            /\ \A t \in live : HasSends(t) =>
                   \/ CanEnter(t)
                   \/ t \in muted
                   \/ ~Live(Head(invocations[t]).sender)
                   \/ Cardinality(Procs(t)) = DepthLimit

\* GetMessage and PeekMessage hand out no posted message while a send is
\* queued for the thread, also when the send arrives after the wait began and
\* before the host or the scheduler resumes it.
SentBeforePosted ==
    [][\A t \in Thread :
           posted'[t] < posted[t] /\ state'[t] # "Terminated" => ~HasSends(t)]_vars

=============================================================================
