-------------------------- MODULE SentMessagesProofs --------------------------
(***************************************************************************)
(* Sent messages, for any number of threads, any limits and any calls of   *)
(* the guest: the answers they are owed, the queue status, circles of      *)
(* sends, and that they go before posted messages.                         *)
(***************************************************************************)
EXTENDS SentMessages, SequenceTheorems, WellFoundedInduction, TLAPS

(* The record of a frame of each kind.                                      *)
LEMMA FrameFields ==
    ASSUME NEW f \in FrameType
    PROVE  /\ f.kind \in {"call", "send", "retrieve", "wait", "msgwait", "proc"}
           /\ f.kind = "call" => f.held \in BOOLEAN
           /\ f.kind = "send" => f.ready \in BOOLEAN
           /\ f.kind = "retrieve" => f.blocking \in BOOLEAN
           /\ f.kind = "msgwait" => f.woken \in BOOLEAN
           /\ f.kind = "proc" => f.sender \in Thread /\ f.place \in Nat \ {0}
  BY DEF FrameType

(* The frames that calls push have the type of a frame.                    *)
LEMMA NewFrames ==
    /\ \A b \in BOOLEAN : /\ [kind |-> "call", held |-> b] \in FrameType
                          /\ [kind |-> "send", ready |-> b] \in FrameType
                          /\ [kind |-> "retrieve", blocking |-> b] \in FrameType
                          /\ [kind |-> "msgwait", woken |-> b] \in FrameType
    /\ [kind |-> "wait"] \in FrameType
    /\ \A s \in Thread, p \in Nat \ {0} :
           [kind |-> "proc", sender |-> s, place |-> p] \in FrameType
  BY DEF FrameType

(* A send that is answered, or a message wait that is woken, stays a frame *)
(* of its kind.                                                            *)
LEMMA MarkedFrames ==
    ASSUME NEW f \in FrameType
    PROVE  /\ f.kind = "send" =>
                  /\ [f EXCEPT !.ready = TRUE] \in FrameType
                  /\ [f EXCEPT !.ready = TRUE].kind = "send"
                  /\ [f EXCEPT !.ready = TRUE].ready = TRUE
           /\ f.kind = "msgwait" =>
                  /\ [f EXCEPT !.woken = TRUE] \in FrameType
                  /\ [f EXCEPT !.woken = TRUE].kind = "msgwait"
                  /\ [f EXCEPT !.woken = TRUE].woken = TRUE
<1>1. ASSUME f.kind = "send"
      PROVE /\ [f EXCEPT !.ready = TRUE] \in FrameType
            /\ [f EXCEPT !.ready = TRUE].kind = "send"
            /\ [f EXCEPT !.ready = TRUE].ready = TRUE
  <2>1. f \in [kind : {"send"}, ready : BOOLEAN]
    BY <1>1 DEF FrameType
  <2>2. [f EXCEPT !.ready = TRUE] \in [kind : {"send"}, ready : BOOLEAN]
    BY <2>1
  <2> QED  BY <2>1, <2>2 DEF FrameType
<1>2. ASSUME f.kind = "msgwait"
      PROVE /\ [f EXCEPT !.woken = TRUE] \in FrameType
            /\ [f EXCEPT !.woken = TRUE].kind = "msgwait"
            /\ [f EXCEPT !.woken = TRUE].woken = TRUE
  <2>1. f \in [kind : {"msgwait"}, woken : BOOLEAN]
    BY <1>2 DEF FrameType
  <2>2. [f EXCEPT !.woken = TRUE] \in [kind : {"msgwait"}, woken : BOOLEAN]
    BY <2>1
  <2> QED  BY <2>1, <2>2 DEF FrameType
<1> QED  BY <1>1, <1>2

(* Dropping the continuation of a frame changes no frame but a call.       *)
LEMMA DroppedFrames ==
    ASSUME NEW f \in FrameType, f.kind \in UserWaits \cup {"call"}
    PROVE  /\ [f EXCEPT !.held = FALSE] \in FrameType
           /\ [f EXCEPT !.held = FALSE].kind = f.kind
           /\ f.kind # "call" => [f EXCEPT !.held = FALSE] = f
<1>1. CASE f.kind = "call"
  <2>1. f \in [kind : {"call"}, held : BOOLEAN]
    BY <1>1 DEF FrameType
  <2>2. [f EXCEPT !.held = FALSE] \in [kind : {"call"}, held : BOOLEAN]
    BY <2>1
  <2> QED  BY <1>1, <2>2 DEF FrameType
<1>2. CASE f.kind = "send"
  <2>1. f \in [kind : {"send"}, ready : BOOLEAN]
    BY <1>2 DEF FrameType
  <2>2. [f EXCEPT !.held = FALSE] = f
    BY <2>1
  <2> QED  BY <2>2
<1>3. CASE f.kind = "retrieve"
  <2>1. f \in [kind : {"retrieve"}, blocking : BOOLEAN]
    BY <1>3 DEF FrameType
  <2>2. [f EXCEPT !.held = FALSE] = f
    BY <2>1
  <2> QED  BY <2>2
<1>4. CASE f.kind = "wait"
  <2>1. f \in [kind : {"wait"}]
    BY <1>4 DEF FrameType
  <2>2. [f EXCEPT !.held = FALSE] = f
    BY <2>1
  <2> QED  BY <2>2
<1> QED  BY <1>1, <1>2, <1>3, <1>4 DEF UserWaits

(* What is left of a sequence without its last element.                    *)
LEMMA FrontOf ==
    ASSUME NEW S, NEW s \in Seq(S), s # <<>>
    PROVE  /\ Front(s) \in Seq(S)
           /\ Len(s) \in Nat \ {0} /\ Len(Front(s)) = Len(s) - 1
           /\ \A i \in 1 .. Len(s) - 1 : Front(s)[i] = s[i]
           /\ Last(s) = s[Len(s)] /\ Last(s) \in S
<1> DEFINE n == Len(s) - 1
           r == SubSeq(s, 1, n)
<1>1. Len(s) \in Nat \ {0} /\ n \in Nat /\ \A i \in 1 .. Len(s) : s[i] \in S
  OBVIOUS
<1>2. \A i \in 1 .. n : s[i] \in S
  BY <1>1
<1> HIDE DEF n
<1>3. /\ r \in Seq(S)
      /\ Len(r) = IF 1 <= n THEN n - 1 + 1 ELSE 0
      /\ \A i \in 1 .. n - 1 + 1 : r[i] = s[1 + i - 1]
  BY <1>1, <1>2, SubSeqProperties
<1>4. Len(r) = n
  BY <1>1, <1>3
<1>5. \A i \in 1 .. n : r[i] = s[i]
  BY <1>1, <1>3
<1> USE DEF n
<1> QED  BY <1>1, <1>3, <1>4, <1>5 DEF Front, Last

ThreadStates == {"Runnable", "Running", "Waiting", "Terminated"}
Invocation == [sender : Thread, place : Nat \ {0}]

(* The types of the threads, their stacks and their queues of sends.       *)
ThreadsTyped ==
    /\ state \in [Thread -> ThreadStates]
    /\ stack \in [Thread -> Seq(FrameType)]
    /\ invocations \in [Thread -> Seq(Invocation)]

(* The send at place p of s waits for its answer.                          *)
Awaits(s, p) ==
    p \in DOMAIN stack[s] /\ stack[s][p].kind = "send" /\ ~stack[s][p].ready

(* The invocation i in the queue of t, or the frame i of t, is to answer   *)
(* the send at place p of s.                                               *)
Queues(t, i, s, p) ==
    /\ i \in DOMAIN invocations[t]
    /\ invocations[t][i].sender = s /\ invocations[t][i].place = p
Runs(t, i, s, p) ==
    /\ i \in DOMAIN stack[t]
    /\ stack[t][i].kind = "proc" /\ stack[t][i].sender = s /\ stack[t][i].place = p

(* Whoever is to answer a live thread is waited for, and is another thread. *)
AnswersAreAwaited ==
    \A t, s \in Thread : \A i, p \in Nat :
        Queues(t, i, s, p) \/ Runs(t, i, s, p) =>
            s # t /\ (Live(s) => Awaits(s, p))

(* No send is to be answered twice.                                        *)
AnswersAreUnique ==
    \A t, u, s \in Thread : \A i, j, p \in Nat :
        /\ Queues(t, i, s, p) /\ Queues(u, j, s, p) => t = u /\ i = j
        /\ Runs(t, i, s, p) /\ Runs(u, j, s, p) => t = u /\ i = j
        /\ ~(Queues(t, i, s, p) /\ Runs(u, j, s, p))

(* A send that waits has somebody to answer it.                            *)
SendsAreAnswered ==
    \A s \in Thread : \A p \in Nat :
        Awaits(s, p) =>
            \E t \in Thread : \E i \in Nat : Queues(t, i, s, p) \/ Runs(t, i, s, p)

(* A thread that ended has no frames and no queue.                         *)
DeadAreEmpty ==
    \A t \in Thread : ~Live(t) => stack[t] = <<>> /\ invocations[t] = <<>>

(* Frames can be given ages, below b, that grow along each stack and from  *)
(* a send to the procedure that answers it.                                *)
AgesGrow(age, b) ==
    /\ \A t \in Thread : \A i \in DOMAIN stack[t] :
           age[t][i] < b /\ \A j \in DOMAIN stack[t] : i < j => age[t][i] < age[t][j]
    /\ \A t, s \in Thread : \A i, p \in Nat :
           Runs(t, i, s, p) /\ Live(s) => age[s][p] < age[t][i]
Aged == \E age \in [Thread -> [Nat -> Nat]], b \in Nat : AgesGrow(age, b)

(* The relation between the sends and those who answer them.               *)
Answering ==
    ThreadsTyped /\ AnswersAreAwaited /\ AnswersAreUnique /\ SendsAreAnswered
    /\ DeadAreEmpty /\ Aged

SameLives == \A t \in Thread : Live(t)' <=> Live(t)
SameQueues == \A t, s \in Thread : \A i, p \in Nat : Queues(t, i, s, p)' <=> Queues(t, i, s, p)
SameRuns == \A t, s \in Thread : \A i, p \in Nat : Runs(t, i, s, p)' <=> Runs(t, i, s, p)
SameAwaits == \A s \in Thread : \A p \in Nat : Awaits(s, p)' <=> Awaits(s, p)

(* A step that leaves the sends, those who answer them and the lives of    *)
(* the threads alone keeps the relation between them.                      *)
LEMMA SameAnswers ==
    ASSUME AnswersAreAwaited, AnswersAreUnique, SendsAreAnswered,
           SameLives, SameQueues, SameRuns, SameAwaits
    PROVE  AnswersAreAwaited' /\ AnswersAreUnique' /\ SendsAreAnswered'
<1>1. AnswersAreAwaited'
  BY DEF AnswersAreAwaited, SameLives, SameQueues, SameRuns, SameAwaits
<1>2. AnswersAreUnique'
  BY DEF AnswersAreUnique, SameQueues, SameRuns
<1>3. SendsAreAnswered'
  BY DEF SendsAreAnswered, SameQueues, SameRuns, SameAwaits
<1> QED  BY <1>1, <1>2, <1>3

(* A step that ends frames, or pushes one on t that answers an older send. *)
FewerRuns(t) ==
    \A u, s \in Thread : \A i, p \in Nat :
        Runs(u, i, s, p)' =>
            \/ Runs(u, i, s, p)
            \/ /\ u = t /\ i = Len(stack[t]) + 1
               /\ s # t /\ (Live(s) => p \in DOMAIN stack[s])
FewerFrames(t) ==
    \A u \in Thread :
        Len(stack'[u]) <= IF u = t THEN Len(stack[u]) + 1 ELSE Len(stack[u])
FewerLives == \A u \in Thread : Live(u)' => Live(u)

(* The places of the frames of a thread.                                   *)
LEMMA FrameIndexes ==
    ASSUME ThreadsTyped, NEW t \in Thread
    PROVE  DOMAIN stack[t] = 1 .. Len(stack[t]) /\ Len(stack[t]) \in Nat
  BY DEF ThreadsTyped

(* And those after a step.                                                 *)
LEMMA FrameIndexesNext ==
    ASSUME ThreadsTyped', NEW t \in Thread
    PROVE  DOMAIN stack'[t] = 1 .. Len(stack'[t]) /\ Len(stack'[t]) \in Nat
  BY DEF ThreadsTyped

(* A step that adds at most one frame, on top of t, has no other new       *)
(* place.                                                                  *)
LEMMA FramesStay ==
    ASSUME ThreadsTyped, ThreadsTyped', NEW t \in Thread, FewerFrames(t),
           NEW u \in Thread
    PROVE  /\ \A i \in DOMAIN stack[u] : i \in Nat /\ ~(u = t /\ i = Len(stack[t]) + 1)
           /\ \A i \in DOMAIN stack'[u] :
                  i \in DOMAIN stack[u] \/ (u = t /\ i = Len(stack[t]) + 1)
<1>1. Len(stack'[u]) <= IF u = t THEN Len(stack[u]) + 1 ELSE Len(stack[u])
  BY DEF FewerFrames
<1>2. /\ DOMAIN stack[u] = 1 .. Len(stack[u]) /\ Len(stack[u]) \in Nat
      /\ DOMAIN stack'[u] = 1 .. Len(stack'[u]) /\ Len(stack'[u]) \in Nat
  BY FrameIndexes, FrameIndexesNext
<1> QED  BY <1>1, <1>2

(* The frames that stay keep their ages, and a frame pushed on t is the    *)
(* youngest of all.                                                        *)
LEMMA AgesKept ==
    ASSUME ThreadsTyped, ThreadsTyped', Aged, AnswersAreAwaited,
           NEW t \in Thread, FewerFrames(t), FewerRuns(t), FewerLives
    PROVE  Aged'
<1>1. PICK age \in [Thread -> [Nat -> Nat]], b \in Nat : AgesGrow(age, b)
  BY DEF Aged
<1>2. PICK n \in Nat : n = Len(stack[t]) + 1
  BY FrameIndexes
<1>3. ASSUME NEW u \in Thread
      PROVE  /\ \A i \in DOMAIN stack[u] : i \in Nat /\ ~(u = t /\ i = n)
             /\ \A i \in DOMAIN stack'[u] : i \in DOMAIN stack[u] \/ (u = t /\ i = n)
  BY <1>2, FramesStay
<1>4. ASSUME NEW j \in DOMAIN stack[t] PROVE j < n
  BY <1>2, FrameIndexes
<1>5. PICK older \in [Thread -> [Nat -> Nat]] :
          \A u \in Thread, i \in Nat :
              older[u][i] = IF u = t /\ i = n THEN b ELSE age[u][i]
  <2> DEFINE a == [u \in Thread |-> [i \in Nat |-> IF u = t /\ i = n THEN b ELSE age[u][i]]]
  <2>1. a \in [Thread -> [Nat -> Nat]]
    OBVIOUS
  <2>2. \A u \in Thread, i \in Nat : a[u][i] = IF u = t /\ i = n THEN b ELSE age[u][i]
    OBVIOUS
  <2> QED  BY <2>1, <2>2
<1>6. AgesGrow(older, b + 1)'
  <2>1. ASSUME NEW u \in Thread, NEW i \in DOMAIN stack'[u]
        PROVE  /\ older[u][i] < b + 1
               /\ \A j \in DOMAIN stack'[u] : i < j => older[u][i] < older[u][j]
    <3>1. i \in Nat /\ age[u][i] \in Nat /\ (i \in DOMAIN stack[u] => age[u][i] < b)
      BY <1>1, <1>2, <1>3 DEF AgesGrow
    <3>2. older[u][i] < b + 1
      BY <1>3, <1>5, <3>1
    <3>3. ASSUME NEW j \in DOMAIN stack'[u], i < j
          PROVE  older[u][i] < older[u][j]
      <4>1. j \in Nat /\ i \in DOMAIN stack[u] /\ ~(u = t /\ i = n)
        <5>1. /\ j \in DOMAIN stack[u] \/ (u = t /\ j = n)
              /\ i \in DOMAIN stack[u] \/ (u = t /\ i = n)
              /\ j \in DOMAIN stack[u] => j \in Nat
              /\ u = t /\ j \in DOMAIN stack[u] => j < n
          BY <1>3, <1>4
        <5>2. ~(u = t /\ i = n)
          BY <3>1, <3>3, <5>1
        <5> QED  BY <5>1, <5>2
      <4>2. older[u][i] = age[u][i]
        BY <1>5, <4>1, <3>1
      <4>3. CASE u = t /\ j = n
        BY <1>5, <3>1, <4>1, <4>2, <4>3
      <4>4. CASE j \in DOMAIN stack[u]
        <5>1. age[u][i] < age[u][j]
          BY <1>1, <3>3, <4>1, <4>4 DEF AgesGrow
        <5>2. older[u][j] = age[u][j]
          BY <1>2, <1>3, <1>5, <4>1, <4>4
        <5> QED  BY <4>2, <5>1, <5>2
      <4> QED  BY <1>3, <4>3, <4>4
    <3> QED  BY <3>2, <3>3
  <2>2. ASSUME NEW u \in Thread, NEW s \in Thread, NEW i \in Nat, NEW p \in Nat,
               Runs(u, i, s, p)', Live(s)'
        PROVE  older[s][p] < older[u][i]
    <3>1. Live(s)
      BY <2>2 DEF FewerLives
    <3>2. CASE Runs(u, i, s, p)
      <4>1. Awaits(s, p)
        BY <3>1, <3>2 DEF AnswersAreAwaited
      <4>2. p \in DOMAIN stack[s] /\ i \in DOMAIN stack[u]
        BY <3>2, <4>1 DEF Awaits, Runs
      <4>3. ~(s = t /\ p = n) /\ ~(u = t /\ i = n)
        BY <1>2, <1>3, <4>2
      <4>4. older[s][p] = age[s][p] /\ older[u][i] = age[u][i]
        BY <1>5, <4>3
      <4> QED  BY <1>1, <3>1, <3>2, <4>4 DEF AgesGrow
    <3>3. CASE u = t /\ i = n /\ s # t /\ p \in DOMAIN stack[s]
      <4>1. older[s][p] = age[s][p] /\ older[u][i] = b
        BY <1>5, <3>3
      <4>2. age[s][p] < b
        BY <1>1, <3>3 DEF AgesGrow
      <4> QED  BY <4>1, <4>2
    <3>4. \/ Runs(u, i, s, p)
          \/ u = t /\ i = n /\ s # t /\ p \in DOMAIN stack[s]
      BY <1>2, <2>2, <3>1 DEF FewerRuns
    <3> QED  BY <3>2, <3>3, <3>4
  <2> QED  BY <2>1, <2>2 DEF AgesGrow
<1>7. b + 1 \in Nat
  OBVIOUS
<1> QED  BY <1>6, <1>7 DEF Aged

(* Only frames of t above the first n change, at most one is added, and    *)
(* none of them, before or after, is a procedure or a send that waits.     *)
TopChanged(t, n) ==
    /\ n \in Nat /\ n <= Len(stack[t]) /\ n <= Len(stack'[t])
    /\ \A i \in 1 .. n : stack'[t][i] = stack[t][i]
    /\ \A i \in DOMAIN stack[t] : i > n => stack[t][i].kind # "proc" /\ ~Awaits(t, i)
    /\ \A i \in DOMAIN stack'[t] : i > n => stack'[t][i].kind \notin {"proc", "send"}
    /\ Len(stack'[t]) <= Len(stack[t]) + 1
    /\ \A u \in Thread : u # t => stack'[u] = stack[u]

(* Such a step leaves the sends and those who answer them alone.           *)
LEMMA TopChangedSame ==
    ASSUME ThreadsTyped, ThreadsTyped', NEW t \in Thread, NEW n, TopChanged(t, n),
           UNCHANGED invocations
    PROVE  SameQueues /\ SameRuns /\ SameAwaits
<1>1. SameQueues
  BY DEF SameQueues, Queues
<1>2. /\ DOMAIN stack[t] = 1 .. Len(stack[t]) /\ Len(stack[t]) \in Nat
      /\ DOMAIN stack'[t] = 1 .. Len(stack'[t]) /\ Len(stack'[t]) \in Nat
  BY FrameIndexes, FrameIndexesNext
<1>3. ASSUME NEW u \in Thread, NEW s \in Thread, NEW i \in Nat, NEW p \in Nat
      PROVE  Runs(u, i, s, p)' <=> Runs(u, i, s, p)
  <2>1. CASE u # t
    BY <2>1 DEF TopChanged, Runs
  <2>2. CASE u = t /\ i > n
    BY <2>2 DEF TopChanged, Runs
  <2>3. CASE u = t /\ i <= n
    <3>1. (i \in DOMAIN stack'[t] <=> i \in DOMAIN stack[t])
      BY <1>2, <2>3 DEF TopChanged
    <3>2. i \in DOMAIN stack[t] => stack'[t][i] = stack[t][i]
      BY <1>2, <2>3 DEF TopChanged
    <3> QED  BY <2>3, <3>1, <3>2 DEF Runs
  <2> QED  BY <2>1, <2>2, <2>3 DEF TopChanged
<1>4. ASSUME NEW s \in Thread, NEW p \in Nat
      PROVE  Awaits(s, p)' <=> Awaits(s, p)
  <2>1. CASE s # t
    BY <2>1 DEF TopChanged, Awaits
  <2>2. CASE s = t /\ p > n
    BY <2>2 DEF TopChanged, Awaits
  <2>3. CASE s = t /\ p <= n
    <3>1. (p \in DOMAIN stack'[t] <=> p \in DOMAIN stack[t])
      BY <1>2, <2>3 DEF TopChanged
    <3>2. p \in DOMAIN stack[t] => stack'[t][p] = stack[t][p]
      BY <1>2, <2>3 DEF TopChanged
    <3> QED  BY <2>3, <3>1, <3>2 DEF Awaits
  <2> QED  BY <2>1, <2>2, <2>3 DEF TopChanged
<1> QED  BY <1>1, <1>3, <1>4 DEF SameRuns, SameAwaits

(* So it keeps the relation between sends and answers.                     *)
LEMMA TopChangedAnswers ==
    ASSUME Answering, ThreadsTyped', NEW t \in Thread, NEW n, TopChanged(t, n),
           Live(t), UNCHANGED invocations, SameLives
    PROVE  Answering'
<1>1. SameQueues /\ SameRuns /\ SameAwaits
  BY TopChangedSame DEF Answering
<1>2. AnswersAreAwaited' /\ AnswersAreUnique' /\ SendsAreAnswered'
  BY <1>1, SameAnswers DEF Answering
<1>3. DeadAreEmpty'
  BY DEF Answering, DeadAreEmpty, TopChanged, SameLives
<1>4. FewerFrames(t) /\ FewerRuns(t) /\ FewerLives
  <2>1. FewerFrames(t)
    <3>1. ASSUME NEW u \in Thread
          PROVE  Len(stack'[u]) <= IF u = t THEN Len(stack[u]) + 1 ELSE Len(stack[u])
      BY FrameIndexes DEF TopChanged, Answering
    <3> QED  BY <3>1 DEF FewerFrames
  <2>2. FewerRuns(t)
    BY <1>1 DEF SameRuns, FewerRuns
  <2>3. FewerLives
    BY DEF SameLives, FewerLives
  <2> QED  BY <2>1, <2>2, <2>3
<1>5. Aged'
  BY <1>4, AgesKept DEF Answering
<1> QED  BY <1>2, <1>3, <1>5 DEF Answering

(* A step that leaves the stacks and the queues alone.                     *)
LEMMA SameStacksAnswer ==
    ASSUME Answering, ThreadsTyped', UNCHANGED <<stack, invocations>>, SameLives
    PROVE  Answering'
<1>1. SameQueues /\ SameRuns /\ SameAwaits
  BY DEF SameQueues, Queues, SameRuns, Runs, SameAwaits, Awaits
<1>2. AnswersAreAwaited' /\ AnswersAreUnique' /\ SendsAreAnswered'
  BY <1>1, SameAnswers DEF Answering
<1>3. DeadAreEmpty'
  BY DEF Answering, DeadAreEmpty, SameLives
<1>4. Aged'
  BY DEF Answering, Aged, AgesGrow, Runs, SameLives
<1> QED  BY <1>2, <1>3, <1>4 DEF Answering

(* The places and the types of the sends queued for a thread.              *)
LEMMA QueueIndexes ==
    ASSUME ThreadsTyped, NEW t \in Thread
    PROVE  /\ DOMAIN invocations[t] = 1 .. Len(invocations[t])
           /\ Len(invocations[t]) \in Nat
           /\ invocations[t] \in Seq(Invocation)
           /\ \A i \in DOMAIN invocations[t] :
                  /\ invocations[t][i] \in Invocation
                  /\ invocations[t][i].sender \in Thread
                  /\ invocations[t][i].place \in Nat \ {0}
<1>1. invocations[t] \in Seq(Invocation)
  BY DEF ThreadsTyped
<1>2. \A i \in DOMAIN invocations[t] : invocations[t][i] \in Invocation
  BY <1>1
<1>3. DOMAIN invocations[t] = 1 .. Len(invocations[t]) /\ Len(invocations[t]) \in Nat
  BY <1>1
<1> QED  BY <1>1, <1>2, <1>3 DEF Invocation

(* The oldest send of t becomes a procedure on its stack.                  *)
Entered(t) ==
    /\ invocations[t] # <<>>
    /\ stack' = Push(t, [kind |-> "proc", sender |-> Head(invocations[t]).sender,
                         place |-> Head(invocations[t]).place])
    /\ invocations' = [invocations EXCEPT ![t] = Tail(@)]

(* The entry moves the oldest send of t from its queue to the top of its   *)
(* stack, and nothing else.                                                *)
LEMMA EnteredFacts ==
    ASSUME ThreadsTyped, NEW t \in Thread, Entered(t)
    PROVE  /\ stack' \in [Thread -> Seq(FrameType)]
           /\ invocations' \in [Thread -> Seq(Invocation)]
           /\ SameAwaits
           /\ \A u, s \in Thread : \A i, p \in Nat :
                  /\ Queues(u, i, s, p)' <=>
                         IF u = t THEN i # 0 /\ Queues(u, i + 1, s, p) ELSE Queues(u, i, s, p)
                  /\ Runs(u, i, s, p)' <=>
                         \/ Runs(u, i, s, p)
                         \/ u = t /\ i = Len(stack[t]) + 1 /\ Queues(t, 1, s, p)
           /\ \A u \in Thread : u # t => stack'[u] = stack[u] /\ invocations'[u] = invocations[u]
           /\ Len(stack'[t]) = Len(stack[t]) + 1
<1> DEFINE q == invocations[t]
           f == [kind |-> "proc", sender |-> Head(q).sender, place |-> Head(q).place]
<1>1. /\ q \in Seq(Invocation) /\ q # <<>> /\ Len(q) \in Nat \ {0}
      /\ Head(q) = q[1] /\ q[1] \in Invocation
      /\ Tail(q) \in Seq(Invocation) /\ Len(Tail(q)) = Len(q) - 1
      /\ \A i \in 1 .. Len(q) - 1 : Tail(q)[i] = q[i + 1]
  BY QueueIndexes, HeadTailProperties DEF Entered
<1>2. f \in FrameType /\ f.kind = "proc" /\ f.sender = q[1].sender /\ f.place = q[1].place
  BY <1>1, NewFrames DEF Invocation
<1>3. /\ stack' = [stack EXCEPT ![t] = Append(stack[t], f)]
      /\ invocations' = [invocations EXCEPT ![t] = Tail(q)]
  BY DEF Entered, Push
<1> HIDE DEF f, q
<1>4. /\ stack[t] \in Seq(FrameType) /\ Len(stack[t]) \in Nat
      /\ Append(stack[t], f) \in Seq(FrameType)
      /\ Len(Append(stack[t], f)) = Len(stack[t]) + 1
      /\ Append(stack[t], f)[Len(stack[t]) + 1] = f
      /\ \A i \in 1 .. Len(stack[t]) : Append(stack[t], f)[i] = stack[t][i]
  BY <1>2, AppendProperties DEF ThreadsTyped
<1>5. /\ stack' \in [Thread -> Seq(FrameType)]
      /\ stack'[t] = Append(stack[t], f)
      /\ \A u \in Thread : u # t => stack'[u] = stack[u]
  BY <1>3, <1>4 DEF ThreadsTyped
<1>6. /\ invocations' \in [Thread -> Seq(Invocation)]
      /\ invocations'[t] = Tail(q)
      /\ \A u \in Thread : u # t => invocations'[u] = invocations[u]
  BY <1>1, <1>3 DEF ThreadsTyped
<1>7. ASSUME NEW u \in Thread, NEW s \in Thread, NEW i \in Nat, NEW p \in Nat
      PROVE  Queues(u, i, s, p)' <=>
                 IF u = t THEN i # 0 /\ Queues(u, i + 1, s, p) ELSE Queues(u, i, s, p)
  <2>1. CASE u # t
    BY <1>6, <2>1 DEF Queues
  <2>2. CASE u = t
    <3>1. DOMAIN q = 1 .. Len(q) /\ DOMAIN Tail(q) = 1 .. Len(q) - 1
      BY <1>1
    <3>2. i \in DOMAIN Tail(q) <=> i # 0 /\ i + 1 \in DOMAIN q
      BY <1>1, <3>1
    <3>3. i \in DOMAIN Tail(q) => Tail(q)[i] = q[i + 1]
      BY <1>1, <3>1
    <3> QED  BY <1>6, <2>2, <3>2, <3>3 DEF Queues, q
  <2> QED  BY <2>1, <2>2
<1>8. ASSUME NEW u \in Thread, NEW s \in Thread, NEW i \in Nat, NEW p \in Nat
      PROVE  Runs(u, i, s, p)' <=>
                 \/ Runs(u, i, s, p)
                 \/ u = t /\ i = Len(stack[t]) + 1 /\ Queues(t, 1, s, p)
  <2>1. CASE u # t
    BY <1>5, <2>1 DEF Runs
  <2>2. CASE u = t /\ i = Len(stack[t]) + 1
    <3>1. i \notin DOMAIN stack[t] /\ i \in DOMAIN stack'[t] /\ stack'[t][i] = f
      BY <1>4, <1>5, <2>2
    <3>2. 1 \in DOMAIN q
      BY <1>1
    <3> QED  BY <1>2, <2>2, <3>1, <3>2 DEF Runs, Queues, q
  <2>3. CASE u = t /\ i # Len(stack[t]) + 1
    <3>1. i \in DOMAIN stack[t] <=> i \in DOMAIN stack'[t]
      BY <1>4, <1>5, <2>3
    <3>2. i \in DOMAIN stack[t] => stack'[t][i] = stack[t][i]
      BY <1>4, <1>5
    <3> QED  BY <2>3, <3>1, <3>2 DEF Runs
  <2> QED  BY <2>1, <2>2, <2>3
<1>9. ASSUME NEW s \in Thread, NEW p \in Nat
      PROVE  Awaits(s, p)' <=> Awaits(s, p)
  <2>1. CASE s # t
    BY <1>5, <2>1 DEF Awaits
  <2>2. CASE s = t /\ p = Len(stack[t]) + 1
    <3>1. p \notin DOMAIN stack[t] /\ stack'[t][p] = f
      BY <1>4, <1>5, <2>2
    <3> QED  BY <1>2, <2>2, <3>1 DEF Awaits
  <2>3. CASE s = t /\ p # Len(stack[t]) + 1
    <3>1. p \in DOMAIN stack[t] <=> p \in DOMAIN stack'[t]
      BY <1>4, <1>5, <2>3
    <3>2. p \in DOMAIN stack[t] => stack'[t][p] = stack[t][p]
      BY <1>4, <1>5
    <3> QED  BY <2>3, <3>1, <3>2 DEF Awaits
  <2> QED  BY <2>1, <2>2, <2>3
<1> QED  BY <1>4, <1>5, <1>6, <1>7, <1>8, <1>9 DEF SameAwaits

(* The send that enters is still owed one answer, now by the procedure.    *)
LEMMA EnteredAnswers ==
    ASSUME Answering, ThreadsTyped', NEW t \in Thread, Entered(t), SameLives, Live(t)
    PROVE  Answering'
<1> DEFINE n == Len(stack[t]) + 1
<1>1. /\ SameAwaits
      /\ \A u, s \in Thread : \A i, p \in Nat :
             /\ Queues(u, i, s, p)' <=>
                    IF u = t THEN i # 0 /\ Queues(u, i + 1, s, p) ELSE Queues(u, i, s, p)
             /\ Runs(u, i, s, p)' <=>
                    Runs(u, i, s, p) \/ (u = t /\ i = n /\ Queues(t, 1, s, p))
      /\ \A u \in Thread : u # t => stack'[u] = stack[u] /\ invocations'[u] = invocations[u]
      /\ Len(stack'[t]) = n /\ n \in Nat
  BY EnteredFacts, FrameIndexes DEF Answering
<1>2. \A s \in Thread : \A p \in Nat : ~Runs(t, n, s, p)
  BY FrameIndexes DEF Runs, Answering
<1>3. \A s \in Thread : \A p \in Nat : ~Queues(t, 0, s, p)
  BY QueueIndexes DEF Queues, Answering
<1> HIDE DEF n
<1>4. ASSUME NEW u \in Thread, NEW s \in Thread, NEW i \in Nat, NEW p \in Nat,
             Queues(u, i, s, p)' \/ Runs(u, i, s, p)'
      PROVE  \E j \in Nat : Queues(u, j, s, p) \/ Runs(u, j, s, p)
  <2>1. i + 1 \in Nat /\ 1 \in Nat
    OBVIOUS
  <2> QED  BY <1>1, <1>4, <2>1
<1>5. AnswersAreAwaited'
  BY <1>1, <1>4 DEF AnswersAreAwaited, Answering, SameLives, SameAwaits
<1>6. AnswersAreUnique'
  <2>1. ASSUME NEW u \in Thread, NEW v \in Thread, NEW s \in Thread,
               NEW i \in Nat, NEW j \in Nat, NEW p \in Nat
        PROVE  /\ Queues(u, i, s, p)' /\ Queues(v, j, s, p)' => u = v /\ i = j
               /\ Runs(u, i, s, p)' /\ Runs(v, j, s, p)' => u = v /\ i = j
               /\ ~(Queues(u, i, s, p)' /\ Runs(v, j, s, p)')
    <3>1. /\ i + 1 \in Nat /\ j + 1 \in Nat /\ 1 \in Nat
          /\ i + 1 = j + 1 => i = j
          /\ i # 0 => i + 1 # 1
      OBVIOUS
    <3>2. /\ \A k, l \in Nat : Queues(u, k, s, p) /\ Queues(v, l, s, p) => u = v /\ k = l
          /\ \A k, l \in Nat : Runs(u, k, s, p) /\ Runs(v, l, s, p) => u = v /\ k = l
          /\ \A k, l \in Nat : ~(Queues(u, k, s, p) /\ Runs(v, l, s, p))
          /\ \A k, l \in Nat : ~(Queues(v, k, s, p) /\ Runs(u, l, s, p))
      BY DEF AnswersAreUnique, Answering
    <3>3. Queues(u, i, s, p)' /\ Queues(v, j, s, p)' => u = v /\ i = j
      BY <1>1, <3>1, <3>2
    <3>4. Runs(u, i, s, p)' /\ Runs(v, j, s, p)' => u = v /\ i = j
      BY <1>1, <3>1, <3>2
    <3>5. ~(Queues(u, i, s, p)' /\ Runs(v, j, s, p)')
      BY <1>1, <3>1, <3>2
    <3> QED  BY <3>3, <3>4, <3>5
  <2> QED  BY <2>1 DEF AnswersAreUnique
<1>7. SendsAreAnswered'
  <2>1. ASSUME NEW s \in Thread, NEW p \in Nat, Awaits(s, p)'
        PROVE  \E u \in Thread : \E i \in Nat : Queues(u, i, s, p)' \/ Runs(u, i, s, p)'
    <3>1. PICK u \in Thread, i \in Nat : Queues(u, i, s, p) \/ Runs(u, i, s, p)
      BY <1>1, <2>1 DEF SendsAreAnswered, Answering, SameAwaits
    <3>2. CASE Runs(u, i, s, p)
      BY <1>1, <3>2
    <3>3. CASE Queues(u, i, s, p) /\ u # t
      BY <1>1, <3>3
    <3>4. CASE Queues(u, i, s, p) /\ u = t /\ i = 1
      BY <1>1, <3>4
    <3>5. CASE Queues(u, i, s, p) /\ u = t /\ i # 1
      <4>1. i # 0
        BY <1>3, <3>5
      <4>2. PICK k \in Nat : k # 0 /\ i = k + 1
        <5>1. i - 1 \in Nat /\ i - 1 # 0 /\ i = (i - 1) + 1
          BY <3>5, <4>1
        <5> QED  BY <5>1
      <4>3. Queues(u, k, s, p)'
        BY <1>1, <3>5, <4>2
      <4> QED  BY <4>3
    <3> QED  BY <3>1, <3>2, <3>3, <3>4, <3>5
  <2> QED  BY <2>1 DEF SendsAreAnswered
<1>8. DeadAreEmpty'
  BY <1>1 DEF Answering, DeadAreEmpty, SameLives
<1>9. FewerFrames(t) /\ FewerRuns(t) /\ FewerLives
  <2>1. FewerFrames(t)
    <3>1. ASSUME NEW u \in Thread
          PROVE  Len(stack'[u]) <= IF u = t THEN Len(stack[u]) + 1 ELSE Len(stack[u])
      BY <1>1, FrameIndexes DEF Answering, n
    <3> QED  BY <3>1 DEF FewerFrames
  <2>2. ASSUME NEW u \in Thread, NEW s \in Thread, NEW i \in Nat, NEW p \in Nat,
               Runs(u, i, s, p)', ~Runs(u, i, s, p)
        PROVE  u = t /\ i = n /\ s # t /\ (Live(s) => p \in DOMAIN stack[s])
    <3>1. u = t /\ i = n /\ Queues(t, 1, s, p)
      BY <1>1, <2>2
    <3>2. s # t /\ (Live(s) => Awaits(s, p))
      BY <3>1 DEF Answering, AnswersAreAwaited
    <3>3. Awaits(s, p) => p \in DOMAIN stack[s]
      BY DEF Awaits
    <3> QED  BY <3>1, <3>2, <3>3
  <2>3. FewerRuns(t)
    BY <2>2 DEF FewerRuns, n
  <2>4. FewerLives
    BY DEF SameLives, FewerLives
  <2> QED  BY <2>1, <2>3, <2>4
<1>10. Aged'
  BY <1>9, AgesKept DEF Answering
<1> QED  BY <1>5, <1>6, <1>7, <1>8, <1>10 DEF Answering

(* SendMessage of t to w: t waits on top of its stack, w is to answer, and *)
(* the frame on top of w may learn of it.                                  *)
Sent(t, w, woken) ==
    /\ t # w
    /\ stack' = [stack EXCEPT ![t] = Append(@, [kind |-> "send", ready |-> FALSE]),
                              ![w] = woken]
    /\ invocations' = [invocations EXCEPT ![w] =
           Append(@, [sender |-> t, place |-> Len(stack[t]) + 1])]
Woken(w, woken) ==
    /\ woken \in Seq(FrameType) /\ Len(woken) = Len(stack[w])
    /\ \A i \in DOMAIN stack[w] :
           \/ woken[i] = stack[w][i]
           \/ stack[w][i].kind = "msgwait" /\ woken[i].kind = "msgwait"

(* SendMessage adds one send that waits and one invocation that is to      *)
(* answer it, and nothing else.                                            *)
LEMMA SentFacts ==
    ASSUME ThreadsTyped, NEW t \in Thread, NEW w \in Thread, NEW woken,
           Sent(t, w, woken), Woken(w, woken)
    PROVE  /\ stack' \in [Thread -> Seq(FrameType)]
           /\ invocations' \in [Thread -> Seq(Invocation)]
           /\ SameRuns
           /\ \A u, s \in Thread : \A i, p \in Nat :
                  Queues(u, i, s, p)' <=>
                      \/ Queues(u, i, s, p)
                      \/ /\ u = w /\ i = Len(invocations[w]) + 1
                         /\ s = t /\ p = Len(stack[t]) + 1
           /\ \A s \in Thread : \A p \in Nat :
                  Awaits(s, p)' <=> Awaits(s, p) \/ (s = t /\ p = Len(stack[t]) + 1)
           /\ \A u \in Thread : u # t => Len(stack'[u]) = Len(stack[u])
           /\ Len(stack'[t]) = Len(stack[t]) + 1
<1> DEFINE f == [kind |-> "send", ready |-> FALSE]
           e == [sender |-> t, place |-> Len(stack[t]) + 1]
<1>1. f \in FrameType /\ f.kind = "send" /\ ~f.ready
  BY NewFrames
<1>2. e \in Invocation /\ e.sender = t /\ e.place = Len(stack[t]) + 1
  BY FrameIndexes DEF Invocation
<1>3. /\ stack' = [stack EXCEPT ![t] = Append(stack[t], f), ![w] = woken]
      /\ invocations' = [invocations EXCEPT ![w] = Append(invocations[w], e)]
  BY DEF Sent
<1> HIDE DEF f, e
<1>4. /\ stack[t] \in Seq(FrameType) /\ Len(stack[t]) \in Nat
      /\ Append(stack[t], f) \in Seq(FrameType)
      /\ Len(Append(stack[t], f)) = Len(stack[t]) + 1
      /\ Append(stack[t], f)[Len(stack[t]) + 1] = f
      /\ \A i \in 1 .. Len(stack[t]) : Append(stack[t], f)[i] = stack[t][i]
  BY <1>1, AppendProperties DEF ThreadsTyped
<1>5. /\ stack' \in [Thread -> Seq(FrameType)]
      /\ stack'[t] = Append(stack[t], f)
      /\ stack'[w] = woken
      /\ \A u \in Thread : u # t /\ u # w => stack'[u] = stack[u]
  BY <1>3, <1>4 DEF ThreadsTyped, Sent, Woken
<1>6. /\ invocations[w] \in Seq(Invocation) /\ Len(invocations[w]) \in Nat
      /\ Append(invocations[w], e) \in Seq(Invocation)
      /\ Len(Append(invocations[w], e)) = Len(invocations[w]) + 1
      /\ Append(invocations[w], e)[Len(invocations[w]) + 1] = e
      /\ \A i \in 1 .. Len(invocations[w]) : Append(invocations[w], e)[i] = invocations[w][i]
  BY <1>2, QueueIndexes, AppendProperties
<1>7. /\ invocations' \in [Thread -> Seq(Invocation)]
      /\ invocations'[w] = Append(invocations[w], e)
      /\ \A u \in Thread : u # w => invocations'[u] = invocations[u]
  BY <1>3, <1>6 DEF ThreadsTyped
<1>8. ASSUME NEW u \in Thread, NEW s \in Thread, NEW i \in Nat, NEW p \in Nat
      PROVE  Queues(u, i, s, p)' <=>
                 \/ Queues(u, i, s, p)
                 \/ /\ u = w /\ i = Len(invocations[w]) + 1
                    /\ s = t /\ p = Len(stack[t]) + 1
  <2>1. CASE u # w
    BY <1>7, <2>1 DEF Queues
  <2>2. CASE u = w /\ i = Len(invocations[w]) + 1
    <3>1. i \notin DOMAIN invocations[w] /\ i \in DOMAIN invocations'[w]
          /\ invocations'[w][i] = e
      BY <1>6, <1>7, <2>2
    <3> QED  BY <1>2, <2>2, <3>1 DEF Queues
  <2>3. CASE u = w /\ i # Len(invocations[w]) + 1
    <3>1. i \in DOMAIN invocations[w] <=> i \in DOMAIN invocations'[w]
      BY <1>6, <1>7, <2>3
    <3>2. i \in DOMAIN invocations[w] => invocations'[w][i] = invocations[w][i]
      BY <1>6, <1>7
    <3> QED  BY <2>3, <3>1, <3>2 DEF Queues
  <2> QED  BY <2>1, <2>2, <2>3
<1>9. ASSUME NEW i \in Nat
      PROVE  /\ i \in DOMAIN stack'[w] <=> i \in DOMAIN stack[w]
             /\ i \in DOMAIN stack[w] =>
                    \/ stack'[w][i] = stack[w][i]
                    \/ stack[w][i].kind = "msgwait" /\ stack'[w][i].kind = "msgwait"
  <2>1. DOMAIN stack'[w] = DOMAIN stack[w]
    BY <1>5, FrameIndexes DEF Woken
  <2> QED  BY <1>5, <2>1 DEF Woken
<1>10. ASSUME NEW u \in Thread, NEW s \in Thread, NEW i \in Nat, NEW p \in Nat
      PROVE  Runs(u, i, s, p)' <=> Runs(u, i, s, p)
  <2>1. CASE u # t /\ u # w
    BY <1>5, <2>1 DEF Runs
  <2>2. CASE u = t /\ i = Len(stack[t]) + 1
    <3>1. i \notin DOMAIN stack[t] /\ stack'[t][i] = f
      BY <1>4, <1>5, <2>2
    <3> QED  BY <1>1, <2>2, <3>1 DEF Runs
  <2>3. CASE u = t /\ i # Len(stack[t]) + 1
    <3>1. i \in DOMAIN stack[t] <=> i \in DOMAIN stack'[t]
      BY <1>4, <1>5, <2>3
    <3>2. i \in DOMAIN stack[t] => stack'[t][i] = stack[t][i]
      BY <1>4, <1>5
    <3> QED  BY <2>3, <3>1, <3>2 DEF Runs
  <2>4. CASE u = w
    BY <1>9, <2>4 DEF Runs
  <2> QED  BY <2>1, <2>2, <2>3, <2>4
<1>11. ASSUME NEW s \in Thread, NEW p \in Nat
      PROVE  Awaits(s, p)' <=> Awaits(s, p) \/ (s = t /\ p = Len(stack[t]) + 1)
  <2>1. CASE s # t /\ s # w
    BY <1>5, <2>1 DEF Awaits
  <2>2. CASE s = t /\ p = Len(stack[t]) + 1
    <3>1. p \in DOMAIN stack'[t] /\ stack'[t][p] = f
      BY <1>4, <1>5, <2>2
    <3> QED  BY <1>1, <2>2, <3>1 DEF Awaits
  <2>3. CASE s = t /\ p # Len(stack[t]) + 1
    <3>1. p \in DOMAIN stack[t] <=> p \in DOMAIN stack'[t]
      BY <1>4, <1>5, <2>3
    <3>2. p \in DOMAIN stack[t] => stack'[t][p] = stack[t][p]
      BY <1>4, <1>5
    <3> QED  BY <2>3, <3>1, <3>2 DEF Awaits
  <2>4. CASE s = w
    <3>1. s # t
      BY <2>4 DEF Sent
    <3> QED  BY <1>9, <2>4, <3>1 DEF Awaits
  <2> QED  BY <2>1, <2>2, <2>3, <2>4
<1>12. ASSUME NEW u \in Thread, u # t PROVE Len(stack'[u]) = Len(stack[u])
  BY <1>5, <1>12 DEF Woken
<1> QED  BY <1>4, <1>5, <1>7, <1>8, <1>10, <1>11, <1>12 DEF SameRuns

(* The new send is owed one answer, by the invocation queued for w.        *)
LEMMA SentAnswers ==
    ASSUME Answering, ThreadsTyped', NEW t \in Thread, NEW w \in Thread, NEW woken,
           Sent(t, w, woken), Woken(w, woken), SameLives, Live(t), Live(w)
    PROVE  Answering'
<1>0. PICK n \in Nat, m \in Nat : n = Len(stack[t]) + 1 /\ m = Len(invocations[w]) + 1
  <2>1. Len(stack[t]) + 1 \in Nat /\ Len(invocations[w]) + 1 \in Nat
    BY FrameIndexes, QueueIndexes DEF Answering
  <2> QED  BY <2>1
<1>1. /\ SameRuns
      /\ \A u, s \in Thread : \A i, p \in Nat :
             Queues(u, i, s, p)' <=>
                 Queues(u, i, s, p) \/ (u = w /\ i = m /\ s = t /\ p = n)
      /\ \A s \in Thread : \A p \in Nat :
             Awaits(s, p)' <=> Awaits(s, p) \/ (s = t /\ p = n)
      /\ t # w
  <2>1. ThreadsTyped /\ t # w
    BY DEF Answering, Sent
  <2>2. /\ SameRuns
        /\ \A u, s \in Thread : \A i, p \in Nat :
               Queues(u, i, s, p)' <=>
                   \/ Queues(u, i, s, p)
                   \/ /\ u = w /\ i = Len(invocations[w]) + 1
                      /\ s = t /\ p = Len(stack[t]) + 1
        /\ \A s \in Thread : \A p \in Nat :
               Awaits(s, p)' <=> Awaits(s, p) \/ (s = t /\ p = Len(stack[t]) + 1)
    BY <2>1, SentFacts
  <2> QED  BY <1>0, <2>1, <2>2
<1>2. ~Awaits(t, n)
  BY <1>0, FrameIndexes DEF Awaits, Answering
<1>3. \A u \in Thread : \A i \in Nat : ~Queues(u, i, t, n) /\ ~Runs(u, i, t, n)
  BY <1>2 DEF Answering, AnswersAreAwaited
<1>4. AnswersAreAwaited'
  BY <1>1 DEF AnswersAreAwaited, Answering, SameLives, SameRuns
<1>5. AnswersAreUnique'
  <2>1. ASSUME NEW u \in Thread, NEW v \in Thread, NEW s \in Thread,
               NEW i \in Nat, NEW j \in Nat, NEW p \in Nat
        PROVE  /\ Queues(u, i, s, p)' /\ Queues(v, j, s, p)' => u = v /\ i = j
               /\ Runs(u, i, s, p)' /\ Runs(v, j, s, p)' => u = v /\ i = j
               /\ ~(Queues(u, i, s, p)' /\ Runs(v, j, s, p)')
    <3>1. /\ Queues(u, i, s, p) /\ Queues(v, j, s, p) => u = v /\ i = j
          /\ Runs(u, i, s, p) /\ Runs(v, j, s, p) => u = v /\ i = j
          /\ ~(Queues(u, i, s, p) /\ Runs(v, j, s, p))
      BY DEF AnswersAreUnique, Answering
    <3>2. Runs(u, i, s, p)' <=> Runs(u, i, s, p)
      BY <1>1 DEF SameRuns
    <3>3. Runs(v, j, s, p)' <=> Runs(v, j, s, p)
      BY <1>1 DEF SameRuns
    <3> QED  BY <1>1, <1>3, <3>1, <3>2, <3>3
  <2> QED  BY <2>1 DEF AnswersAreUnique
<1>6. SendsAreAnswered'
  <2>1. ASSUME NEW s \in Thread, NEW p \in Nat, Awaits(s, p)'
        PROVE  \E u \in Thread : \E i \in Nat : Queues(u, i, s, p)' \/ Runs(u, i, s, p)'
    <3>1. CASE s = t /\ p = n
      BY <1>1, <3>1
    <3>2. CASE Awaits(s, p)
      <4>1. PICK u \in Thread, i \in Nat : Queues(u, i, s, p) \/ Runs(u, i, s, p)
        BY <3>2 DEF SendsAreAnswered, Answering
      <4> QED  BY <1>1, <4>1 DEF SameRuns
    <3> QED  BY <1>1, <2>1, <3>1, <3>2
  <2> QED  BY <2>1 DEF SendsAreAnswered
<1>7. DeadAreEmpty'
  <2>1. ASSUME NEW u \in Thread, ~Live(u)'
        PROVE  stack'[u] = stack[u] /\ invocations'[u] = invocations[u]
    <3>1. u # t /\ u # w
      BY <2>1 DEF SameLives
    <3> QED  BY <3>1 DEF Sent, Answering, ThreadsTyped
  <2> QED  BY <2>1 DEF DeadAreEmpty, Answering, SameLives
<1>8. FewerFrames(t) /\ FewerRuns(t) /\ FewerLives
  <2>1. FewerFrames(t)
    <3>1. ASSUME NEW u \in Thread
          PROVE  Len(stack'[u]) <= IF u = t THEN Len(stack[u]) + 1 ELSE Len(stack[u])
      <4>1. Len(stack'[u]) = IF u = t THEN Len(stack[u]) + 1 ELSE Len(stack[u])
        BY SentFacts DEF Answering
      <4> QED  BY <4>1, FrameIndexes DEF Answering
    <3> QED  BY <3>1 DEF FewerFrames
  <2>2. FewerRuns(t)
    BY <1>1 DEF SameRuns, FewerRuns
  <2>3. FewerLives
    BY DEF SameLives, FewerLives
  <2> QED  BY <2>1, <2>2, <2>3
<1>9. Aged'
  BY <1>8, AgesKept DEF Answering
<1> QED  BY <1>4, <1>5, <1>6, <1>7, <1>9 DEF Answering

(* The procedure on top of t ends, and the send at place p of s, if s      *)
(* lives, has its answer.                                                  *)
Replied(t, s, p) ==
    /\ Runs(t, Len(stack[t]), s, p) /\ s # t
    /\ stack' \in [Thread -> Seq(FrameType)]
    /\ \A u \in Thread : Len(stack'[u]) = IF u = t THEN Len(stack[t]) - 1 ELSE Len(stack[u])
    /\ \A u \in Thread : \A i \in DOMAIN stack'[u] :
           \/ stack'[u][i] = stack[u][i] /\ ~(u = s /\ i = p)
           \/ /\ u = s /\ i = p /\ stack[u][i].kind = "send"
              /\ stack'[u][i].kind = "send" /\ stack'[u][i].ready = TRUE
    /\ state' = [state EXCEPT ![t] = "Waiting",
                     ![s] = IF Live(s) THEN "Runnable" ELSE state[s]]

(* The return of a procedure (finish_thread_invocation) is such a reply.   *)
LEMMA ReplyFacts ==
    ASSUME Answering, NEW t \in Thread, Frame(t) = "proc", ReturnFromProc(t)
    PROVE  \E s \in Thread : \E p \in Nat \ {0} : Replied(t, s, p)
<1> DEFINE n == Len(stack[t])
           s == Last(stack[t]).sender
           p == Last(stack[t]).place
<1>1. stack[t] \in Seq(FrameType) /\ stack[t] # <<>>
  BY DEF Answering, ThreadsTyped, Frame
<1>2. /\ Front(stack[t]) \in Seq(FrameType)
      /\ n \in Nat \ {0} /\ Len(Front(stack[t])) = n - 1
      /\ \A i \in 1 .. n - 1 : Front(stack[t])[i] = stack[t][i]
      /\ Last(stack[t]) = stack[t][n] /\ Last(stack[t]) \in FrameType
  BY <1>1, FrontOf
<1>3. stack[t][n].kind = "proc"
  BY <1>1, <1>2 DEF Frame
<1>4. s \in Thread /\ p \in Nat \ {0} /\ stack[t][n].sender = s /\ stack[t][n].place = p
  BY <1>2, <1>3, FrameFields
<1>5. Runs(t, n, s, p)
  <2>1. n \in DOMAIN stack[t]
    BY <1>1, <1>2
  <2> QED  BY <1>3, <1>4, <2>1 DEF Runs
<1>6. s # t /\ (Live(s) => Awaits(s, p))
  <2> HIDE DEF s, p, n
  <2> QED  BY <1>2, <1>4, <1>5 DEF Answering, AnswersAreAwaited
<1>7. IF Live(s)
      THEN /\ stack' = [stack EXCEPT ![t] = Front(stack[t]), ![s][p].ready = TRUE]
           /\ state' = [state EXCEPT ![t] = "Waiting", ![s] = "Runnable"]
      ELSE /\ stack' = [stack EXCEPT ![t] = Front(stack[t])]
           /\ state' = [state EXCEPT ![t] = "Waiting"]
  BY DEF ReturnFromProc, Pop
<1>8. state' = [state EXCEPT ![t] = "Waiting",
                    ![s] = IF Live(s) THEN "Runnable" ELSE state[s]]
  <2> HIDE DEF s, p, n
  <2> QED  BY <1>4, <1>6, <1>7 DEF Answering, ThreadsTyped
<1> HIDE DEF s, p, n
<1>9. ASSUME ~Live(s) PROVE Replied(t, s, p)
  <2>1. stack' = [stack EXCEPT ![t] = Front(stack[t])]
    BY <1>7, <1>9
  <2>2. /\ stack' \in [Thread -> Seq(FrameType)]
        /\ stack'[t] = Front(stack[t])
        /\ \A u \in Thread : u # t => stack'[u] = stack[u]
    BY <1>2, <2>1 DEF Answering, ThreadsTyped
  <2>3. DOMAIN stack'[t] = 1 .. n - 1
    BY <1>2, <2>2
  <2>4. stack[s] = <<>>
    BY <1>4, <1>9 DEF Answering, DeadAreEmpty
  <2>5. ASSUME NEW u \in Thread, NEW i \in DOMAIN stack'[u]
        PROVE  stack'[u][i] = stack[u][i] /\ ~(u = s /\ i = p)
    <3>1. CASE u = t
      BY <1>2, <1>6, <2>2, <2>3, <3>1
    <3>2. CASE u # t
      <4>1. stack'[u] = stack[u] /\ (u = s => DOMAIN stack'[u] = {})
        BY <2>2, <2>4, <3>2
      <4> QED  BY <4>1
    <3> QED  BY <3>1, <3>2
  <2>6. \A u \in Thread : Len(stack'[u]) = IF u = t THEN n - 1 ELSE Len(stack[u])
    BY <1>2, <2>2
  <2> QED  BY <1>5, <1>6, <1>8, <2>2, <2>5, <2>6 DEF n, Replied
<1>10. ASSUME Live(s) PROVE Replied(t, s, p)
  <2> DEFINE g == [stack[s][p] EXCEPT !.ready = TRUE]
  <2>1. p \in DOMAIN stack[s] /\ stack[s][p].kind = "send" /\ stack[s][p] \in FrameType
        /\ stack[s] \in Seq(FrameType)
    BY <1>4, <1>6, <1>10 DEF Awaits, Answering, ThreadsTyped
  <2>2. g \in FrameType /\ g.kind = "send" /\ g.ready = TRUE
    BY <2>1, MarkedFrames
  <2>3. stack' = [stack EXCEPT ![t] = Front(stack[t]), ![s][p].ready = TRUE]
    BY <1>7, <1>10
  <2>4. /\ stack'[t] = Front(stack[t])
        /\ stack'[s] = [stack[s] EXCEPT ![p] = g]
        /\ DOMAIN stack' = Thread
        /\ \A u \in Thread : u # t /\ u # s => stack'[u] = stack[u]
    BY <1>4, <1>6, <2>3 DEF Answering, ThreadsTyped
  <2> HIDE DEF g
  <2>5. /\ [stack[s] EXCEPT ![p] = g] \in Seq(FrameType)
        /\ Len([stack[s] EXCEPT ![p] = g]) = Len(stack[s])
        /\ \A i \in DOMAIN stack[s] : [stack[s] EXCEPT ![p] = g][i] = IF i = p THEN g ELSE stack[s][i]
    BY <2>1, <2>2, ExceptSeq
  <2>6. stack' \in [Thread -> Seq(FrameType)]
    <3>1. \A u \in Thread : stack'[u] \in Seq(FrameType)
      BY <1>2, <2>4, <2>5 DEF Answering, ThreadsTyped
    <3>2. stack' = [u \in Thread |-> stack'[u]]
      BY <1>7, <1>10 DEF Answering, ThreadsTyped
    <3> QED  BY <3>1, <3>2
  <2>7. \A u \in Thread : Len(stack'[u]) = IF u = t THEN n - 1 ELSE Len(stack[u])
    BY <1>2, <1>6, <2>4, <2>5
  <2>8. ASSUME NEW u \in Thread, NEW i \in DOMAIN stack'[u]
        PROVE  \/ stack'[u][i] = stack[u][i] /\ ~(u = s /\ i = p)
               \/ /\ u = s /\ i = p /\ stack[u][i].kind = "send"
                  /\ stack'[u][i].kind = "send" /\ stack'[u][i].ready = TRUE
    <3>1. CASE u = t
      <4>1. i \in 1 .. n - 1
        BY <1>2, <2>4, <3>1
      <4> QED  BY <1>2, <1>6, <2>4, <3>1, <4>1
    <3>2. CASE u = s
      <4>1. i \in DOMAIN stack[s]
        BY <2>4, <2>5, <3>2
      <4>2. stack'[s][i] = IF i = p THEN g ELSE stack[s][i]
        BY <2>4, <2>5, <4>1
      <4> QED  BY <2>1, <2>2, <3>2, <4>2
    <3>3. CASE u # t /\ u # s
      BY <2>4, <3>3
    <3> QED  BY <3>1, <3>2, <3>3
  <2> QED  BY <1>5, <1>6, <1>8, <2>6, <2>7, <2>8 DEF n, Replied
<1>11. Replied(t, s, p)
  BY <1>9, <1>10
<1> QED  BY <1>4, <1>11

(* The send that is answered is owed nothing any more, and every other as  *)
(* before.                                                                 *)
LEMMA RepliedAnswers ==
    ASSUME Answering, ThreadsTyped', UNCHANGED invocations,
           NEW t \in Thread, NEW s \in Thread, NEW p \in Nat \ {0}, Replied(t, s, p)
    PROVE  Answering'
<1>0. PICK n \in Nat : n = Len(stack[t])
  BY FrameIndexes DEF Answering
<1>1. n \in DOMAIN stack[t] /\ n # 0 /\ DOMAIN stack[t] = 1 .. n /\ stack[t] # <<>>
  BY <1>0, FrameIndexes DEF Replied, Runs, Answering
<1>2. SameQueues
  BY DEF SameQueues, Queues
<1>3. Live(t) /\ SameLives
  <2>1. Live(t)
    BY <1>1 DEF Answering, DeadAreEmpty
  <2>2. \A u \in Thread : Live(u)' <=> Live(u)
    BY <2>1 DEF Replied, Live, Answering, ThreadsTyped
  <2> QED  BY <2>1, <2>2 DEF SameLives
<1>4. ASSUME NEW u \in Thread
      PROVE  \A i \in Nat : i \in DOMAIN stack'[u] <=> i \in DOMAIN stack[u] /\ ~(u = t /\ i = n)
  <2>1. /\ DOMAIN stack[u] = 1 .. Len(stack[u]) /\ Len(stack[u]) \in Nat
        /\ DOMAIN stack'[u] = 1 .. Len(stack'[u]) /\ Len(stack'[u]) \in Nat
    BY FrameIndexes, FrameIndexesNext DEF Answering
  <2>2. Len(stack'[u]) = IF u = t THEN n - 1 ELSE Len(stack[u])
    BY <1>0 DEF Replied
  <2> QED  BY <1>0, <2>1, <2>2
<1>5. ASSUME NEW u \in Thread, NEW r \in Thread, NEW i \in Nat, NEW q \in Nat
      PROVE  Runs(u, i, r, q)' <=> Runs(u, i, r, q) /\ ~(u = t /\ i = n)
  <2>1. CASE i \in DOMAIN stack'[u]
    <3>1. i \in DOMAIN stack[u] /\ ~(u = t /\ i = n)
      BY <1>4, <2>1
    <3>2. \/ stack'[u][i] = stack[u][i]
          \/ stack[u][i].kind = "send" /\ stack'[u][i].kind = "send"
      BY <2>1 DEF Replied
    <3> QED  BY <2>1, <3>1, <3>2 DEF Runs
  <2>2. CASE i \notin DOMAIN stack'[u]
    BY <1>4, <2>2 DEF Runs
  <2> QED  BY <2>1, <2>2
<1>6. Runs(t, n, s, p)
  BY <1>0 DEF Replied
<1>7. ASSUME NEW r \in Thread, NEW q \in Nat
      PROVE  Awaits(r, q)' <=> Awaits(r, q) /\ ~(r = s /\ q = p)
  <2>1. CASE q \in DOMAIN stack'[r]
    <3>1. q \in DOMAIN stack[r]
      BY <1>4, <2>1
    <3>2. \/ stack'[r][q] = stack[r][q] /\ ~(r = s /\ q = p)
          \/ r = s /\ q = p /\ stack'[r][q].ready = TRUE
      BY <2>1 DEF Replied
    <3> QED  BY <2>1, <3>1, <3>2 DEF Awaits
  <2>2. CASE q \notin DOMAIN stack'[r]
    <3>1. q \notin DOMAIN stack[r] \/ (r = t /\ q = n)
      BY <1>4, <2>2
    <3>2. ~Awaits(t, n)
      BY <1>6 DEF Runs, Awaits
    <3> QED  BY <2>2, <3>1, <3>2 DEF Awaits
  <2> QED  BY <2>1, <2>2
<1>8. AnswersAreAwaited'
  <2>1. ASSUME NEW u \in Thread, NEW r \in Thread, NEW i \in Nat, NEW q \in Nat,
               Queues(u, i, r, q)' \/ Runs(u, i, r, q)'
        PROVE  r # u /\ (Live(r)' => Awaits(r, q)')
    <3>1. Queues(u, i, r, q) \/ (Runs(u, i, r, q) /\ ~(u = t /\ i = n))
      BY <1>2, <1>5, <2>1 DEF SameQueues
    <3>2. r # u /\ (Live(r) => Awaits(r, q))
      BY <3>1 DEF Answering, AnswersAreAwaited
    <3>3. ~(r = s /\ q = p)
      BY <1>6, <3>1 DEF Answering, AnswersAreUnique
    <3> QED  BY <1>3, <1>7, <3>2, <3>3 DEF SameLives
  <2> QED  BY <2>1 DEF AnswersAreAwaited
<1>9. AnswersAreUnique'
  BY <1>2, <1>5 DEF AnswersAreUnique, SameQueues, Answering
<1>10. SendsAreAnswered'
  <2>1. ASSUME NEW r \in Thread, NEW q \in Nat, Awaits(r, q)'
        PROVE  \E u \in Thread : \E i \in Nat : Queues(u, i, r, q)' \/ Runs(u, i, r, q)'
    <3>1. Awaits(r, q) /\ ~(r = s /\ q = p)
      BY <1>7, <2>1
    <3>2. PICK u \in Thread, i \in Nat : Queues(u, i, r, q) \/ Runs(u, i, r, q)
      BY <3>1 DEF Answering, SendsAreAnswered
    <3>3. ~(Runs(t, n, r, q))
      BY <1>6, <3>1 DEF Runs
    <3> QED  BY <1>2, <1>5, <3>2, <3>3 DEF SameQueues
  <2> QED  BY <2>1 DEF SendsAreAnswered
<1>11. DeadAreEmpty'
  <2>1. ASSUME NEW u \in Thread, ~Live(u)'
        PROVE  stack'[u] = <<>> /\ invocations'[u] = <<>>
    <3>1. ~Live(u) /\ u # t
      BY <1>3, <2>1 DEF SameLives
    <3>2. stack[u] = <<>> /\ invocations[u] = <<>>
      BY <3>1 DEF Answering, DeadAreEmpty
    <3>3. Len(stack'[u]) = 0 /\ stack'[u] \in Seq(FrameType)
      BY <3>1, <3>2 DEF Replied
    <3> QED  BY <3>2, <3>3
  <2> QED  BY <2>1 DEF DeadAreEmpty
<1>12. FewerFrames(t) /\ FewerRuns(t) /\ FewerLives
  <2>1. FewerFrames(t)
    <3>1. ASSUME NEW u \in Thread
          PROVE  Len(stack'[u]) <= IF u = t THEN Len(stack[u]) + 1 ELSE Len(stack[u])
      <4>1. Len(stack'[u]) = IF u = t THEN Len(stack[t]) - 1 ELSE Len(stack[u])
        BY DEF Replied
      <4> QED  BY <4>1, FrameIndexes DEF Answering
    <3> QED  BY <3>1 DEF FewerFrames
  <2>2. FewerRuns(t)
    BY <1>5 DEF FewerRuns
  <2>3. FewerLives
    BY <1>3 DEF SameLives, FewerLives
  <2> QED  BY <2>1, <2>2, <2>3
<1>13. Aged'
  BY <1>12, AgesKept DEF Answering
<1> QED  BY <1>8, <1>9, <1>10, <1>11, <1>13 DEF Answering

(* A function on the first n numbers is a sequence of that length.         *)
LEMMA FunctionIsSequence ==
    ASSUME NEW S, NEW n \in Nat, NEW f \in [1 .. n -> S]
    PROVE  f \in Seq(S) /\ Len(f) = n
<1>1. f \in Seq(S)
  OBVIOUS
<1> QED  BY <1>1, LenProperties

(* The sends that v still has to answer.                                   *)
Owes(v, s, p) ==
    s # v /\ Live(s) /\ \E i \in Nat : Queues(v, i, s, p) \/ Runs(v, i, s, p)

(* OwedBy names exactly the sends that a terminated thread still has to    *)
(* answer.                                                                 *)
LEMMA OwedExactly ==
    ASSUME Answering, NEW v \in Thread
    PROVE  /\ \A f \in OwedBy(v) : f.sender \in Thread /\ f.place \in Nat
           /\ \A f \in OwedBy(v) : Owes(v, f.sender, f.place)
           /\ \A s \in Thread : \A p \in Nat : Owes(v, s, p) =>
                  \E f \in OwedBy(v) : f.sender = s /\ f.place = p
<1> DEFINE Active == {[sender |-> stack[v][i].sender, place |-> stack[v][i].place] : i \in Procs(v)}
           Waiting == {invocations[v][i] : i \in DOMAIN invocations[v]}
<1>1. \A f : f \in OwedBy(v) <=> f \in Active \cup Waiting /\ f.sender # v /\ Live(f.sender)
  BY DEF OwedBy
<1>2. ASSUME NEW i \in Procs(v)
      PROVE  /\ i \in Nat /\ stack[v][i].sender \in Thread /\ stack[v][i].place \in Nat
             /\ Runs(v, i, stack[v][i].sender, stack[v][i].place)
  <2>1. i \in DOMAIN stack[v] /\ stack[v][i].kind = "proc"
    BY DEF Procs
  <2>2. stack[v][i] \in FrameType /\ i \in Nat
    BY <2>1 DEF Answering, ThreadsTyped
  <2> QED  BY <2>1, <2>2, FrameFields DEF Runs
<1>3. ASSUME NEW i \in DOMAIN invocations[v]
      PROVE  /\ i \in Nat /\ invocations[v][i].sender \in Thread
             /\ invocations[v][i].place \in Nat
             /\ Queues(v, i, invocations[v][i].sender, invocations[v][i].place)
  BY QueueIndexes DEF Queues, Answering
<1>4. ASSUME NEW f \in OwedBy(v)
      PROVE  f.sender \in Thread /\ f.place \in Nat /\ Owes(v, f.sender, f.place)
  <2>1. f.sender # v /\ Live(f.sender)
    BY <1>1
  <2>2. CASE f \in Active
    <3>1. PICK i \in Procs(v) : f = [sender |-> stack[v][i].sender, place |-> stack[v][i].place]
      BY <2>2
    <3>2. f.sender = stack[v][i].sender /\ f.place = stack[v][i].place
      BY <3>1
    <3> QED  BY <1>2, <2>1, <3>2 DEF Owes
  <2>3. CASE f \in Waiting
    <3>1. PICK i \in DOMAIN invocations[v] : f = invocations[v][i]
      BY <2>3
    <3> QED  BY <1>3, <2>1, <3>1 DEF Owes
  <2> QED  BY <1>1, <2>2, <2>3
<1>5. ASSUME NEW s \in Thread, NEW p \in Nat, Owes(v, s, p)
      PROVE  \E f \in OwedBy(v) : f.sender = s /\ f.place = p
  <2>1. PICK i \in Nat : Queues(v, i, s, p) \/ Runs(v, i, s, p)
    BY <1>5 DEF Owes
  <2>2. s # v /\ Live(s)
    BY <1>5 DEF Owes
  <2>3. CASE Runs(v, i, s, p)
    <3> DEFINE f == [sender |-> stack[v][i].sender, place |-> stack[v][i].place]
    <3>1. i \in Procs(v) /\ f.sender = s /\ f.place = p
      BY <2>3 DEF Runs, Procs
    <3>2. f \in Active
      BY <3>1
    <3> HIDE DEF f, Active, Waiting
    <3> QED  BY <1>1, <2>2, <3>1, <3>2
  <2>4. CASE Queues(v, i, s, p)
    <3>1. i \in DOMAIN invocations[v] /\ invocations[v][i].sender = s /\ invocations[v][i].place = p
      BY <2>4 DEF Queues
    <3>2. invocations[v][i] \in Waiting
      BY <3>1
    <3> HIDE DEF Active, Waiting
    <3> QED  BY <1>1, <2>2, <3>1, <3>2
  <2> QED  BY <2>1, <2>3, <2>4
<1> QED  BY <1>4, <1>5

(* What is left when v ends: no frame and no send of its own, and the      *)
(* sends it owed answered.                                                 *)
Ended(v) ==
    /\ stack' \in [Thread -> Seq(FrameType)] /\ stack'[v] = <<>>
    /\ invocations' = [invocations EXCEPT ![v] = <<>>]
    /\ \A s \in Thread : s # v => DOMAIN stack'[s] = DOMAIN stack[s] /\ Len(stack'[s]) = Len(stack[s])
    /\ \A s \in Thread : \A i \in DOMAIN stack[s] : s # v =>
           IF Owes(v, s, i)
           THEN stack'[s][i].kind = "send" /\ stack'[s][i].ready = TRUE
           ELSE /\ stack'[s][i].kind = stack[s][i].kind
                /\ stack[s][i].kind # "call" => stack'[s][i] = stack[s][i]
    /\ state' \in [Thread -> ThreadStates]
    /\ \A s \in Thread : Live(s)' <=> Live(s) /\ s # v

(* TerminateThread and ExitThread end v in this way.                       *)
LEMMA EndFacts ==
    ASSUME Answering, NEW t \in Thread, NEW v \in Thread, Terminate(t, v)
    PROVE  Ended(v)
<1> DEFINE Answered(s) == {f.place : f \in {g \in OwedBy(v) : g.sender = s}}
           Dropped(s, i) == user = v /\ s = t /\ i \in Kept(s)
           After(s, i) ==
               IF i \in Answered(s) THEN [stack[s][i] EXCEPT !.ready = TRUE]
               ELSE IF Dropped(s, i) THEN [stack[s][i] EXCEPT !.held = FALSE] ELSE stack[s][i]
<1>1. /\ stack' = [s \in Thread |->
             IF s = v THEN <<>> ELSE [i \in DOMAIN stack[s] |-> After(s, i)]]
      /\ state' = [s \in Thread |->
             IF s = v THEN "Terminated"
             ELSE IF Answered(s) # {} THEN "Runnable" ELSE state[s]]
      /\ invocations' = [invocations EXCEPT ![v] = <<>>]
  BY DEF Terminate
<1>2. ASSUME NEW s \in Thread, NEW i \in Nat
      PROVE  i \in Answered(s) <=> Owes(v, s, i)
  BY OwedExactly
<1>3. ASSUME NEW s \in Thread, Answered(s) # {}
      PROVE  Live(s) /\ s # v
  BY <1>3, OwedExactly DEF Owes
<1> HIDE DEF Answered
<1>4. ASSUME NEW s \in Thread, NEW i \in DOMAIN stack[s]
      PROVE  /\ After(s, i) \in FrameType
             /\ IF Owes(v, s, i)
                THEN After(s, i).kind = "send" /\ After(s, i).ready = TRUE
                ELSE /\ After(s, i).kind = stack[s][i].kind
                     /\ stack[s][i].kind # "call" => After(s, i) = stack[s][i]
  <2> DEFINE f == stack[s][i]
  <2>1. f \in FrameType /\ i \in Nat
    BY DEF Answering, ThreadsTyped
  <2>2. CASE Owes(v, s, i)
    <3>1. Awaits(s, i)
      BY <2>1, <2>2 DEF Owes, Answering, AnswersAreAwaited
    <3>2. f.kind = "send"
      BY <3>1 DEF Awaits
    <3>3. After(s, i) = [f EXCEPT !.ready = TRUE]
      BY <1>2, <2>1, <2>2
    <3> QED  BY <2>1, <2>2, <3>2, <3>3, MarkedFrames
  <2>3. CASE ~Owes(v, s, i) /\ Dropped(s, i)
    <3>1. f.kind \in UserWaits \cup {"call"}
      BY <2>3 DEF Kept
    <3>2. After(s, i) = [f EXCEPT !.held = FALSE]
      BY <1>2, <2>1, <2>3
    <3>3. f.kind # "call" => [f EXCEPT !.held = FALSE] = f
      BY <2>1, <3>1, DroppedFrames
    <3> QED  BY <2>1, <2>3, <3>1, <3>2, <3>3, DroppedFrames
  <2>4. CASE ~Owes(v, s, i) /\ ~Dropped(s, i)
    <3>1. After(s, i) = f
      BY <1>2, <2>1, <2>4
    <3> QED  BY <2>1, <2>4, <3>1
  <2> QED  BY <2>2, <2>3, <2>4
<1> HIDE DEF After
<1>5. ASSUME NEW s \in Thread, s # v
      PROVE  /\ stack'[s] \in Seq(FrameType) /\ DOMAIN stack'[s] = DOMAIN stack[s]
             /\ Len(stack'[s]) = Len(stack[s])
             /\ \A i \in DOMAIN stack[s] : stack'[s][i] = After(s, i)
  <2>1. stack'[s] = [i \in DOMAIN stack[s] |-> After(s, i)]
    BY <1>1, <1>5
  <2>2. PICK n \in Nat : n = Len(stack[s]) /\ DOMAIN stack[s] = 1 .. n
    BY FrameIndexes DEF Answering
  <2>3. \A i \in 1 .. n : After(s, i) \in FrameType
    BY <1>4, <2>2
  <2>4. stack'[s] = [i \in 1 .. n |-> After(s, i)]
    BY <2>1, <2>2
  <2>5. stack'[s] \in [1 .. n -> FrameType]
    BY <2>3, <2>4
  <2>6. stack'[s] \in Seq(FrameType) /\ Len(stack'[s]) = n
    BY <2>5, FunctionIsSequence
  <2> QED  BY <2>1, <2>2, <2>6
<1>6. stack' \in [Thread -> Seq(FrameType)] /\ stack'[v] = <<>>
  <2>1. stack'[v] = <<>> /\ <<>> \in Seq(FrameType)
    BY <1>1
  <2>2. \A s \in Thread : stack'[s] \in Seq(FrameType)
    BY <1>5, <2>1
  <2>3. stack' = [s \in Thread |-> stack'[s]]
    BY <1>1
  <2> QED  BY <2>1, <2>2, <2>3
<1>7. state' \in [Thread -> ThreadStates] /\ \A s \in Thread : Live(s)' <=> Live(s) /\ s # v
  <2>1. state' \in [Thread -> ThreadStates]
    BY <1>1 DEF Answering, ThreadsTyped, ThreadStates
  <2>2. ASSUME NEW s \in Thread PROVE Live(s)' <=> Live(s) /\ s # v
    BY <1>1, <1>3 DEF Live
  <2> QED  BY <2>1, <2>2
<1> QED  BY <1>1, <1>4, <1>5, <1>6, <1>7 DEF Ended

(* The sends that v owed are answered, those that v waited for are gone    *)
(* with it, and every other is owed as before.                             *)
LEMMA EndedAnswers ==
    ASSUME Answering, ThreadsTyped', NEW v \in Thread, Ended(v)
    PROVE  Answering'
<1>1. ASSUME NEW u \in Thread, NEW s \in Thread, NEW i \in Nat, NEW p \in Nat
      PROVE  Queues(u, i, s, p)' <=> Queues(u, i, s, p) /\ u # v
  <2>1. CASE u = v
    <3>1. invocations'[u] = <<>>
      BY <2>1 DEF Ended, Answering, ThreadsTyped
    <3>2. DOMAIN invocations'[u] = {}
      BY <3>1
    <3> QED  BY <2>1, <3>2 DEF Queues
  <2>2. CASE u # v
    <3>1. invocations'[u] = invocations[u]
      BY <2>2 DEF Ended, Answering, ThreadsTyped
    <3> QED  BY <2>2, <3>1 DEF Queues
  <2> QED  BY <2>1, <2>2
<1>2. DOMAIN stack'[v] = {}
  <2>1. stack'[v] = <<>>
    BY DEF Ended
  <2> QED  BY <2>1
<1>3. ASSUME NEW s \in Thread, NEW p \in Nat, Owes(v, s, p)
      PROVE  p \in DOMAIN stack[s] /\ stack[s][p].kind = "send" /\ Awaits(s, p)
  <2>1. Awaits(s, p)
    BY <1>3 DEF Owes, Answering, AnswersAreAwaited
  <2> QED  BY <2>1 DEF Awaits
<1>4. ASSUME NEW u \in Thread, NEW s \in Thread, NEW i \in Nat, NEW p \in Nat
      PROVE  Runs(u, i, s, p)' <=> Runs(u, i, s, p) /\ u # v
  <2>1. CASE u = v
    BY <1>2, <2>1 DEF Runs
  <2>2. CASE u # v /\ i \notin DOMAIN stack[u]
    BY <2>2 DEF Runs, Ended
  <2>3. CASE u # v /\ i \in DOMAIN stack[u] /\ Owes(v, u, i)
    <3>1. stack[u][i].kind = "send" /\ stack'[u][i].kind = "send"
      BY <1>3, <2>3 DEF Ended
    <3> QED  BY <3>1 DEF Runs
  <2>4. CASE u # v /\ i \in DOMAIN stack[u] /\ ~Owes(v, u, i)
    <3>1. /\ DOMAIN stack'[u] = DOMAIN stack[u]
          /\ stack'[u][i].kind = stack[u][i].kind
          /\ stack[u][i].kind # "call" => stack'[u][i] = stack[u][i]
      BY <2>4 DEF Ended
    <3> QED  BY <2>4, <3>1 DEF Runs
  <2> QED  BY <2>1, <2>2, <2>3, <2>4
<1>5. ASSUME NEW s \in Thread, NEW p \in Nat
      PROVE  Awaits(s, p)' <=> Awaits(s, p) /\ s # v /\ ~Owes(v, s, p)
  <2>1. CASE s = v
    BY <1>2, <2>1 DEF Awaits
  <2>2. CASE s # v /\ p \notin DOMAIN stack[s]
    BY <2>2 DEF Awaits, Ended
  <2>3. CASE s # v /\ p \in DOMAIN stack[s] /\ Owes(v, s, p)
    <3>1. stack'[s][p].ready = TRUE
      BY <2>3 DEF Ended
    <3> QED  BY <2>3, <3>1 DEF Awaits
  <2>4. CASE s # v /\ p \in DOMAIN stack[s] /\ ~Owes(v, s, p)
    <3>1. /\ DOMAIN stack'[s] = DOMAIN stack[s]
          /\ stack'[s][p].kind = stack[s][p].kind
          /\ stack[s][p].kind # "call" => stack'[s][p] = stack[s][p]
      BY <2>4 DEF Ended
    <3> QED  BY <2>4, <3>1 DEF Awaits
  <2> QED  BY <2>1, <2>2, <2>3, <2>4
<1>6. \A u \in Thread : Live(u)' <=> Live(u) /\ u # v
  BY DEF Ended
<1>7. AnswersAreAwaited'
  <2>1. ASSUME NEW u \in Thread, NEW s \in Thread, NEW i \in Nat, NEW p \in Nat,
               Queues(u, i, s, p)' \/ Runs(u, i, s, p)'
        PROVE  s # u /\ (Live(s)' => Awaits(s, p)')
    <3>1. u # v /\ (Queues(u, i, s, p) \/ Runs(u, i, s, p))
      BY <1>1, <1>4, <2>1
    <3>2. s # u /\ (Live(s) => Awaits(s, p))
      BY <3>1 DEF Answering, AnswersAreAwaited
    <3>3. ~Owes(v, s, p)
      BY <3>1 DEF Owes, Answering, AnswersAreUnique
    <3> QED  BY <1>5, <1>6, <3>2, <3>3
  <2> QED  BY <2>1 DEF AnswersAreAwaited
<1>8. AnswersAreUnique'
  BY <1>1, <1>4 DEF AnswersAreUnique, Answering
<1>9. SendsAreAnswered'
  <2>1. ASSUME NEW s \in Thread, NEW p \in Nat, Awaits(s, p)'
        PROVE  \E u \in Thread : \E i \in Nat : Queues(u, i, s, p)' \/ Runs(u, i, s, p)'
    <3>1. Awaits(s, p) /\ s # v /\ ~Owes(v, s, p)
      BY <1>5, <2>1
    <3>2. PICK u \in Thread, i \in Nat : Queues(u, i, s, p) \/ Runs(u, i, s, p)
      BY <3>1 DEF Answering, SendsAreAnswered
    <3>3. Live(s)
      <4>1. stack[s] # <<>>
        BY <3>1 DEF Awaits
      <4> QED  BY <4>1 DEF Answering, DeadAreEmpty
    <3>4. u # v
      BY <3>1, <3>2, <3>3 DEF Owes
    <3> QED  BY <1>1, <1>4, <3>2, <3>4
  <2> QED  BY <2>1 DEF SendsAreAnswered
<1>10. DeadAreEmpty'
  <2>1. ASSUME NEW u \in Thread, ~Live(u)'
        PROVE  stack'[u] = <<>> /\ invocations'[u] = <<>>
    <3>1. CASE u = v
      BY <3>1 DEF Ended, Answering, ThreadsTyped
    <3>2. CASE u # v
      <4>1. stack[u] = <<>> /\ invocations[u] = <<>>
        BY <1>6, <2>1, <3>2 DEF Answering, DeadAreEmpty
      <4>2. Len(stack'[u]) = 0 /\ stack'[u] \in Seq(FrameType)
        BY <3>2, <4>1 DEF Ended
      <4>3. invocations'[u] = invocations[u]
        BY <3>2 DEF Ended, Answering, ThreadsTyped
      <4> QED  BY <4>1, <4>2, <4>3
    <3> QED  BY <3>1, <3>2
  <2> QED  BY <2>1 DEF DeadAreEmpty
<1>11. FewerFrames(v) /\ FewerRuns(v) /\ FewerLives
  <2>1. FewerFrames(v)
    <3>1. ASSUME NEW u \in Thread
          PROVE  Len(stack'[u]) <= IF u = v THEN Len(stack[u]) + 1 ELSE Len(stack[u])
      <4>1. Len(stack'[u]) = IF u = v THEN 0 ELSE Len(stack[u])
        BY DEF Ended
      <4> QED  BY <4>1, FrameIndexes DEF Answering
    <3> QED  BY <3>1 DEF FewerFrames
  <2>2. FewerRuns(v)
    BY <1>4 DEF FewerRuns
  <2>3. FewerLives
    BY <1>6 DEF FewerLives
  <2> QED  BY <2>1, <2>2, <2>3
<1>12. Aged'
  BY <1>11, AgesKept DEF Answering
<1> QED  BY <1>7, <1>8, <1>9, <1>10, <1>12 DEF Answering

(* A message wait is only ever the innermost frame of its thread.          *)
MessageWaitsOnTop ==
    \A t \in Thread : \A i \in DOMAIN stack[t] :
        stack[t][i].kind = "msgwait" => i = Len(stack[t])

(* Unless a call that failed closed it, a thread with a user32 wait among  *)
(* its frames lets sends in.                                               *)
HasWait(t) == \E i \in DOMAIN stack[t] : stack[t][i].kind \in UserWaits
WaitsAreOpen == \A t \in Thread : HasWait(t) => dispatch[t] \/ t \in muted

(* A thread is chosen for the rest of a pass only while it lives.          *)
ChosenLives == phase = "enter" => Live(current)

(* The inductive invariant.                                                *)
SendsInv ==
    /\ TypeOK /\ Answering
    /\ SentQueueExact /\ NoSleepOverSend
    /\ MessageWaitsOnTop /\ WaitsAreOpen /\ ChosenLives

(* The frames of the other threads stay.                                   *)
OthersStay(t) == \A u \in Thread : u # t => stack'[u] = stack[u]

(* What the change of the frames on top of t means for the stacks.         *)
Tops(t) ==
    /\ stack' \in [Thread -> Seq(FrameType)]
    /\ \E n : TopChanged(t, n)
    /\ MessageWaitsOnTop'

(* A frame pushed on t, when no message wait is on top of it.              *)
LEMMA PushFrames ==
    ASSUME Answering, MessageWaitsOnTop, NEW t \in Thread,
           NEW f \in FrameType, Frame(t) # "msgwait", stack' = Push(t, f)
    PROVE  /\ stack' \in [Thread -> Seq(FrameType)] /\ OthersStay(t)
           /\ Len(stack'[t]) = Len(stack[t]) + 1 /\ stack'[t][Len(stack[t]) + 1] = f
           /\ \A i \in 1 .. Len(stack[t]) : stack'[t][i] = stack[t][i]
           /\ MessageWaitsOnTop' /\ Frame(t)' = f.kind /\ Last(stack[t])' = f
           /\ HasWait(t)' => HasWait(t) \/ f.kind \in UserWaits
<1>1. PICK n \in Nat : n = Len(stack[t]) /\ DOMAIN stack[t] = 1 .. n
  BY FrameIndexes DEF Answering
<1> DEFINE new == Append(stack[t], f)
<1>2. /\ new \in Seq(FrameType) /\ Len(new) = n + 1 /\ new[n + 1] = f /\ new # <<>>
      /\ \A i \in 1 .. n : new[i] = stack[t][i]
      /\ DOMAIN new = 1 .. n + 1
  BY <1>1, AppendProperties DEF Answering, ThreadsTyped
<1>3. /\ stack' \in [Thread -> Seq(FrameType)] /\ stack'[t] = new
      /\ \A u \in Thread : u # t => stack'[u] = stack[u]
  BY <1>2 DEF Push, Answering, ThreadsTyped
<1> HIDE DEF new
<1>5. \A i \in 1 .. n : stack[t][i].kind # "msgwait"
  <2>1. ASSUME NEW i \in 1 .. n, stack[t][i].kind = "msgwait" PROVE FALSE
    <3>1. i = n
      BY <1>1, <2>1 DEF MessageWaitsOnTop
    <3>2. stack[t] # <<>> /\ Last(stack[t]) = stack[t][n]
      BY <1>1 DEF Last
    <3> QED  BY <2>1, <3>1, <3>2 DEF Frame
  <2> QED  BY <2>1
<1>6. MessageWaitsOnTop'
  <2>1. ASSUME NEW u \in Thread, NEW i \in DOMAIN stack'[u], stack'[u][i].kind = "msgwait"
        PROVE  i = Len(stack'[u])
    <3>1. CASE u = t
      <4>1. i = n + 1
        BY <1>1, <1>2, <1>3, <1>5, <2>1, <3>1
      <4> QED  BY <1>2, <1>3, <3>1, <4>1
    <3>2. CASE u # t
      BY <1>3, <2>1, <3>2 DEF MessageWaitsOnTop
    <3> QED  BY <3>1, <3>2
  <2> QED  BY <2>1 DEF MessageWaitsOnTop
<1>7. Frame(t)' = f.kind /\ Last(stack[t])' = f
  BY <1>2, <1>3 DEF Frame, Last
<1>8. HasWait(t)' => HasWait(t) \/ f.kind \in UserWaits
  <2>1. ASSUME NEW i \in DOMAIN stack'[t], stack'[t][i].kind \in UserWaits
        PROVE  HasWait(t) \/ f.kind \in UserWaits
    <3>1. i = n + 1 \/ (i \in DOMAIN stack[t] /\ stack'[t][i] = stack[t][i])
      BY <1>1, <1>2, <1>3
    <3> QED  BY <1>2, <1>3, <2>1, <3>1 DEF HasWait
  <2> QED  BY <2>1 DEF HasWait
<1> QED  BY <1>1, <1>2, <1>3, <1>6, <1>7, <1>8 DEF OthersStay

(* Such a frame, unless it is a send or a procedure, changes the top of t  *)
(* only.                                                                   *)
LEMMA PushTops ==
    ASSUME Answering, MessageWaitsOnTop, NEW t \in Thread,
           NEW f \in FrameType, f.kind \notin {"proc", "send"}, Frame(t) # "msgwait",
           stack' = Push(t, f)
    PROVE  /\ Tops(t) /\ Frame(t)' = f.kind /\ Last(stack[t])' = f
           /\ HasWait(t)' => HasWait(t) \/ f.kind \in UserWaits
<1>1. PICK n \in Nat : n = Len(stack[t]) /\ DOMAIN stack[t] = 1 .. n
  BY FrameIndexes DEF Answering
<1>2. /\ stack' \in [Thread -> Seq(FrameType)] /\ OthersStay(t)
      /\ Len(stack'[t]) = n + 1 /\ stack'[t][n + 1] = f
      /\ \A i \in 1 .. n : stack'[t][i] = stack[t][i]
      /\ MessageWaitsOnTop' /\ Frame(t)' = f.kind /\ Last(stack[t])' = f
      /\ HasWait(t)' => HasWait(t) \/ f.kind \in UserWaits
  BY <1>1, PushFrames
<1>3. DOMAIN stack'[t] = 1 .. n + 1
  BY <1>2
<1>4. TopChanged(t, n)
  <2>1. \A i \in DOMAIN stack'[t] : i > n => stack'[t][i].kind \notin {"proc", "send"}
    BY <1>2, <1>3
  <2>2. \A i \in DOMAIN stack[t] : ~(i > n)
    BY <1>1
  <2> QED  BY <1>1, <1>2, <2>1, <2>2 DEF TopChanged, OthersStay
<1> QED  BY <1>2, <1>4 DEF Tops

(* A frame that ends takes no answer with it, unless it is a procedure.    *)
Endable(t) == stack[t] # <<>> /\ Frame(t) # "proc" /\ (Frame(t) = "send" => Last(stack[t]).ready)

(* So does the end of a call, of a wait or of a send that was answered.    *)
LEMMA PopTops ==
    ASSUME Answering, MessageWaitsOnTop, NEW t \in Thread, Endable(t),
           stack' = Pop(t)
    PROVE  /\ Tops(t) /\ Frame(t)' # "msgwait"
           /\ HasWait(t)' => HasWait(t)
<1> DEFINE new == Front(stack[t])
<1>1. PICK n \in Nat : n = Len(stack[t]) - 1 /\ DOMAIN stack[t] = 1 .. n + 1
  <2>1. Len(stack[t]) \in Nat \ {0}
    BY FrontOf DEF Answering, ThreadsTyped, Endable
  <2>2. Len(stack[t]) - 1 \in Nat /\ (Len(stack[t]) - 1) + 1 = Len(stack[t])
    BY <2>1
  <2> QED  BY <2>2, FrameIndexes DEF Answering
<1>2. /\ new \in Seq(FrameType) /\ Len(new) = n
      /\ \A i \in 1 .. n : new[i] = stack[t][i]
      /\ Last(stack[t]) = stack[t][n + 1] /\ Len(stack[t]) = n + 1
  <2>1. Len(stack[t]) = n + 1
    BY <1>1, FrameIndexes DEF Answering
  <2> QED  BY <1>1, <2>1, FrontOf DEF Answering, ThreadsTyped, Endable
<1>3. DOMAIN new = 1 .. n
  BY <1>2
<1>4. /\ stack' \in [Thread -> Seq(FrameType)] /\ stack'[t] = new
      /\ \A u \in Thread : u # t => stack'[u] = stack[u]
  BY <1>2 DEF Pop, Answering, ThreadsTyped
<1> HIDE DEF new
<1>5. stack[t][n + 1].kind # "proc" /\ ~Awaits(t, n + 1)
  BY <1>2 DEF Endable, Frame, Awaits
<1>6. TopChanged(t, n)
  <2>1. \A i \in DOMAIN stack[t] : i > n => i = n + 1
    BY <1>1
  <2>2. \A i \in DOMAIN stack'[t] : ~(i > n)
    BY <1>3, <1>4
  <2> QED  BY <1>1, <1>2, <1>4, <1>5, <2>1, <2>2 DEF TopChanged
<1>7. \A i \in 1 .. n : stack[t][i].kind # "msgwait"
  BY <1>1, <1>2 DEF MessageWaitsOnTop
<1>8. MessageWaitsOnTop'
  <2>1. ASSUME NEW u \in Thread, NEW i \in DOMAIN stack'[u], stack'[u][i].kind = "msgwait"
        PROVE  i = Len(stack'[u])
    <3>1. u # t
      BY <1>2, <1>3, <1>4, <1>7, <2>1
    <3> QED  BY <1>4, <2>1, <3>1 DEF MessageWaitsOnTop
  <2> QED  BY <2>1 DEF MessageWaitsOnTop
<1>9. Frame(t)' # "msgwait"
  <2>1. CASE stack'[t] = <<>>
    BY <2>1 DEF Frame
  <2>2. CASE stack'[t] # <<>>
    <3>1. n # 0
      BY <1>2, <1>4, <2>2
    <3>2. n \in 1 .. n
      BY <3>1
    <3>3. Last(stack'[t]) = stack[t][n]
      BY <1>2, <1>4, <3>2 DEF Last
    <3> QED  BY <1>7, <2>2, <3>2, <3>3 DEF Frame
  <2> QED  BY <2>1, <2>2
<1>10. HasWait(t)' => HasWait(t)
  <2>1. ASSUME NEW i \in DOMAIN stack'[t], stack'[t][i].kind \in UserWaits
        PROVE  HasWait(t)
    <3>1. i \in DOMAIN stack[t] /\ stack'[t][i] = stack[t][i]
      BY <1>1, <1>2, <1>3, <1>4
    <3> QED  BY <2>1, <3>1 DEF HasWait
  <2> QED  BY <2>1 DEF HasWait
<1> QED  BY <1>4, <1>6, <1>8, <1>9, <1>10 DEF Tops

(* A retrieval or a wait goes on as a wait.                                *)
LEMMA WaitTops ==
    ASSUME Answering, MessageWaitsOnTop, NEW t \in Thread,
           Frame(t) \in {"retrieve", "wait"},
           stack' = [stack EXCEPT ![t] = Append(Front(stack[t]), [kind |-> "wait"])]
    PROVE  Tops(t) /\ Frame(t)' # "msgwait" /\ HasWait(t)
<1> DEFINE f == [kind |-> "wait"]
           new == Append(Front(stack[t]), f)
<1>0. stack[t] # <<>>
  BY DEF Frame
<1>1. PICK n \in Nat : n = Len(stack[t]) - 1 /\ DOMAIN stack[t] = 1 .. n + 1 /\ Len(stack[t]) = n + 1
  <2>1. Len(stack[t]) \in Nat \ {0}
    BY <1>0, FrontOf DEF Answering, ThreadsTyped
  <2>2. Len(stack[t]) - 1 \in Nat /\ (Len(stack[t]) - 1) + 1 = Len(stack[t])
    BY <2>1
  <2> QED  BY <2>2, FrameIndexes DEF Answering
<1>2. /\ Front(stack[t]) \in Seq(FrameType) /\ Len(Front(stack[t])) = n
      /\ \A i \in 1 .. n : Front(stack[t])[i] = stack[t][i]
      /\ Last(stack[t]) = stack[t][n + 1]
  <2>1. stack[t] \in Seq(FrameType)
    BY DEF Answering, ThreadsTyped
  <2>2. /\ Front(stack[t]) \in Seq(FrameType) /\ Len(Front(stack[t])) = Len(stack[t]) - 1
        /\ \A i \in 1 .. Len(stack[t]) - 1 : Front(stack[t])[i] = stack[t][i]
        /\ Last(stack[t]) = stack[t][Len(stack[t])]
    BY <1>0, <2>1, FrontOf
  <2> QED  BY <1>1, <2>2
<1>3. f \in FrameType /\ f.kind = "wait"
  BY NewFrames
<1> HIDE DEF f
<1>4. /\ new \in Seq(FrameType) /\ Len(new) = n + 1 /\ new[n + 1] = f /\ new # <<>>
      /\ \A i \in 1 .. n : new[i] = Front(stack[t])[i]
      /\ DOMAIN new = 1 .. n + 1
  BY <1>2, <1>3, AppendProperties
<1>5. /\ stack' \in [Thread -> Seq(FrameType)] /\ stack'[t] = new
      /\ \A u \in Thread : u # t => stack'[u] = stack[u]
  BY <1>4 DEF Answering, ThreadsTyped, f
<1> HIDE DEF new
<1>6. /\ stack[t][n + 1].kind \in {"retrieve", "wait"}
      /\ ~Awaits(t, n + 1)
  BY <1>0, <1>2 DEF Frame, Awaits
<1>7. TopChanged(t, n)
  <2>1. \A i \in DOMAIN stack[t] : i > n => i = n + 1
    BY <1>1
  <2>2. \A i \in DOMAIN stack'[t] : i > n => i = n + 1
    BY <1>4, <1>5
  <2>3. \A i \in DOMAIN stack'[t] : i > n => stack'[t][i].kind \notin {"proc", "send"}
    BY <1>3, <1>4, <1>5, <2>2
  <2>4. \A i \in DOMAIN stack[t] : i > n => stack[t][i].kind # "proc" /\ ~Awaits(t, i)
    BY <1>6, <2>1
  <2>5. \A i \in 1 .. n : stack'[t][i] = stack[t][i]
    BY <1>2, <1>4, <1>5
  <2> QED  BY <1>1, <1>4, <1>5, <2>3, <2>4, <2>5 DEF TopChanged
<1>8. \A i \in 1 .. n : stack[t][i].kind # "msgwait"
  BY <1>1 DEF MessageWaitsOnTop
<1>9. MessageWaitsOnTop'
  <2>1. ASSUME NEW u \in Thread, NEW i \in DOMAIN stack'[u], stack'[u][i].kind = "msgwait"
        PROVE  i = Len(stack'[u])
    <3>1. CASE u = t
      <4>1. i = n + 1
        BY <1>2, <1>4, <1>5, <1>8, <2>1, <3>1
      <4> QED  BY <1>4, <1>5, <3>1, <4>1
    <3>2. CASE u # t
      BY <1>5, <2>1, <3>2 DEF MessageWaitsOnTop
    <3> QED  BY <3>1, <3>2
  <2> QED  BY <2>1 DEF MessageWaitsOnTop
<1>10. Frame(t)' = "wait"
  BY <1>3, <1>4, <1>5 DEF Frame, Last
<1>11. HasWait(t)
  <2>1. n + 1 \in DOMAIN stack[t]
    BY <1>1
  <2> QED  BY <1>6, <2>1 DEF HasWait, UserWaits
<1> QED  BY <1>5, <1>7, <1>9, <1>10, <1>11 DEF Tops

(* A change of the top of t keeps the relation between sends and answers.  *)
LEMMA TopsAnswers ==
    ASSUME Answering, NEW t \in Thread, Tops(t), Live(t),
           UNCHANGED invocations, SameLives, state' \in [Thread -> ThreadStates]
    PROVE  Answering'
<1>1. ThreadsTyped'
  BY DEF Tops, ThreadsTyped, Answering
<1>2. PICK n : TopChanged(t, n)
  BY DEF Tops
<1> QED  BY <1>1, <1>2, TopChangedAnswers

(* It leaves the frames of the other threads alone.                        *)
LEMMA TopsOthers ==
    ASSUME NEW t, Tops(t) PROVE OthersStay(t)
  BY DEF Tops, TopChanged, OthersStay

(* A call that observes the queue of t leaves nothing unseen.              *)
LEMMA ObserveKeeps ==
    ASSUME TypeOK, SentQueueExact, NoSleepOverSend, NEW t \in Thread,
           Observe(t), UNCHANGED invocations, OthersStay(t)
    PROVE  /\ sent' \in [Thread -> [count : Nat, fresh : BOOLEAN]]
           /\ row' \in [Thread -> [current : BOOLEAN, fresh : BOOLEAN]]
           /\ SentQueueExact' /\ NoSleepOverSend'
<1> DEFINE s == [sent[t] EXCEPT !.fresh = FALSE]
<1>1. /\ sent[t] \in [count : Nat, fresh : BOOLEAN]
      /\ s \in [count : Nat, fresh : BOOLEAN]
      /\ s.count = sent[t].count /\ s.fresh = FALSE
  BY DEF TypeOK
<1>2. /\ sent' \in [Thread -> [count : Nat, fresh : BOOLEAN]]
      /\ sent'[t] = s
      /\ \A u \in Thread : u # t => sent'[u] = sent[u]
  BY <1>1 DEF Observe, TypeOK
<1> HIDE DEF s
<1>3. Status(s) \in [current : BOOLEAN, fresh : BOOLEAN] /\ Status(s).fresh = FALSE
  BY <1>1 DEF Status
<1>4. /\ row' \in [Thread -> [current : BOOLEAN, fresh : BOOLEAN]]
      /\ row'[t] = Status(s)
      /\ \A u \in Thread : u # t => row'[u] = row[u]
  BY <1>2, <1>3 DEF Observe, TypeOK
<1>5. SentQueueExact'
  <2>1. ASSUME NEW u \in Thread
        PROVE  /\ sent'[u].count = Len(invocations'[u])
               /\ sent'[u].fresh => sent'[u].count > 0
               /\ row'[u] = Status(sent'[u])
    BY <1>1, <1>2, <1>4 DEF SentQueueExact
  <2>2. \A u \in Thread : Status(sent[u])' = Status(sent'[u])
    BY DEF Status
  <2> QED  BY <2>1, <2>2 DEF SentQueueExact
<1>6. NoSleepOverSend'
  <2>1. ASSUME NEW u \in Thread, Frame(u)' = "msgwait", ~Last(stack[u])'.woken
        PROVE  ~row'[u].fresh
    <3>1. CASE u = t
      BY <1>3, <1>4, <3>1
    <3>2. CASE u # t
      <4>1. Frame(u) = "msgwait" /\ ~Last(stack[u]).woken
        BY <2>1, <3>2 DEF OthersStay, Frame
      <4> QED  BY <1>4, <3>2, <4>1 DEF NoSleepOverSend
    <3> QED  BY <3>1, <3>2
  <2> QED  BY <2>1 DEF NoSleepOverSend
<1> QED  BY <1>2, <1>4, <1>5, <1>6

(* A step that changes no status and puts no message wait on top keeps the *)
(* status exact.                                                           *)
LEMMA UnobservedKeeps ==
    ASSUME SentQueueExact, NoSleepOverSend, NEW t \in Thread,
           UNCHANGED <<sent, row, invocations>>, OthersStay(t),
           Frame(t)' # "msgwait" \/ stack'[t] = stack[t]
    PROVE  SentQueueExact' /\ NoSleepOverSend'
<1>1. SentQueueExact'
  BY DEF SentQueueExact, Status
<1>2. ASSUME NEW u \in Thread, Frame(u)' = "msgwait", ~Last(stack[u])'.woken
      PROVE  ~row'[u].fresh
  <2>1. stack'[u] = stack[u]
    BY <1>2 DEF OthersStay
  <2>2. Frame(u) = "msgwait" /\ ~Last(stack[u]).woken
    BY <1>2, <2>1 DEF Frame
  <2> QED  BY <2>2 DEF NoSleepOverSend
<1> QED  BY <1>1, <1>2 DEF NoSleepOverSend

(* Only t may get a first user32 wait.                                     *)
OthersWait(t) == \A u \in Thread : u # t => (HasWait(u)' => HasWait(u))

(* No other thread gets a wait where their frames stay.                    *)
LEMMA StayingWait ==
    ASSUME NEW t, OthersStay(t) PROVE OthersWait(t)
  BY DEF OthersStay, OthersWait, HasWait

(* The end of a message call opens the waits of t or remembers why not.    *)
LEMMA EndCallKeeps ==
    ASSUME TypeOK, WaitsAreOpen, NEW t \in Thread, NEW ok \in BOOLEAN,
           EndMessageCall(t, ok), OthersWait(t), HasWait(t)' => HasWait(t) \/ ok
    PROVE  /\ WaitsAreOpen'
           /\ dispatch' \in [Thread -> BOOLEAN] /\ muted' \subseteq Thread
<1>1. /\ dispatch' \in [Thread -> BOOLEAN] /\ dispatch'[t] = ok
      /\ \A u \in Thread : u # t => dispatch'[u] = dispatch[u]
  BY DEF EndMessageCall, TypeOK
<1>2. /\ muted' \subseteq Thread
      /\ \A u \in Thread : u # t => (u \in muted' <=> u \in muted)
      /\ ~ok /\ HasWait(t) => t \in muted'
  BY DEF EndMessageCall, TypeOK, HasWait
<1>3. ASSUME NEW u \in Thread, HasWait(u)'
      PROVE  dispatch'[u] \/ u \in muted'
  <2>1. CASE u = t
    BY <1>1, <1>2, <1>3, <2>1
  <2>2. CASE u # t
    BY <1>1, <1>2, <1>3, <2>2 DEF WaitsAreOpen, OthersWait
  <2> QED  BY <2>1, <2>2
<1> QED  BY <1>1, <1>2, <1>3 DEF WaitsAreOpen

(* Without such a call no thread may get a first wait.                     *)
LEMMA NoCallKeepsOpen ==
    ASSUME WaitsAreOpen, NEW t \in Thread, UNCHANGED dispatch,
           \A u \in Thread : u \in muted => u \in muted' \/ ~HasWait(u)',
           OthersWait(t), HasWait(t)' => HasWait(t)
    PROVE  WaitsAreOpen'
<1>1. ASSUME NEW u \in Thread, HasWait(u)'
      PROVE  dispatch'[u] \/ u \in muted'
  <2>1. HasWait(u)
    BY <1>1 DEF OthersWait
  <2> QED  BY <1>1, <2>1 DEF WaitsAreOpen
<1> QED  BY <1>1 DEF WaitsAreOpen

(* A thread that executes lives and does not wait.                         *)
LEMMA ExecutingLives ==
    ASSUME NEW t, Executing(t)
    PROVE  /\ Live(t) /\ Frame(t) \notin Waits /\ phase = "idle"
           /\ Frame(t) # "msgwait" /\ Frame(t) # "send"
           /\ Frame(t) # "retrieve" /\ Frame(t) # "wait"
  BY DEF Executing, Live, Waits, UserWaits

(* A message is taken, or t waits for one, on top of its stack.            *)
LEMMA RetrievedTypes ==
    ASSUME TypeOK, NEW t \in Thread, NEW base, NEW blocking, Retrieved(t, base, blocking)
    PROVE  /\ Observe(t) /\ posted' \in [Thread -> Nat]
           /\ \/ /\ stack' = [stack EXCEPT ![t] = base]
                 /\ posted[t] > 0 \/ ~blocking
              \/ /\ stack' = [stack EXCEPT ![t] = Append(base, [kind |-> "wait"])]
                 /\ blocking
<1>1. CASE posted[t] > 0
  <2>1. posted[t] - 1 \in Nat
    BY <1>1 DEF TypeOK
  <2> QED  BY <1>1, <2>1 DEF Retrieved, TypeOK
<1>2. CASE ~(posted[t] > 0)
  BY <1>2 DEF Retrieved, TypeOK
<1> QED  BY <1>1, <1>2

(* The end of a wait changes the top of its thread, and the status of its  *)
(* queue at most.                                                          *)
LEMMA EndWaitKeeps ==
    ASSUME SendsInv, NEW t \in Thread, Ready(t), EndWait(t), UNCHANGED invocations
    PROVE  /\ Tops(t) /\ Live(t) /\ (HasWait(t)' => HasWait(t))
           /\ user' \in Thread \cup {NoThread}
           /\ posted' \in [Thread -> Nat]
           /\ sent' \in [Thread -> [count : Nat, fresh : BOOLEAN]]
           /\ row' \in [Thread -> [current : BOOLEAN, fresh : BOOLEAN]]
           /\ SentQueueExact' /\ NoSleepOverSend'
<1> DEFINE f == Last(stack[t])
<1>0. /\ TypeOK /\ Answering /\ SentQueueExact /\ NoSleepOverSend /\ MessageWaitsOnTop
      /\ user \in Thread \cup {NoThread} /\ posted \in [Thread -> Nat]
      /\ sent \in [Thread -> [count : Nat, fresh : BOOLEAN]]
      /\ row \in [Thread -> [current : BOOLEAN, fresh : BOOLEAN]]
  BY DEF SendsInv, TypeOK
<1>1. /\ Frame(t) = f.kind /\ f.kind \in {"send", "retrieve", "wait", "msgwait"}
      /\ stack[t] # <<>>
      /\ f.kind = "send" => f.ready
  BY DEF Ready, Frame
<1>2. Live(t)
  BY <1>0, <1>1 DEF Answering, DeadAreEmpty
<1>3. CASE f.kind = "msgwait"
  <2>1. stack' = Pop(t) /\ Observe(t) /\ UNCHANGED <<user, posted>>
    BY <1>3 DEF EndWait
  <2>2. Tops(t) /\ (HasWait(t)' => HasWait(t))
    BY <1>0, <1>1, <1>3, <2>1, PopTops DEF Endable
  <2> QED  BY <1>0, <1>2, <2>1, <2>2, ObserveKeeps, TopsOthers
<1>4. CASE f.kind = "send"
  <2>1. stack' = Pop(t) /\ UNCHANGED <<user, sent, row, posted>>
    BY <1>4 DEF EndWait
  <2>2. Tops(t) /\ (HasWait(t)' => HasWait(t)) /\ Frame(t)' # "msgwait"
    BY <1>0, <1>1, <1>4, <2>1, PopTops DEF Endable
  <2> QED  BY <1>0, <1>2, <2>1, <2>2, UnobservedKeeps, TopsOthers
<1>5. CASE f.kind \in {"retrieve", "wait"}
  <2>1. \E blocking : Retrieved(t, Front(stack[t]), blocking)
    BY <1>5 DEF EndWait
  <2>2. /\ Observe(t) /\ posted' \in [Thread -> Nat]
        /\ \/ stack' = [stack EXCEPT ![t] = Front(stack[t])]
           \/ stack' = [stack EXCEPT ![t] = Append(Front(stack[t]), [kind |-> "wait"])]
    BY <1>0, <2>1, RetrievedTypes
  <2>3. user' \in Thread \cup {NoThread}
    BY <1>0, <1>5 DEF EndWait
  <2>4. Tops(t) /\ (HasWait(t)' => HasWait(t))
    <3>1. CASE stack' = [stack EXCEPT ![t] = Front(stack[t])]
      BY <1>0, <1>1, <1>5, <3>1, PopTops DEF Endable, Pop
    <3>2. CASE stack' = [stack EXCEPT ![t] = Append(Front(stack[t]), [kind |-> "wait"])]
      BY <1>0, <1>1, <1>5, <3>2, WaitTops
    <3> QED  BY <2>2, <3>1, <3>2
  <2> QED  BY <1>0, <1>2, <2>2, <2>3, <2>4, ObserveKeeps, TopsOthers
<1> QED  BY <1>1, <1>3, <1>4, <1>5

(* What the resumption of t, or its refusal, keeps.                        *)
Resumed(t) ==
    /\ (Tops(t) /\ Live(t)) \/ UNCHANGED stack
    /\ HasWait(t)' => HasWait(t)
    /\ user' \in Thread \cup {NoThread}
    /\ posted' \in [Thread -> Nat]
    /\ sent' \in [Thread -> [count : Nat, fresh : BOOLEAN]]
    /\ row' \in [Thread -> [current : BOOLEAN, fresh : BOOLEAN]]
    /\ SentQueueExact' /\ NoSleepOverSend'

(* So does a resumption of the scheduler, which may also leave the wait    *)
(* alone.                                                                  *)
LEMMA ResumeReadyKeeps ==
    ASSUME SendsInv, NEW t \in Thread, ResumeReady(t), UNCHANGED invocations
    PROVE  Resumed(t)
<1>1. CASE Ready(t) /\ (Frame(t) = "msgwait" \/ ~HasSends(t))
  <2>1. EndWait(t)
    BY <1>1 DEF ResumeReady
  <2> QED  BY <1>1, <2>1, EndWaitKeeps DEF Resumed
<1>2. CASE ~(Ready(t) /\ (Frame(t) = "msgwait" \/ ~HasSends(t)))
  <2>1. UNCHANGED <<stack, user, sent, row, posted>>
    BY <1>2 DEF ResumeReady
  <2>2. SentQueueExact' /\ NoSleepOverSend'
    BY <2>1, UnobservedKeeps DEF SendsInv, OthersStay
  <2>3. HasWait(t)' => HasWait(t)
    BY <2>1 DEF HasWait
  <2> QED  BY <2>1, <2>2, <2>3 DEF Resumed, SendsInv, TypeOK
<1> QED  BY <1>1, <1>2

(* A resumption by the scheduler, whatever it does to the states of the    *)
(* threads that live.                                                      *)
LEMMA ResumedInv ==
    ASSUME SendsInv, NEW t \in Thread, Resumed(t), SameLives,
           state' \in [Thread -> ThreadStates],
           phase' \in {"idle", "select"}, UNCHANGED <<current, invocations, dispatch, muted>>
    PROVE  SendsInv'
<1>1. Answering' /\ MessageWaitsOnTop' /\ WaitsAreOpen'
  <2>1. CASE Tops(t) /\ Live(t)
    <3>1. Answering'
      BY <2>1, TopsAnswers DEF SendsInv
    <3>2. MessageWaitsOnTop'
      BY <2>1 DEF Tops
    <3>3. WaitsAreOpen'
      BY <2>1, TopsOthers, StayingWait, NoCallKeepsOpen DEF SendsInv, Resumed
    <3> QED  BY <3>1, <3>2, <3>3
  <2>2. CASE UNCHANGED stack
    <3>1. ThreadsTyped'
      BY <2>2 DEF SendsInv, Answering, ThreadsTyped
    <3>2. Answering'
      BY <2>2, <3>1, SameStacksAnswer DEF SendsInv
    <3>3. MessageWaitsOnTop'
      BY <2>2 DEF SendsInv, MessageWaitsOnTop
    <3>4. WaitsAreOpen'
      BY <2>2, StayingWait, NoCallKeepsOpen DEF SendsInv, Resumed, OthersStay
    <3> QED  BY <3>2, <3>3, <3>4
  <2> QED  BY <2>1, <2>2 DEF Resumed
<1>2. TypeOK'
  BY <1>1 DEF Resumed, SendsInv, TypeOK, Answering, ThreadsTyped, ThreadStates, Invocation
<1>3. ChosenLives'
  BY DEF ChosenLives
<1> QED  BY <1>1, <1>2, <1>3 DEF SendsInv, Resumed

(* A call of t that changes at most the top of its stack.                  *)
LEMMA CallInv ==
    ASSUME SendsInv, NEW t \in Thread, Executing(t),
           Tops(t) \/ UNCHANGED stack,
           UNCHANGED <<state, current, phase, invocations>>,
           WaitsAreOpen' /\ dispatch' \in [Thread -> BOOLEAN] /\ muted' \subseteq Thread,
           SentQueueExact' /\ NoSleepOverSend',
           user' \in Thread \cup {NoThread}, posted' \in [Thread -> Nat],
           sent' \in [Thread -> [count : Nat, fresh : BOOLEAN]],
           row' \in [Thread -> [current : BOOLEAN, fresh : BOOLEAN]]
    PROVE  SendsInv'
<1>1. Live(t) /\ phase = "idle"
  BY ExecutingLives
<1>2. SameLives /\ state' \in [Thread -> ThreadStates]
  BY DEF SameLives, Live, SendsInv, Answering, ThreadsTyped
<1>3. Answering' /\ MessageWaitsOnTop'
  <2>1. CASE Tops(t)
    <3>1. Answering'
      BY <1>1, <1>2, <2>1, TopsAnswers DEF SendsInv
    <3> QED  BY <2>1, <3>1 DEF Tops
  <2>2. CASE UNCHANGED stack
    <3>1. ThreadsTyped'
      BY <2>2 DEF SendsInv, Answering, ThreadsTyped
    <3>2. Answering'
      BY <1>2, <2>2, <3>1, SameStacksAnswer DEF SendsInv
    <3>3. MessageWaitsOnTop'
      BY <2>2 DEF SendsInv, MessageWaitsOnTop
    <3> QED  BY <3>2, <3>3
  <2> QED  BY <2>1, <2>2
<1>4. TypeOK'
  BY <1>3 DEF SendsInv, TypeOK, Answering, ThreadsTyped, ThreadStates, Invocation
<1>5. ChosenLives'
  BY <1>1 DEF ChosenLives
<1> QED  BY <1>3, <1>4, <1>5 DEF SendsInv

(* SendMessage to an own window keeps the invariant.                       *)
LEMMA SendLocalInv ==
    ASSUME SendsInv, NEW t \in Thread, SendLocal(t)
    PROVE  SendsInv'
<1> DEFINE f == [kind |-> "call", held |-> TRUE]
<1>1. /\ Executing(t) /\ stack' = Push(t, f) /\ EndMessageCall(t, TRUE) /\ user' = t
      /\ UNCHANGED <<state, current, phase, invocations, sent, row, posted>>
  BY DEF SendLocal, CallsTo
<1>2. f \in FrameType /\ f.kind = "call"
  BY NewFrames
<1> HIDE DEF f
<1>3. /\ Tops(t) /\ Frame(t)' # "msgwait" /\ (HasWait(t)' => HasWait(t) \/ TRUE)
  BY <1>1, <1>2, PushTops, ExecutingLives DEF SendsInv
<1>4. SentQueueExact' /\ NoSleepOverSend'
  BY <1>1, <1>3, TopsOthers, UnobservedKeeps DEF SendsInv
<1>5. WaitsAreOpen' /\ dispatch' \in [Thread -> BOOLEAN] /\ muted' \subseteq Thread
  BY <1>1, <1>3, TopsOthers, StayingWait, EndCallKeeps DEF SendsInv
<1>6. /\ user' \in Thread \cup {NoThread} /\ posted' \in [Thread -> Nat]
      /\ sent' \in [Thread -> [count : Nat, fresh : BOOLEAN]]
      /\ row' \in [Thread -> [current : BOOLEAN, fresh : BOOLEAN]]
  BY <1>1 DEF SendsInv, TypeOK
<1> QED  BY <1>1, <1>3, <1>4, <1>5, <1>6, CallInv

(* So does a message call that fails.                                      *)
LEMMA FailMessageCallInv ==
    ASSUME SendsInv, NEW t \in Thread, FailMessageCall(t)
    PROVE  SendsInv'
<1>1. /\ Executing(t) /\ EndMessageCall(t, FALSE) /\ (user' = t \/ user' = user)
      /\ UNCHANGED <<state, stack, current, phase, invocations, sent, row, posted>>
  BY DEF FailMessageCall, CallsTo
<1>2. OthersStay(t) /\ (HasWait(t)' => HasWait(t))
  BY <1>1 DEF OthersStay, HasWait
<1>3. SentQueueExact' /\ NoSleepOverSend'
  BY <1>1, <1>2, UnobservedKeeps DEF SendsInv
<1>4. WaitsAreOpen' /\ dispatch' \in [Thread -> BOOLEAN] /\ muted' \subseteq Thread
  BY <1>1, <1>2, StayingWait, EndCallKeeps DEF SendsInv
<1>5. /\ user' \in Thread \cup {NoThread} /\ posted' \in [Thread -> Nat]
      /\ sent' \in [Thread -> [count : Nat, fresh : BOOLEAN]]
      /\ row' \in [Thread -> [current : BOOLEAN, fresh : BOOLEAN]]
  BY <1>1 DEF SendsInv, TypeOK
<1> QED  BY <1>1, <1>3, <1>4, <1>5, CallInv

(* So do GetMessage and PeekMessage.                                       *)
LEMMA GetMessageInv ==
    ASSUME SendsInv, NEW t \in Thread, NEW blocking \in BOOLEAN, GetMessage(t, blocking)
    PROVE  SendsInv'
<1>1. /\ Executing(t)
      /\ UNCHANGED <<state, current, phase, invocations>>
  BY DEF GetMessage, CallsTo
<1>2. CASE HasSends(t)
  <2> DEFINE f == [kind |-> "retrieve", blocking |-> blocking]
             ok == HasSlot(t)
  <2>1. /\ stack' = IF ok THEN Push(t, f) ELSE stack
        /\ EndMessageCall(t, ok)
        /\ UNCHANGED <<user, sent, row, posted>>
    BY <1>2 DEF GetMessage
  <2>2. f \in FrameType /\ f.kind = "retrieve" /\ ok \in BOOLEAN
    <3>1. f \in FrameType /\ f.kind = "retrieve"
      BY NewFrames
    <3>2. ok \in BOOLEAN
      BY DEF HasSlot
    <3> QED  BY <3>1, <3>2
  <2> HIDE DEF f, ok
  <2>3. /\ Tops(t) \/ UNCHANGED stack
        /\ Frame(t)' # "msgwait" \/ stack'[t] = stack[t]
        /\ HasWait(t)' => HasWait(t) \/ ok
    <3>1. CASE ok
      <4>1. Tops(t) /\ Frame(t)' # "msgwait"
        BY <1>1, <2>1, <2>2, <3>1, PushTops, ExecutingLives DEF SendsInv
      <4> QED  BY <3>1, <4>1
    <3>2. CASE ~ok
      BY <2>1, <3>2 DEF HasWait
    <3> QED  BY <3>1, <3>2
  <2>4. OthersStay(t)
    BY <2>3, TopsOthers DEF OthersStay
  <2>5. SentQueueExact' /\ NoSleepOverSend'
    BY <1>1, <2>1, <2>3, <2>4, UnobservedKeeps DEF SendsInv
  <2>6. WaitsAreOpen' /\ dispatch' \in [Thread -> BOOLEAN] /\ muted' \subseteq Thread
    BY <2>1, <2>2, <2>3, <2>4, StayingWait, EndCallKeeps DEF SendsInv
  <2>7. /\ user' \in Thread \cup {NoThread} /\ posted' \in [Thread -> Nat]
        /\ sent' \in [Thread -> [count : Nat, fresh : BOOLEAN]]
        /\ row' \in [Thread -> [current : BOOLEAN, fresh : BOOLEAN]]
    BY <2>1 DEF SendsInv, TypeOK
  <2> QED  BY <1>1, <2>3, <2>5, <2>6, <2>7, CallInv
<1>3. CASE ~HasSends(t)
  <2> DEFINE ok == posted[t] > 0 \/ (blocking => HasSlot(t))
             f == [kind |-> "wait"]
  <2>1. /\ Retrieved(t, stack[t], blocking /\ HasSlot(t))
        /\ EndMessageCall(t, ok) /\ user' = t
    BY <1>3 DEF GetMessage
  <2>2. /\ Observe(t) /\ posted' \in [Thread -> Nat]
        /\ \/ stack' = [stack EXCEPT ![t] = stack[t]]
           \/ stack' = [stack EXCEPT ![t] = Append(stack[t], f)] /\ blocking /\ HasSlot(t)
    BY <2>1, RetrievedTypes DEF SendsInv
  <2>3. f \in FrameType /\ f.kind = "wait" /\ ok \in BOOLEAN /\ (HasSlot(t) => ok)
    BY NewFrames
  <2> HIDE DEF f, ok
  <2>4. /\ Tops(t) \/ UNCHANGED stack
        /\ HasWait(t)' => HasWait(t) \/ ok
    <3>1. CASE stack' = [stack EXCEPT ![t] = stack[t]]
      <4>1. stack' = stack
        BY <3>1 DEF SendsInv, TypeOK
      <4> QED  BY <4>1 DEF HasWait
    <3>2. CASE stack' = [stack EXCEPT ![t] = Append(stack[t], f)] /\ HasSlot(t)
      <4>1. stack' = Push(t, f)
        BY <3>2 DEF Push
      <4>2. Tops(t)
        BY <1>1, <2>3, <4>1, PushTops, ExecutingLives DEF SendsInv
      <4> QED  BY <2>3, <3>2, <4>2
    <3> QED  BY <2>2, <3>1, <3>2
  <2>5. OthersStay(t)
    BY <2>4, TopsOthers DEF OthersStay
  <2>6. /\ sent' \in [Thread -> [count : Nat, fresh : BOOLEAN]]
        /\ row' \in [Thread -> [current : BOOLEAN, fresh : BOOLEAN]]
        /\ SentQueueExact' /\ NoSleepOverSend'
    BY <1>1, <2>2, <2>5, ObserveKeeps DEF SendsInv
  <2>7. WaitsAreOpen' /\ dispatch' \in [Thread -> BOOLEAN] /\ muted' \subseteq Thread
    BY <2>1, <2>3, <2>4, <2>5, StayingWait, EndCallKeeps DEF SendsInv
  <2>8. user' \in Thread \cup {NoThread}
    BY <2>1
  <2> QED  BY <1>1, <2>2, <2>4, <2>6, <2>7, <2>8, CallInv
<1> QED  BY <1>2, <1>3

(* So does PostMessage.                                                    *)
LEMMA PostMessageInv ==
    ASSUME SendsInv, NEW t \in Thread, NEW w \in Thread, PostMessage(t, w)
    PROVE  SendsInv'
<1>1. /\ Executing(t) /\ user' = t
      /\ posted' = [posted EXCEPT ![w] = IF @ < PostLimit THEN @ + 1 ELSE @]
      /\ UNCHANGED <<state, stack, current, phase, invocations, dispatch, muted, sent, row>>
  BY DEF PostMessage, CallsTo
<1>2. OthersStay(t) /\ (HasWait(t)' => HasWait(t))
  BY <1>1 DEF OthersStay, HasWait
<1>3. SentQueueExact' /\ NoSleepOverSend'
  BY <1>1, <1>2, UnobservedKeeps DEF SendsInv
<1>4. WaitsAreOpen'
  BY <1>1, <1>2, StayingWait, NoCallKeepsOpen DEF SendsInv
<1>5. /\ user' \in Thread \cup {NoThread} /\ posted' \in [Thread -> Nat]
      /\ sent' \in [Thread -> [count : Nat, fresh : BOOLEAN]]
      /\ row' \in [Thread -> [current : BOOLEAN, fresh : BOOLEAN]]
      /\ dispatch' \in [Thread -> BOOLEAN] /\ muted' \subseteq Thread
  BY <1>1 DEF SendsInv, TypeOK
<1> QED  BY <1>1, <1>3, <1>4, <1>5, CallInv

(* So does GetQueueStatus.                                                 *)
LEMMA GetQueueStatusInv ==
    ASSUME SendsInv, NEW t \in Thread, GetQueueStatus(t)
    PROVE  SendsInv'
<1>1. /\ Executing(t) /\ user' = t /\ Observe(t)
      /\ UNCHANGED <<state, stack, current, phase, invocations, dispatch, muted, posted>>
  BY DEF GetQueueStatus, CallsTo
<1>2. OthersStay(t) /\ (HasWait(t)' => HasWait(t))
  BY <1>1 DEF OthersStay, HasWait
<1>3. /\ sent' \in [Thread -> [count : Nat, fresh : BOOLEAN]]
      /\ row' \in [Thread -> [current : BOOLEAN, fresh : BOOLEAN]]
      /\ SentQueueExact' /\ NoSleepOverSend'
  BY <1>1, <1>2, ObserveKeeps DEF SendsInv
<1>4. WaitsAreOpen'
  BY <1>1, <1>2, StayingWait, NoCallKeepsOpen DEF SendsInv
<1>5. /\ user' \in Thread \cup {NoThread} /\ posted' \in [Thread -> Nat]
      /\ dispatch' \in [Thread -> BOOLEAN] /\ muted' \subseteq Thread
  BY <1>1 DEF SendsInv, TypeOK
<1> QED  BY <1>1, <1>3, <1>4, <1>5, CallInv

(* So does a message wait.                                                 *)
LEMMA MsgWaitInv ==
    ASSUME SendsInv, NEW t \in Thread, MsgWait(t)
    PROVE  SendsInv'
<1> DEFINE f == [kind |-> "msgwait", woken |-> FALSE]
<1>1. /\ Executing(t) /\ Observe(t)
      /\ stack' = IF sent[t].fresh THEN stack ELSE Push(t, f)
      /\ UNCHANGED <<state, current, phase, user, invocations, dispatch, muted, posted>>
  BY DEF MsgWait, CallsTo
<1>2. f \in FrameType /\ f.kind = "msgwait"
  BY NewFrames
<1> HIDE DEF f
<1>3. (Tops(t) \/ UNCHANGED stack) /\ (HasWait(t)' => HasWait(t))
  <2>1. CASE stack' = stack
    BY <2>1 DEF HasWait
  <2>2. CASE stack' = Push(t, f)
    <3>1. "msgwait" \notin UserWaits
      BY DEF UserWaits
    <3> QED  BY <1>1, <1>2, <2>2, <3>1, PushTops, ExecutingLives DEF SendsInv
  <2> QED  BY <1>1, <2>1, <2>2
<1>4. OthersStay(t)
  BY <1>3, TopsOthers DEF OthersStay
<1>5. /\ sent' \in [Thread -> [count : Nat, fresh : BOOLEAN]]
      /\ row' \in [Thread -> [current : BOOLEAN, fresh : BOOLEAN]]
      /\ SentQueueExact' /\ NoSleepOverSend'
  BY <1>1, <1>4, ObserveKeeps DEF SendsInv
<1>6. WaitsAreOpen'
  BY <1>1, <1>3, <1>4, StayingWait, NoCallKeepsOpen DEF SendsInv
<1>7. /\ user' \in Thread \cup {NoThread} /\ posted' \in [Thread -> Nat]
      /\ dispatch' \in [Thread -> BOOLEAN] /\ muted' \subseteq Thread
  BY <1>1 DEF SendsInv, TypeOK
<1> QED  BY <1>1, <1>3, <1>5, <1>6, <1>7, CallInv

(* So does the return of an own procedure.                                 *)
LEMMA ReturnFromCallInv ==
    ASSUME SendsInv, NEW t \in Thread, ReturnFromCall(t)
    PROVE  SendsInv'
<1>1. /\ Executing(t) /\ Frame(t) = "call" /\ stack' = Pop(t)
      /\ UNCHANGED <<state, current, phase, user, invocations, dispatch, muted,
                     sent, row, posted>>
  BY DEF ReturnFromCall
<1>2. Endable(t)
  BY <1>1 DEF Endable, Frame
<1>3. Tops(t) /\ Frame(t)' # "msgwait" /\ (HasWait(t)' => HasWait(t))
  BY <1>1, <1>2, PopTops DEF SendsInv
<1>4. SentQueueExact' /\ NoSleepOverSend'
  BY <1>1, <1>3, TopsOthers, UnobservedKeeps DEF SendsInv
<1>5. WaitsAreOpen'
  BY <1>1, <1>3, TopsOthers, StayingWait, NoCallKeepsOpen DEF SendsInv
<1>6. /\ user' \in Thread \cup {NoThread} /\ posted' \in [Thread -> Nat]
      /\ sent' \in [Thread -> [count : Nat, fresh : BOOLEAN]]
      /\ row' \in [Thread -> [current : BOOLEAN, fresh : BOOLEAN]]
      /\ dispatch' \in [Thread -> BOOLEAN] /\ muted' \subseteq Thread
  BY <1>1 DEF SendsInv, TypeOK
<1> QED  BY <1>1, <1>3, <1>4, <1>5, <1>6, CallInv

(* So does the retry of a wait by the host.                                *)
LEMMA RetryWaitInv ==
    ASSUME SendsInv, RetryWait
    PROVE  SendsInv'
<1>0. PICK t \in Thread : t = current
  BY DEF SendsInv, TypeOK
<1>1. /\ phase = "idle" /\ Live(t) /\ Frame(t) \in UserWaits
      /\ UNCHANGED <<state, current, phase, invocations>>
  BY <1>0 DEF RetryWait
<1>2. SameLives /\ state' \in [Thread -> ThreadStates]
  BY <1>1 DEF SameLives, Live, SendsInv, Answering, ThreadsTyped
<1>3. CASE Frame(t) # "send" /\ HasSends(t)
  <2>1. EndMessageCall(t, TRUE) /\ UNCHANGED <<stack, user, sent, row, posted>>
    BY <1>0, <1>3 DEF RetryWait
  <2>2. OthersStay(t)
    BY <2>1 DEF OthersStay
  <2>3. WaitsAreOpen' /\ dispatch' \in [Thread -> BOOLEAN] /\ muted' \subseteq Thread
    BY <1>1, <2>1, <2>2, StayingWait, EndCallKeeps DEF SendsInv
  <2>4. SentQueueExact' /\ NoSleepOverSend'
    BY <1>1, <2>1, <2>2, UnobservedKeeps DEF SendsInv
  <2>5. ThreadsTyped'
    BY <1>1, <2>1 DEF SendsInv, Answering, ThreadsTyped
  <2>6. Answering'
    BY <1>1, <1>2, <2>1, <2>5, SameStacksAnswer DEF SendsInv
  <2>7. TypeOK' /\ MessageWaitsOnTop' /\ ChosenLives'
    BY <1>1, <2>1, <2>3 DEF SendsInv, TypeOK, MessageWaitsOnTop, ChosenLives
  <2> QED  BY <2>3, <2>4, <2>6, <2>7 DEF SendsInv
<1>4. CASE ~(Frame(t) # "send" /\ HasSends(t))
  <2>1. Ready(t) /\ EndWait(t) /\ UNCHANGED <<dispatch, muted>>
    BY <1>0, <1>4 DEF RetryWait
  <2>2. Resumed(t)
    BY <1>1, <2>1, EndWaitKeeps DEF Resumed
  <2>3. phase' \in {"idle", "select"}
    BY <1>1
  <2> QED  BY <1>1, <1>2, <2>1, <2>2, <2>3, ResumedInv
<1> QED  BY <1>3, <1>4

(* So does the start of a scheduling pass.                                 *)
LEMMA BeginPassInv ==
    ASSUME SendsInv, BeginPass
    PROVE  SendsInv'
<1>1. /\ current \in Thread /\ phase' = "select" /\ ResumeReady(current)
      /\ UNCHANGED <<current, invocations, dispatch, muted>>
  BY DEF BeginPass, SendsInv, TypeOK
<1> DEFINE blocked == stack'[current] # <<>> /\ Last(stack'[current]).kind \in Waits
<1>2. state' = [t \in Thread |->
              IF state[t] = "Terminated" THEN "Terminated"
              ELSE IF t = current
                   THEN IF ~blocked THEN "Running"
                        ELSE IF state[t] = "Running" THEN "Waiting" ELSE state[t]
              ELSE IF state[t] = "Waiting" /\ Ready(t) THEN "Runnable" ELSE state[t]]
  BY DEF BeginPass
<1> HIDE DEF blocked
<1>3. state \in [Thread -> ThreadStates]
  BY DEF SendsInv, Answering, ThreadsTyped
<1>4. SameLives /\ state' \in [Thread -> ThreadStates]
  BY <1>2, <1>3 DEF SameLives, Live, ThreadStates
<1>5. Resumed(current)
  BY <1>1, ResumeReadyKeeps
<1> QED  BY <1>1, <1>4, <1>5, ResumedInv

(* So does the entry into a thread without a send to run.                  *)
LEMMA EnterThreadInv ==
    ASSUME SendsInv, EnterThread
    PROVE  SendsInv'
<1>1. /\ current \in Thread /\ phase = "enter" /\ phase' = "idle" /\ ResumeReady(current)
      /\ UNCHANGED <<current, invocations, dispatch, muted>>
  BY DEF EnterThread, SendsInv, TypeOK
<1>2. PICK s \in {"Waiting", "Running"} : state' = [state EXCEPT ![current] = s]
  BY DEF EnterThread
<1>3. state \in [Thread -> ThreadStates] /\ Live(current)
  BY <1>1 DEF SendsInv, Answering, ThreadsTyped, ChosenLives
<1>4. SameLives /\ state' \in [Thread -> ThreadStates]
  BY <1>1, <1>2, <1>3 DEF SameLives, Live, ThreadStates
<1>5. Resumed(current)
  BY <1>1, ResumeReadyKeeps
<1> QED  BY <1>1, <1>4, <1>5, ResumedInv

(* A step that only changes what is scheduled keeps it, if it chooses a    *)
(* live thread.                                                            *)
LEMMA QuietInv ==
    ASSUME SendsInv, SameLives, state' \in [Thread -> ThreadStates],
           UNCHANGED <<stack, user, invocations, dispatch, muted, sent, row, posted>>,
           current' \in Thread, phase' \in {"idle", "select", "enter"}, ChosenLives'
    PROVE  SendsInv'
<1>1. ThreadsTyped'
  BY DEF SendsInv, Answering, ThreadsTyped
<1>2. Answering'
  BY <1>1, SameStacksAnswer DEF SendsInv
<1>3. TypeOK'
  BY DEF SendsInv, TypeOK, ThreadStates
<1>4. SentQueueExact' /\ NoSleepOverSend' /\ MessageWaitsOnTop' /\ WaitsAreOpen'
  BY DEF SendsInv, SentQueueExact, Status, NoSleepOverSend, Frame, MessageWaitsOnTop,
         WaitsAreOpen, HasWait
<1> QED  BY <1>2, <1>3, <1>4 DEF SendsInv

(* The choice of the next thread keeps the invariant.                      *)
LEMMA SelectInv ==
    ASSUME SendsInv, Select
    PROVE  SendsInv'
<1>1. UNCHANGED <<stack, user, invocations, dispatch, muted, sent, row, posted>>
  BY DEF Select
<1>2. state \in [Thread -> ThreadStates] /\ current \in Thread
  BY DEF SendsInv, TypeOK, Answering, ThreadsTyped
<1>3. CASE \E t \in Thread : Eligible(t)
  <2>1. PICK t \in Thread :
            /\ NextThread(t) /\ current' = t /\ phase' = "enter"
            /\ state' = IF t # current /\ state[current] = "Running"
                        THEN [state EXCEPT ![current] = "Runnable"] ELSE state
    BY <1>3 DEF Select
  <2>2. state[t] # "Terminated"
    BY <2>1 DEF NextThread, Eligible
  <2>3. SameLives /\ state' \in [Thread -> ThreadStates]
    BY <1>2, <2>1 DEF SameLives, Live, ThreadStates
  <2>4. ChosenLives'
    BY <1>2, <2>1, <2>2, <2>3 DEF ChosenLives, Live
  <2> QED  BY <1>1, <2>1, <2>3, <2>4, QuietInv
<1>4. CASE ~\E t \in Thread : Eligible(t)
  <2>1. phase' = "idle" /\ UNCHANGED <<current, state>>
    BY <1>4 DEF Select
  <2>2. SameLives /\ ChosenLives'
    BY <2>1 DEF SameLives, Live, ChosenLives
  <2> QED  BY <1>1, <1>2, <2>1, <2>2, QuietInv
<1> QED  BY <1>3, <1>4

(* So does an entry that is refused.                                       *)
LEMMA EntryFailsInv ==
    ASSUME SendsInv, EntryFails
    PROVE  SendsInv'
<1>1. /\ phase' = "idle"
      /\ UNCHANGED <<state, stack, current, user, invocations, dispatch, muted, sent, row, posted>>
  BY DEF EntryFails
<1>2. SameLives /\ ChosenLives' /\ state' \in [Thread -> ThreadStates] /\ current' \in Thread
  BY <1>1 DEF SameLives, Live, ChosenLives, SendsInv, Answering, ThreadsTyped, TypeOK
<1> QED  BY <1>1, <1>2, QuietInv

(* A change of the sends of w that counts what is queued for w.            *)
LEMMA ChangeSentKeeps ==
    ASSUME TypeOK, SentQueueExact, NEW w \in Thread,
           NEW s \in [count : Nat, fresh : BOOLEAN], ChangeSent(w, s),
           s.count = Len(invocations'[w]), s.fresh => s.count > 0,
           \A u \in Thread : u # w => Len(invocations'[u]) = Len(invocations[u])
    PROVE  /\ sent' \in [Thread -> [count : Nat, fresh : BOOLEAN]]
           /\ row' \in [Thread -> [current : BOOLEAN, fresh : BOOLEAN]]
           /\ SentQueueExact'
           /\ \A u \in Thread : u # w => row'[u] = row[u]
<1>1. /\ sent' \in [Thread -> [count : Nat, fresh : BOOLEAN]]
      /\ sent'[w] = s
      /\ \A u \in Thread : u # w => sent'[u] = sent[u]
  BY DEF ChangeSent, TypeOK
<1>2. Status(s) \in [current : BOOLEAN, fresh : BOOLEAN]
  BY DEF Status
<1>3. /\ row' \in [Thread -> [current : BOOLEAN, fresh : BOOLEAN]]
      /\ row'[w] = Status(s)
      /\ \A u \in Thread : u # w => row'[u] = row[u]
  BY <1>2 DEF ChangeSent, TypeOK
<1>4. ASSUME NEW u \in Thread
      PROVE  /\ sent'[u].count = Len(invocations'[u])
             /\ sent'[u].fresh => sent'[u].count > 0
             /\ row'[u] = Status(sent'[u])
  BY <1>1, <1>3 DEF SentQueueExact
<1>5. \A u \in Thread : Status(sent[u])' = Status(sent'[u])
  BY DEF Status
<1>6. SentQueueExact'
  BY <1>4, <1>5 DEF SentQueueExact
<1> QED  BY <1>1, <1>3, <1>6

(* What SendMessage makes of the frame on top of the target.               *)
WokenStack(w) ==
    IF Frame(w) = "msgwait"
    THEN [stack[w] EXCEPT ![Len(stack[w])].woken = TRUE]
    ELSE stack[w]

(* It wakes a message wait on top of the target and changes no other       *)
(* frame.                                                                  *)
LEMMA WokenTop ==
    ASSUME ThreadsTyped, NEW w \in Thread, NEW after, after = WokenStack(w)
    PROVE  /\ Woken(w, after)
           /\ Frame(w) = "msgwait" => Last(after).woken = TRUE
<1>1. stack[w] \in Seq(FrameType)
  BY DEF ThreadsTyped
<1>2. CASE Frame(w) # "msgwait"
  <2>1. after = stack[w]
    BY <1>2 DEF WokenStack
  <2>2. after \in Seq(FrameType) /\ Len(after) = Len(stack[w])
    BY <1>1, <2>1
  <2>3. \A i \in DOMAIN stack[w] : after[i] = stack[w][i]
    BY <2>1
  <2>4. Woken(w, after)
    BY <2>2, <2>3 DEF Woken
  <2> QED  BY <1>2, <2>4
<1>3. CASE Frame(w) = "msgwait"
  <2>1. stack[w] # <<>>
    BY <1>3 DEF Frame
  <2>2. PICK n \in Nat \ {0} : n = Len(stack[w]) /\ DOMAIN stack[w] = 1 .. n
    BY <1>1, <2>1, FrontOf, FrameIndexes
  <2> DEFINE g == [stack[w][n] EXCEPT !.woken = TRUE]
  <2>3. n \in DOMAIN stack[w] /\ stack[w][n] \in FrameType /\ stack[w][n].kind = "msgwait"
    <3>1. n \in DOMAIN stack[w] /\ stack[w][n] \in FrameType
      BY <1>1, <2>2
    <3>2. Last(stack[w]) = stack[w][n]
      BY <1>1, <2>1, <2>2, FrontOf
    <3> QED  BY <1>3, <2>1, <3>1, <3>2 DEF Frame
  <2>4. g \in FrameType /\ g.kind = "msgwait" /\ g.woken = TRUE
    BY <2>3, MarkedFrames
  <2>5. after = [stack[w] EXCEPT ![n] = g]
    BY <1>3, <2>2 DEF WokenStack
  <2> HIDE DEF g
  <2>6. /\ after \in Seq(FrameType) /\ Len(after) = n
        /\ \A i \in DOMAIN stack[w] : after[i] = IF i = n THEN g ELSE stack[w][i]
    BY <1>1, <2>2, <2>3, <2>4, <2>5, ExceptSeq
  <2>7. Last(after) = g
    BY <2>3, <2>6 DEF Last
  <2>8. Woken(w, after)
    BY <2>2, <2>3, <2>4, <2>6 DEF Woken
  <2> QED  BY <2>4, <2>7, <2>8
<1> QED  BY <1>2, <1>3

(* SendMessage to a window of another thread keeps the invariant: the      *)
(* target sees the send, and the sender is owed its answer.                *)
LEMMA SendRemoteInv ==
    ASSUME SendsInv, NEW t \in Thread, NEW w \in Thread, SendRemote(t, w)
    PROVE  SendsInv'
<1>0. TypeOK /\ Answering /\ ThreadsTyped
  BY DEF SendsInv, Answering
<1>1. PICK after : after = WokenStack(w)
  OBVIOUS
<1>2. /\ Executing(t) /\ t # w /\ Live(w) /\ Sent(t, w, after)
      /\ ChangeSent(w, [count |-> sent[w].count + 1, fresh |-> TRUE])
      /\ EndMessageCall(t, TRUE) /\ user' = t
      /\ UNCHANGED <<state, current, phase, posted>>
  BY <1>1 DEF SendRemote, CallsTo, Sent, WokenStack
<1>3. Woken(w, after) /\ (Frame(w) = "msgwait" => Last(after).woken = TRUE)
  BY <1>0, <1>1, WokenTop
<1>4. /\ Live(t) /\ phase = "idle" /\ SameLives /\ Frame(t) # "msgwait"
      /\ state' \in [Thread -> ThreadStates]
  BY <1>0, <1>2, ExecutingLives DEF SameLives, Live, ThreadsTyped
<1>5. /\ stack' \in [Thread -> Seq(FrameType)]
      /\ invocations' \in [Thread -> Seq(Invocation)]
      /\ \A u \in Thread : u # t => Len(stack'[u]) = Len(stack[u])
  BY <1>0, <1>2, <1>3, SentFacts
<1>6. ThreadsTyped' /\ Answering'
  <2>1. ThreadsTyped'
    BY <1>4, <1>5 DEF ThreadsTyped
  <2> QED  BY <1>0, <1>2, <1>3, <1>4, <2>1, SentAnswers
<1> DEFINE f == [kind |-> "send", ready |-> FALSE]
<1>7. /\ stack'[t] = Append(stack[t], f) /\ stack'[w] = after
      /\ \A u \in Thread : u # t /\ u # w => stack'[u] = stack[u]
  BY <1>0, <1>2 DEF Sent, ThreadsTyped
<1>8. PICK n \in Nat : n = Len(stack[t]) /\ DOMAIN stack[t] = 1 .. n
  BY <1>0, FrameIndexes
<1>9. f.kind = "send" /\ f \in FrameType
  BY NewFrames
<1> HIDE DEF f
<1>10. /\ Len(stack'[t]) = n + 1 /\ stack'[t][n + 1] = f /\ DOMAIN stack'[t] = 1 .. n + 1
       /\ \A i \in 1 .. n : stack'[t][i] = stack[t][i]
       /\ stack'[t] # <<>>
  BY <1>0, <1>7, <1>8, <1>9, AppendProperties DEF ThreadsTyped
<1>11. Frame(t)' = "send"
  BY <1>9, <1>10 DEF Frame, Last
<1>12. ASSUME NEW i \in DOMAIN stack'[w]
       PROVE  i \in DOMAIN stack[w] /\ stack'[w][i].kind = stack[w][i].kind
  <2>1. DOMAIN stack'[w] = DOMAIN stack[w]
    BY <1>0, <1>5, <1>2, <1>6, FrameIndexes, FrameIndexesNext
  <2> QED  BY <1>3, <1>7, <2>1 DEF Woken
<1>13. MessageWaitsOnTop'
  <2>1. ASSUME NEW u \in Thread, NEW i \in DOMAIN stack'[u], stack'[u][i].kind = "msgwait"
        PROVE  i = Len(stack'[u])
    <3>1. CASE u = t
      <4>1. i # n + 1 /\ i \in 1 .. n + 1
        BY <1>9, <1>10, <2>1, <3>1
      <4>2. i \in 1 .. n
        BY <4>1
      <4>3. i = n /\ stack[t][n].kind = "msgwait"
        BY <1>8, <1>10, <2>1, <3>1, <4>2 DEF SendsInv, MessageWaitsOnTop
      <4>4. stack[t] # <<>> /\ Last(stack[t]) = stack[t][n]
        BY <1>8, <4>2 DEF Last
      <4> QED  BY <1>4, <4>3, <4>4 DEF Frame
    <3>2. CASE u = w
      BY <1>2, <1>5, <1>12, <2>1, <3>2 DEF SendsInv, MessageWaitsOnTop
    <3>3. CASE u # t /\ u # w
      BY <1>7, <2>1, <3>3 DEF SendsInv, MessageWaitsOnTop
    <3> QED  BY <3>1, <3>2, <3>3
  <2> QED  BY <2>1 DEF MessageWaitsOnTop
<1>14. OthersWait(t)
  <2>1. ASSUME NEW u \in Thread, u # t, HasWait(u)' PROVE HasWait(u)
    <3>1. CASE u = w
      BY <1>12, <2>1, <3>1 DEF HasWait
    <3>2. CASE u # w
      BY <1>7, <2>1, <3>2 DEF HasWait
    <3> QED  BY <3>1, <3>2
  <2> QED  BY <2>1 DEF OthersWait
<1>15. WaitsAreOpen' /\ dispatch' \in [Thread -> BOOLEAN] /\ muted' \subseteq Thread
  BY <1>0, <1>2, <1>14, EndCallKeeps DEF SendsInv
<1>16. /\ sent' \in [Thread -> [count : Nat, fresh : BOOLEAN]]
       /\ row' \in [Thread -> [current : BOOLEAN, fresh : BOOLEAN]]
       /\ SentQueueExact' /\ \A u \in Thread : u # w => row'[u] = row[u]
  <2> DEFINE s == [count |-> sent[w].count + 1, fresh |-> TRUE]
  <2>1. s \in [count : Nat, fresh : BOOLEAN] /\ s.count = sent[w].count + 1
        /\ sent[w].count \in Nat
    BY <1>0 DEF TypeOK
  <2>2. Len(invocations'[w]) = Len(invocations[w]) + 1
    <3>1. invocations'[w] = Append(invocations[w], [sender |-> t, place |-> Len(stack[t]) + 1])
      BY <1>0, <1>2 DEF Sent, ThreadsTyped
    <3>2. invocations[w] \in Seq(Invocation)
      BY <1>0 DEF ThreadsTyped
    <3> QED  BY <3>1, <3>2
  <2>3. \A u \in Thread : u # w => Len(invocations'[u]) = Len(invocations[u])
    BY <1>0, <1>2 DEF Sent, ThreadsTyped
  <2>4. s.count = Len(invocations'[w]) /\ s.count > 0
    BY <2>1, <2>2 DEF SendsInv, SentQueueExact
  <2> HIDE DEF s
  <2> QED  BY <1>0, <1>2, <2>1, <2>3, <2>4, ChangeSentKeeps DEF SendsInv, s
<1>17. NoSleepOverSend'
  <2>1. ASSUME NEW u \in Thread, Frame(u)' = "msgwait", ~Last(stack[u])'.woken
        PROVE  ~row'[u].fresh
    <3>1. u # t
      BY <1>11, <2>1
    <3>2. u # w
      <4>1. ASSUME u = w PROVE FALSE
        <5>1. CASE Frame(w) = "msgwait"
          <6>1. Last(stack[w])'.woken = TRUE
            BY <1>3, <1>7, <5>1
          <6> QED  BY <2>1, <4>1, <6>1
        <5>2. CASE Frame(w) # "msgwait"
          <6>1. stack'[w] = stack[w]
            BY <1>1, <1>7, <5>2 DEF WokenStack
          <6>2. Frame(w)' = Frame(w)
            BY <6>1 DEF Frame
          <6> QED  BY <2>1, <4>1, <5>2, <6>2
        <5> QED  BY <5>1, <5>2
      <4> QED  BY <4>1
    <3>3. Frame(u) = "msgwait" /\ ~Last(stack[u]).woken
      BY <1>7, <2>1, <3>1, <3>2 DEF Frame
    <3> QED  BY <1>16, <3>2, <3>3 DEF SendsInv, NoSleepOverSend
  <2> QED  BY <2>1 DEF NoSleepOverSend
<1>18. TypeOK'
  BY <1>0, <1>2, <1>5, <1>15, <1>16 DEF TypeOK, Invocation
<1>19. ChosenLives'
  BY <1>2, <1>4 DEF ChosenLives
<1> QED  BY <1>6, <1>13, <1>15, <1>16, <1>17, <1>18, <1>19 DEF SendsInv

(* Frames that stay keep their kind, and a message wait stays on top.      *)
KindsStay ==
    \A u \in Thread : \A i \in DOMAIN stack'[u] :
        /\ i \in DOMAIN stack[u] /\ stack'[u][i].kind = stack[u][i].kind
        /\ stack[u][i].kind = "msgwait" =>
               stack'[u][i] = stack[u][i] /\ Len(stack'[u]) = Len(stack[u])

(* Such a step keeps the message waits on top and opens no wait.           *)
LEMMA KindsStayKeeps ==
    ASSUME ThreadsTyped, ThreadsTyped', MessageWaitsOnTop, NoSleepOverSend, KindsStay,
           \A u \in Thread : row'[u] = row[u] \/ stack'[u] = <<>>
    PROVE  /\ MessageWaitsOnTop' /\ NoSleepOverSend'
           /\ \A u \in Thread : HasWait(u)' => HasWait(u)
<1>1. MessageWaitsOnTop'
  BY DEF MessageWaitsOnTop, KindsStay
<1>2. ASSUME NEW u \in Thread, HasWait(u)' PROVE HasWait(u)
  BY <1>2 DEF KindsStay, HasWait
<1>3. ASSUME NEW u \in Thread, Frame(u)' = "msgwait", ~Last(stack[u])'.woken
      PROVE  ~row'[u].fresh
  <2>1. stack'[u] # <<>> /\ Last(stack'[u]).kind = "msgwait"
    BY <1>3 DEF Frame
  <2>2. PICK n \in Nat : n = Len(stack'[u]) /\ DOMAIN stack'[u] = 1 .. n
    BY FrameIndexesNext
  <2>3. n \in DOMAIN stack'[u] /\ Last(stack'[u]) = stack'[u][n]
    <3>1. stack'[u] \in Seq(FrameType)
      BY DEF ThreadsTyped
    <3>2. n # 0
      BY <2>1, <2>2, <3>1
    <3> QED  BY <2>2, <3>2 DEF Last
  <2>4. n \in DOMAIN stack[u] /\ stack'[u][n] = stack[u][n] /\ Len(stack[u]) = n
    BY <2>1, <2>2, <2>3 DEF KindsStay
  <2>5. stack[u] # <<>> /\ Last(stack[u]) = Last(stack'[u])
    BY <2>3, <2>4 DEF Last
  <2>6. Frame(u) = "msgwait" /\ ~Last(stack[u]).woken
    BY <1>3, <2>1, <2>5 DEF Frame
  <2> QED  BY <2>1, <2>6 DEF NoSleepOverSend
<1> QED  BY <1>1, <1>2, <1>3 DEF NoSleepOverSend

(* The return of a procedure that answers a send keeps the invariant.      *)
LEMMA ReturnFromProcInv ==
    ASSUME SendsInv, NEW t \in Thread, ReturnFromProc(t)
    PROVE  SendsInv'
<1>0. TypeOK /\ Answering /\ ThreadsTyped
  BY DEF SendsInv, Answering
<1>1. /\ Executing(t) /\ Frame(t) = "proc"
      /\ UNCHANGED <<current, phase, user, invocations, dispatch, muted, sent, row, posted>>
  BY DEF ReturnFromProc
<1>2. PICK s \in Thread, p \in Nat \ {0} : Replied(t, s, p)
  BY <1>0, <1>1, ReplyFacts
<1>3. ThreadsTyped' /\ Answering'
  <2>1. state' \in [Thread -> ThreadStates]
    BY <1>0, <1>2 DEF Replied, ThreadsTyped, ThreadStates
  <2>2. ThreadsTyped'
    BY <1>0, <1>1, <1>2, <2>1 DEF ThreadsTyped, Replied
  <2> QED  BY <1>0, <1>1, <1>2, <2>2, RepliedAnswers
<1>4. PICK n \in Nat : n = Len(stack[t]) /\ DOMAIN stack[t] = 1 .. n
  BY <1>0, FrameIndexes
<1>5. KindsStay
  <2>1. ASSUME NEW u \in Thread, NEW i \in DOMAIN stack'[u]
        PROVE  /\ i \in DOMAIN stack[u] /\ stack'[u][i].kind = stack[u][i].kind
               /\ stack[u][i].kind = "msgwait" =>
                      stack'[u][i] = stack[u][i] /\ Len(stack'[u]) = Len(stack[u])
    <3>1. Len(stack'[u]) = IF u = t THEN n - 1 ELSE Len(stack[u])
      BY <1>2, <1>4 DEF Replied
    <3>2. i \in DOMAIN stack[u] /\ (u = t => i # n)
      BY <1>0, <1>3, <1>4, <3>1, FrameIndexes, FrameIndexesNext
    <3>3. \/ stack'[u][i] = stack[u][i]
          \/ stack[u][i].kind = "send" /\ stack'[u][i].kind = "send"
      BY <1>2 DEF Replied
    <3>4. stack[u][i].kind = "msgwait" => u # t
      BY <1>4, <3>2 DEF SendsInv, MessageWaitsOnTop
    <3> QED  BY <3>1, <3>2, <3>3, <3>4
  <2> QED  BY <2>1 DEF KindsStay
<1>6. /\ MessageWaitsOnTop' /\ NoSleepOverSend'
      /\ \A u \in Thread : HasWait(u)' => HasWait(u)
  BY <1>0, <1>1, <1>3, <1>5, KindsStayKeeps DEF SendsInv
<1>7. WaitsAreOpen'
  BY <1>1, <1>6, NoCallKeepsOpen DEF SendsInv, OthersWait
<1>8. SentQueueExact'
  BY <1>1 DEF SendsInv, SentQueueExact, Status
<1>9. TypeOK'
  BY <1>0, <1>1, <1>3 DEF TypeOK, ThreadsTyped, ThreadStates, Invocation
<1>10. ChosenLives'
  BY <1>1, ExecutingLives DEF ChosenLives
<1> QED  BY <1>3, <1>6, <1>7, <1>8, <1>9, <1>10 DEF SendsInv

(* So does the end of a thread, whoever ends it.                           *)
LEMMA TerminateInv ==
    ASSUME SendsInv, NEW t \in Thread, NEW v \in Thread, Terminate(t, v)
    PROVE  SendsInv'
<1>0. TypeOK /\ Answering /\ ThreadsTyped
  BY DEF SendsInv, Answering
<1>1. /\ Executing(t)
      /\ invocations' = [invocations EXCEPT ![v] = <<>>]
      /\ ChangeSent(v, NothingSent)
      /\ posted' = [posted EXCEPT ![v] = 0]
      /\ muted' = muted \ {v}
      /\ UNCHANGED <<current, phase, user, dispatch>>
  BY DEF Terminate, CallsTo
<1>2. Ended(v)
  BY <1>0, EndFacts
<1>3. ThreadsTyped' /\ Answering'
  <2>1. invocations' \in [Thread -> Seq(Invocation)]
    BY <1>0, <1>1 DEF ThreadsTyped
  <2>2. ThreadsTyped'
    BY <1>2, <2>1 DEF ThreadsTyped, Ended
  <2> QED  BY <1>0, <1>2, <2>2, EndedAnswers
<1>4. stack'[v] = <<>>
  BY <1>2 DEF Ended
<1>5. KindsStay
  <2>1. ASSUME NEW u \in Thread, NEW i \in DOMAIN stack'[u]
        PROVE  /\ i \in DOMAIN stack[u] /\ stack'[u][i].kind = stack[u][i].kind
               /\ stack[u][i].kind = "msgwait" =>
                      stack'[u][i] = stack[u][i] /\ Len(stack'[u]) = Len(stack[u])
    <3>1. u # v
      BY <1>4
    <3>2. i \in DOMAIN stack[u] /\ i \in Nat /\ Len(stack'[u]) = Len(stack[u])
      BY <1>0, <1>2, <3>1, FrameIndexes DEF Ended
    <3>3. CASE Owes(v, u, i)
      <4>1. Awaits(u, i)
        BY <1>0, <3>2, <3>3 DEF Owes, Answering, AnswersAreAwaited
      <4>2. stack[u][i].kind = "send" /\ stack'[u][i].kind = "send"
        BY <1>2, <3>1, <3>2, <3>3, <4>1 DEF Awaits, Ended
      <4> QED  BY <3>2, <4>2
    <3>4. CASE ~Owes(v, u, i)
      <4>1. /\ stack'[u][i].kind = stack[u][i].kind
            /\ stack[u][i].kind # "call" => stack'[u][i] = stack[u][i]
        BY <1>2, <3>1, <3>2, <3>4 DEF Ended
      <4> QED  BY <3>2, <4>1
    <3> QED  BY <3>3, <3>4
  <2> QED  BY <2>1 DEF KindsStay
<1>6. /\ sent' \in [Thread -> [count : Nat, fresh : BOOLEAN]]
      /\ row' \in [Thread -> [current : BOOLEAN, fresh : BOOLEAN]]
      /\ SentQueueExact' /\ \A u \in Thread : u # v => row'[u] = row[u]
  <2>1. /\ NothingSent \in [count : Nat, fresh : BOOLEAN]
        /\ NothingSent.count = 0 /\ NothingSent.fresh = FALSE
    BY DEF NothingSent
  <2>2. /\ invocations'[v] = <<>>
        /\ \A u \in Thread : u # v => Len(invocations'[u]) = Len(invocations[u])
    BY <1>0, <1>1 DEF ThreadsTyped
  <2>3. NothingSent.count = Len(invocations'[v])
    BY <2>1, <2>2
  <2> QED  BY <1>0, <1>1, <2>1, <2>2, <2>3, ChangeSentKeeps DEF SendsInv
<1>7. /\ MessageWaitsOnTop' /\ NoSleepOverSend'
      /\ \A u \in Thread : HasWait(u)' => HasWait(u)
  BY <1>0, <1>3, <1>4, <1>5, <1>6, KindsStayKeeps DEF SendsInv
<1>8. WaitsAreOpen'
  <2>1. ~HasWait(v)'
    BY <1>4 DEF HasWait
  <2>2. \A u \in Thread : u \in muted => u \in muted' \/ ~HasWait(u)'
    BY <1>1, <2>1
  <2> QED  BY <1>1, <1>7, <2>2, NoCallKeepsOpen DEF SendsInv, OthersWait
<1>9. TypeOK'
  BY <1>0, <1>1, <1>3, <1>6 DEF TypeOK, ThreadsTyped, ThreadStates, Invocation
<1>10. ChosenLives'
  BY <1>1, ExecutingLives DEF ChosenLives
<1> QED  BY <1>3, <1>6, <1>7, <1>8, <1>9, <1>10 DEF SendsInv

(* So does the entry of a queued send.                                     *)
LEMMA EnterProcInv ==
    ASSUME SendsInv, EnterProc
    PROVE  SendsInv'
<1>0. TypeOK /\ Answering /\ ThreadsTyped /\ SentQueueExact /\ NoSleepOverSend
  BY DEF SendsInv, Answering
<1>1. PICK t \in Thread : t = current
  BY <1>0 DEF TypeOK
<1> DEFINE f == [kind |-> "proc", sender |-> Head(invocations[t]).sender,
                 place |-> Head(invocations[t]).place]
           left == sent[t].count - 1
           s == [count |-> left, fresh |-> left > 0 /\ sent[t].fresh]
<1>2. /\ phase = "enter" /\ Enterable(t) /\ stack' = Push(t, f)
      /\ invocations' = [invocations EXCEPT ![t] = Tail(@)]
      /\ ChangeSent(t, s)
      /\ state' = [state EXCEPT ![t] = "Running"] /\ phase' = "idle"
      /\ UNCHANGED <<current, user, dispatch, muted, posted>>
  BY <1>1 DEF EnterProc
<1>3. Frame(t) \in UserWaits /\ invocations[t] # <<>> /\ Frame(t) # "msgwait"
  BY <1>2 DEF Enterable, HasSends, UserWaits
<1>4. Entered(t)
  BY <1>2, <1>3 DEF Entered
<1>5. Live(t) /\ SameLives /\ state' \in [Thread -> ThreadStates]
  <2>1. Live(t)
    BY <1>0, <1>3 DEF Answering, DeadAreEmpty
  <2> QED  BY <1>0, <1>2, <2>1 DEF SameLives, Live, ThreadsTyped, ThreadStates
<1>6. ThreadsTyped' /\ Answering'
  <2>1. stack' \in [Thread -> Seq(FrameType)] /\ invocations' \in [Thread -> Seq(Invocation)]
    BY <1>0, <1>4, EnteredFacts
  <2>2. ThreadsTyped'
    BY <1>5, <2>1 DEF ThreadsTyped
  <2> QED  BY <1>0, <1>4, <1>5, <2>2, EnteredAnswers
<1>7. f \in FrameType /\ f.kind = "proc"
  <2>1. Head(invocations[t]) \in Invocation
    BY <1>0, <1>3, QueueIndexes, HeadTailProperties
  <2> QED  BY <2>1, NewFrames DEF Invocation
<1> HIDE DEF f
<1>8. /\ MessageWaitsOnTop' /\ Frame(t)' = "proc" /\ OthersStay(t)
      /\ HasWait(t)' => HasWait(t)
  <2>1. "proc" \notin UserWaits
    BY DEF UserWaits
  <2> QED  BY <1>0, <1>2, <1>3, <1>7, <2>1, PushFrames DEF SendsInv
<1>9. /\ sent' \in [Thread -> [count : Nat, fresh : BOOLEAN]]
      /\ row' \in [Thread -> [current : BOOLEAN, fresh : BOOLEAN]]
      /\ SentQueueExact' /\ \A u \in Thread : u # t => row'[u] = row[u]
  <2>1. /\ invocations[t] \in Seq(Invocation)
        /\ invocations'[t] = Tail(invocations[t])
        /\ \A u \in Thread : u # t => Len(invocations'[u]) = Len(invocations[u])
    BY <1>0, <1>2 DEF ThreadsTyped
  <2>2. Len(invocations'[t]) = Len(invocations[t]) - 1 /\ Len(invocations[t]) \in Nat \ {0}
    BY <1>3, <2>1
  <2>3. sent[t].count = Len(invocations[t]) /\ sent[t].fresh \in BOOLEAN
    BY <1>0 DEF SentQueueExact, TypeOK
  <2>4. left = Len(invocations'[t]) /\ left \in Nat
    BY <2>2, <2>3
  <2> HIDE DEF left
  <2>5. /\ s \in [count : Nat, fresh : BOOLEAN] /\ s.count = left
        /\ s.fresh => left > 0
    BY <2>3, <2>4
  <2> HIDE DEF s
  <2> QED  BY <1>0, <1>2, <2>1, <2>4, <2>5, ChangeSentKeeps
<1>10. NoSleepOverSend'
  <2>1. ASSUME NEW u \in Thread, Frame(u)' = "msgwait", ~Last(stack[u])'.woken
        PROVE  ~row'[u].fresh
    <3>1. u # t
      BY <1>8, <2>1
    <3>2. stack'[u] = stack[u]
      BY <1>8, <3>1 DEF OthersStay
    <3>3. Frame(u) = "msgwait" /\ ~Last(stack[u]).woken
      BY <2>1, <3>2 DEF Frame
    <3> QED  BY <1>0, <1>9, <3>1, <3>3 DEF NoSleepOverSend
  <2> QED  BY <2>1 DEF NoSleepOverSend
<1>11. WaitsAreOpen'
  BY <1>2, <1>8, StayingWait, NoCallKeepsOpen DEF SendsInv
<1>12. TypeOK'
  BY <1>0, <1>2, <1>6, <1>9 DEF TypeOK, ThreadsTyped, ThreadStates, Invocation
<1>13. ChosenLives'
  BY <1>2 DEF ChosenLives
<1> QED  BY <1>6, <1>8, <1>9, <1>10, <1>11, <1>12, <1>13 DEF SendsInv

(* The invariant holds at first.                                           *)
LEMMA SendsInvFirst == ASSUME Init PROVE SendsInv
<1>1. /\ ThreadsTyped /\ TypeOK
      /\ \A t \in Thread : stack[t] = <<>> /\ DOMAIN stack[t] = {}
      /\ \A t \in Thread : invocations[t] = <<>> /\ DOMAIN invocations[t] = {}
      /\ \A t \in Thread : Live(t)
  BY ConstantsAssumption
     DEF Init, ThreadsTyped, ThreadStates, TypeOK, Thread, NoThread, NothingSent,
         Status, Live
<1>2. AnswersAreAwaited /\ AnswersAreUnique /\ SendsAreAnswered /\ DeadAreEmpty
  BY <1>1 DEF AnswersAreAwaited, AnswersAreUnique, SendsAreAnswered, DeadAreEmpty,
              Queues, Runs, Awaits
<1>3. Aged
  <2>1. PICK age \in [Thread -> [Nat -> Nat]] : TRUE
    <3>1. [t \in Thread |-> [i \in Nat |-> 0]] \in [Thread -> [Nat -> Nat]]
      OBVIOUS
    <3> QED  BY <3>1
  <2>2. AgesGrow(age, 0)
    BY <1>1 DEF AgesGrow, Runs
  <2> QED  BY <2>2 DEF Aged
<1>4. SentQueueExact
  <2>1. \A t \in Thread : sent[t] = NothingSent /\ row[t] = Status(NothingSent)
    BY DEF Init
  <2>2. NothingSent.count = 0 /\ NothingSent.fresh = FALSE
    BY DEF NothingSent
  <2>3. \A t \in Thread : Len(invocations[t]) = 0
    BY <1>1
  <2> QED  BY <2>1, <2>2, <2>3 DEF SentQueueExact
<1>5. NoSleepOverSend /\ MessageWaitsOnTop /\ WaitsAreOpen
  BY <1>1 DEF NoSleepOverSend, Frame, MessageWaitsOnTop, WaitsAreOpen, HasWait
<1>6. ChosenLives
  BY DEF Init, ChosenLives
<1> QED  BY <1>1, <1>2, <1>3, <1>4, <1>5, <1>6 DEF SendsInv, Answering

(* Every step keeps it.                                                    *)
LEMMA SendsInvStep == ASSUME SendsInv, [Next]_vars PROVE SendsInv'
<1>1. CASE UNCHANGED vars
  <2>1. /\ SameLives /\ ChosenLives' /\ state' \in [Thread -> ThreadStates]
        /\ current' \in Thread /\ phase' \in {"idle", "select", "enter"}
        /\ UNCHANGED <<stack, user, invocations, dispatch, muted, sent, row, posted>>
    BY <1>1 DEF vars, SameLives, Live, SendsInv, Answering, ThreadsTyped, TypeOK,
                ChosenLives
  <2> QED  BY <2>1, QuietInv
<1>2. CASE Next
  <2>1. ASSUME NEW t \in Thread, NEW w \in Thread,
               SendRemote(t, w) \/ PostMessage(t, w) \/ Terminate(t, w)
        PROVE  SendsInv'
    BY <2>1, SendRemoteInv, PostMessageInv, TerminateInv
  <2>2. ASSUME NEW t \in Thread,
               \/ SendLocal(t) \/ FailMessageCall(t) \/ GetQueueStatus(t) \/ MsgWait(t)
               \/ ReturnFromCall(t) \/ ReturnFromProc(t)
        PROVE  SendsInv'
    BY <2>2, SendLocalInv, FailMessageCallInv, GetQueueStatusInv, MsgWaitInv,
       ReturnFromCallInv, ReturnFromProcInv
  <2>3. ASSUME NEW t \in Thread, NEW blocking \in BOOLEAN, GetMessage(t, blocking)
        PROVE  SendsInv'
    BY <2>3, GetMessageInv
  <2>4. ASSUME RetryWait \/ BeginPass \/ Select \/ EnterProc \/ EntryFails \/ EnterThread
        PROVE  SendsInv'
    BY <2>4, RetryWaitInv, BeginPassInv, SelectInv, EnterProcInv, EntryFailsInv,
       EnterThreadInv
  <2> QED  BY <1>2, <2>1, <2>2, <2>3, <2>4 DEF Next
<1> QED  BY <1>1, <1>2

(* So it always holds.                                                     *)
LEMMA SendsInvAlways == Spec => []SendsInv
<1>1. Init => SendsInv
  BY SendsInvFirst
<1>2. SendsInv /\ [Next]_vars => SendsInv'
  BY SendsInvStep
<1> QED  BY <1>1, <1>2, PTL DEF Spec

(* Every variable of the message machinery keeps its type: no queue or     *)
(* count is ever taken below what it holds.                                *)
THEOREM SendsAreTyped == Spec => []TypeOK
<1>1. SendsInv => TypeOK
  BY DEF SendsInv
<1> QED  BY <1>1, SendsInvAlways, PTL

(* The three places that know of the queued sends agree in every state,    *)
(* and no message wait sleeps over a send its thread has not seen          *)
(* (ensure_sent_message, change_sent, commit_signals).                     *)
THEOREM StatusIsExact == Spec => []QueueStatusExact
<1>1. SendsInv => QueueStatusExact
  BY DEF SendsInv, QueueStatusExact
<1> QED  BY <1>1, SendsInvAlways, PTL

(* QueuedAt names the places where a send is queued.                       *)
LEMMA QueuedPlaces ==
    ASSUME Answering, NEW s \in Thread, NEW p \in Nat
    PROVE  /\ \A q \in QueuedAt(s, p) :
                  \E t \in Thread : \E i \in Nat : q = <<t, i>> /\ Queues(t, i, s, p)
           /\ \A t \in Thread : \A i \in Nat :
                  Queues(t, i, s, p) => <<t, i>> \in QueuedAt(s, p)
<1> DEFINE e == [sender |-> s, place |-> p]
<1>1. ASSUME NEW t \in Thread, NEW i \in DOMAIN invocations[t]
      PROVE  i \in Nat /\ (invocations[t][i] = e <=> Queues(t, i, s, p))
  <2>1. invocations[t][i] \in [sender : Thread, place : Nat \ {0}] /\ i \in Nat
    BY QueueIndexes DEF Answering, Invocation
  <2>2. /\ e.sender = s /\ e.place = p
        /\ invocations[t][i].sender = s /\ invocations[t][i].place = p
               => invocations[t][i] = e
    BY <2>1
  <2> HIDE DEF e
  <2> QED  BY <2>1, <2>2 DEF Queues
<1> HIDE DEF e
<1>2. ASSUME NEW q \in QueuedAt(s, p)
      PROVE  \E t \in Thread : \E i \in Nat : q = <<t, i>> /\ Queues(t, i, s, p)
  <2>1. q \in Queued /\ invocations[q[1]][q[2]] = e
    BY DEF QueuedAt, e
  <2>2. PICK t \in Thread : \E i \in DOMAIN invocations[t] : q = <<t, i>>
    BY <2>1 DEF Queued
  <2>3. PICK i \in DOMAIN invocations[t] : q = <<t, i>>
    BY <2>2
  <2>4. invocations[t][i] = e
    BY <2>1, <2>3
  <2> QED  BY <1>1, <2>3, <2>4
<1>3. ASSUME NEW t \in Thread, NEW i \in Nat, Queues(t, i, s, p)
      PROVE  <<t, i>> \in QueuedAt(s, p)
  <2>1. i \in DOMAIN invocations[t]
    BY <1>3 DEF Queues
  <2>2. <<t, i>> \in Queued
    BY <2>1 DEF Queued
  <2>3. invocations[t][i] = e
    BY <1>1, <1>3, <2>1
  <2> QED  BY <2>2, <2>3 DEF QueuedAt, e
<1> QED  BY <1>2, <1>3

(* ActiveAt names the procedures that answer a send.                       *)
LEMMA ActivePlaces ==
    ASSUME Answering, NEW s \in Thread, NEW p \in Nat
    PROVE  /\ \A a \in ActiveAt(s, p) :
                  \E t \in Thread : \E i \in Nat : a = <<t, i>> /\ Runs(t, i, s, p)
           /\ \A t \in Thread : \A i \in Nat :
                  Runs(t, i, s, p) => <<t, i>> \in ActiveAt(s, p)
<1> DEFINE Active == UNION {{t} \X Procs(t) : t \in Thread}
<1>1. ASSUME NEW a \in ActiveAt(s, p)
      PROVE  \E t \in Thread : \E i \in Nat : a = <<t, i>> /\ Runs(t, i, s, p)
  <2>1. a \in Active /\ stack[a[1]][a[2]].sender = s /\ stack[a[1]][a[2]].place = p
    BY DEF ActiveAt
  <2>2. PICK t \in Thread : \E i \in Procs(t) : a = <<t, i>>
    BY <2>1
  <2>3. PICK i \in Procs(t) : a = <<t, i>>
    BY <2>2
  <2>4. stack[t][i].sender = s /\ stack[t][i].place = p
    BY <2>1, <2>3
  <2>5. i \in DOMAIN stack[t] /\ stack[t][i].kind = "proc" /\ i \in Nat
    BY FrameIndexes DEF Answering, Procs
  <2> QED  BY <2>3, <2>4, <2>5 DEF Runs
<1>2. ASSUME NEW t \in Thread, NEW i \in Nat, Runs(t, i, s, p)
      PROVE  <<t, i>> \in ActiveAt(s, p)
  <2>1. i \in Procs(t) /\ stack[t][i].sender = s /\ stack[t][i].place = p
    BY <1>2 DEF Runs, Procs
  <2>2. <<t, i>> \in Active
    BY <2>1
  <2> QED  BY <2>1, <2>2 DEF ActiveAt
<1> QED  BY <1>1, <1>2

(* A live thread that waits in SendMessage is owed exactly one answer, by  *)
(* a queued or an active invocation of a live thread, and none once it is  *)
(* answered, through every order of nested sends, exits and terminations.  *)
THEOREM SendsAreOwedOneAnswer == Spec => []SendsHaveOneAnswerer
<1>1. ASSUME SendsInv PROVE SendsHaveOneAnswerer
  <2>0. Answering
    BY <1>1 DEF SendsInv
  <2>1. \A t \in Thread : HasSends(t) => Live(t)
    BY <2>0 DEF Answering, DeadAreEmpty, HasSends
  <2>2. ASSUME NEW s \in Thread, NEW p \in DOMAIN stack[s], stack[s][p].kind = "send"
        PROVE  IF stack[s][p].ready
               THEN QueuedAt(s, p) = {} /\ ActiveAt(s, p) = {}
               ELSE \/ OneAndNone(QueuedAt(s, p), ActiveAt(s, p))
                    \/ OneAndNone(ActiveAt(s, p), QueuedAt(s, p))
    <3>1. p \in Nat /\ Live(s)
      <4>1. p \in Nat
        BY <2>0, FrameIndexes DEF Answering
      <4>2. stack[s] # <<>>
        OBVIOUS
      <4> QED  BY <2>0, <4>1, <4>2 DEF Answering, DeadAreEmpty
    <3>2. CASE stack[s][p].ready
      <4>1. ~Awaits(s, p)
        BY <3>2 DEF Awaits
      <4>2. \A t \in Thread : \A i \in Nat : ~Queues(t, i, s, p) /\ ~Runs(t, i, s, p)
        BY <2>0, <3>1, <4>1 DEF Answering, AnswersAreAwaited
      <4>3. QueuedAt(s, p) = {}
        BY <2>0, <3>1, <4>2, QueuedPlaces
      <4>4. ActiveAt(s, p) = {}
        BY <2>0, <3>1, <4>2, ActivePlaces
      <4> QED  BY <3>2, <4>3, <4>4
    <3>3. CASE ~stack[s][p].ready
      <4>1. Awaits(s, p)
        BY <2>2, <3>3 DEF Awaits
      <4>2. PICK t \in Thread, i \in Nat : Queues(t, i, s, p) \/ Runs(t, i, s, p)
        BY <2>0, <3>1, <4>1 DEF Answering, SendsAreAnswered
      <4>3. \A u \in Thread : \A j \in Nat :
                /\ Queues(t, i, s, p) /\ Queues(u, j, s, p) => u = t /\ j = i
                /\ Runs(t, i, s, p) /\ Runs(u, j, s, p) => u = t /\ j = i
                /\ ~(Queues(t, i, s, p) /\ Runs(u, j, s, p))
                /\ ~(Queues(u, j, s, p) /\ Runs(t, i, s, p))
        BY <2>0, <3>1 DEF Answering, AnswersAreUnique
      <4>4. CASE Queues(t, i, s, p)
        <5>1. <<t, i>> \in QueuedAt(s, p) /\ \A q \in QueuedAt(s, p) : q = <<t, i>>
          BY <2>0, <3>1, <4>3, <4>4, QueuedPlaces
        <5>2. ActiveAt(s, p) = {}
          BY <2>0, <3>1, <4>3, <4>4, ActivePlaces
        <5>3. QueuedAt(s, p) = {<<t, i>>}
          BY <5>1
        <5>4. OneAndNone(QueuedAt(s, p), ActiveAt(s, p))
          BY <5>1, <5>2, <5>3 DEF OneAndNone
        <5> QED  BY <3>3, <5>4
      <4>5. CASE Runs(t, i, s, p)
        <5>1. <<t, i>> \in ActiveAt(s, p) /\ \A a \in ActiveAt(s, p) : a = <<t, i>>
          BY <2>0, <3>1, <4>3, <4>5, ActivePlaces
        <5>2. QueuedAt(s, p) = {}
          BY <2>0, <3>1, <4>3, <4>5, QueuedPlaces
        <5>3. ActiveAt(s, p) = {<<t, i>>}
          BY <5>1
        <5>4. OneAndNone(ActiveAt(s, p), QueuedAt(s, p))
          BY <5>1, <5>2, <5>3 DEF OneAndNone
        <5> QED  BY <3>3, <5>4
      <4> QED  BY <4>2, <4>4, <4>5
    <3> QED  BY <3>2, <3>3
  <2> QED  BY <2>1, <2>2 DEF SendsHaveOneAnswerer
<1>2. SendsInv => SendsHaveOneAnswerer
  BY <1>1
<1> QED  BY <1>2, SendsInvAlways, PTL

(* The order of the numbers, as a set of pairs.                            *)
Less == {ss \in Nat \X Nat : ss[1] < ss[2]}

(* The order of the numbers has no endless descent.                        *)
LEMMA LessIsWellFounded == IsWellFoundedOn(Less, Nat)
  BY NatLessThanWellFounded, Zenon DEF OpToRel, Less

(* A set of numbers that is not empty has a least one.                     *)
LEMMA LeastNumber ==
    ASSUME NEW S, S \subseteq Nat, S # {}
    PROVE  \E m \in S : \A k \in S : m <= k
<1>1. PICK m \in S : \A k \in S : <<k, m>> \notin Less
  BY LessIsWellFounded, WFMin
<1>2. ASSUME NEW k \in S PROVE m <= k
  <2>1. ~(k < m)
    BY <1>1 DEF Less
  <2> QED  BY <2>1
<1> QED  BY <1>2

(* Every live thread waits for an answer, and no send of a live thread is  *)
(* queued for one.                                                         *)
AllWait ==
    \A t \in Thread : Live(t) => Frame(t) = "send" /\ ~Ready(t) /\ ~HasLiveSend(t)

(* A send on top of a stack that is not ready waits for its answer.        *)
LEMMA TopSend ==
    ASSUME Answering, NEW t \in Thread, Frame(t) = "send", ~Ready(t)
    PROVE  \E n \in Nat : /\ n = Len(stack[t]) /\ n \in DOMAIN stack[t]
                          /\ DOMAIN stack[t] = 1 .. n /\ Awaits(t, n)
<1>1. stack[t] # <<>> /\ Last(stack[t]).kind = "send"
  BY DEF Frame
<1>2. ~Last(stack[t]).ready
  BY DEF Ready
<1>3. stack[t] \in Seq(FrameType)
  BY DEF Answering, ThreadsTyped
<1>4. PICK n \in Nat \ {0} : n = Len(stack[t]) /\ Last(stack[t]) = stack[t][n]
  BY <1>1, <1>3, FrontOf
<1>5. DOMAIN stack[t] = 1 .. n /\ n \in 1 .. n
  BY <1>4, FrameIndexes DEF Answering
<1>6. Awaits(t, n)
  BY <1>1, <1>2, <1>4, <1>5 DEF Awaits
<1> QED  BY <1>4, <1>5, <1>6

(* The procedure that answers the send on top of t is below the send on    *)
(* top of its own thread.                                                  *)
LEMMA AnswererWaits ==
    ASSUME Answering, AllWait, NEW t \in Thread, Live(t)
    PROVE  \E n \in Nat : \E u \in Thread : \E i \in Nat : \E m \in Nat :
               /\ n = Len(stack[t]) /\ n \in DOMAIN stack[t]
               /\ Live(u) /\ m = Len(stack[u]) /\ Runs(u, i, t, n)
               /\ i \in DOMAIN stack[u] /\ m \in DOMAIN stack[u] /\ i < m
<1>1. PICK n \in Nat : n = Len(stack[t]) /\ n \in DOMAIN stack[t] /\ Awaits(t, n)
  BY TopSend DEF AllWait
<1>2. PICK u \in Thread, i \in Nat : Queues(u, i, t, n) \/ Runs(u, i, t, n)
  BY <1>1 DEF Answering, SendsAreAnswered
<1>3. ~Queues(u, i, t, n)
  <2>1. ASSUME Queues(u, i, t, n) PROVE FALSE
    <3>1. i \in DOMAIN invocations[u] /\ invocations[u][i].sender = t
      BY <2>1 DEF Queues
    <3>2. HasLiveSend(u)
      BY <3>1 DEF HasLiveSend
    <3>3. invocations[u] # <<>>
      BY <3>1
    <3>4. Live(u)
      BY <3>3 DEF Answering, DeadAreEmpty
    <3> QED  BY <3>2, <3>4 DEF AllWait
  <2> QED  BY <2>1
<1>4. Runs(u, i, t, n) /\ i \in DOMAIN stack[u]
  BY <1>2, <1>3 DEF Runs
<1>5. Live(u)
  <2>1. stack[u] # <<>>
    BY <1>4
  <2> QED  BY <2>1 DEF Answering, DeadAreEmpty
<1>6. PICK m \in Nat : /\ m = Len(stack[u]) /\ m \in DOMAIN stack[u]
                       /\ DOMAIN stack[u] = 1 .. m /\ Awaits(u, m)
  BY <1>5, TopSend DEF AllWait
<1>7. i # m
  BY <1>4, <1>6 DEF Runs, Awaits
<1>8. i < m
  BY <1>4, <1>6, <1>7
<1> QED  BY <1>1, <1>4, <1>5, <1>6, <1>8

(* So that thread waits for an answer to a younger send.                   *)
LEMMA YoungerSend ==
    ASSUME Answering, AllWait, NEW age \in [Thread -> [Nat -> Nat]], NEW b \in Nat,
           AgesGrow(age, b), NEW t \in Thread, Live(t)
    PROVE  /\ age[t][Len(stack[t])] \in Nat /\ age[t][Len(stack[t])] < b
           /\ \E u \in Thread : Live(u) /\ age[t][Len(stack[t])] < age[u][Len(stack[u])]
<1>1. PICK n \in Nat, u \in Thread, i \in Nat, m \in Nat :
          /\ n = Len(stack[t]) /\ n \in DOMAIN stack[t]
          /\ Live(u) /\ m = Len(stack[u]) /\ Runs(u, i, t, n)
          /\ i \in DOMAIN stack[u] /\ m \in DOMAIN stack[u] /\ i < m
  BY AnswererWaits
<1>2. age[t][n] \in Nat /\ age[u][i] \in Nat /\ age[u][m] \in Nat
  OBVIOUS
<1>3. age[t][n] < b
  BY <1>1 DEF AgesGrow
<1>4. age[t][n] < age[u][i]
  BY <1>1 DEF AgesGrow
<1>5. age[u][i] < age[u][m]
  BY <1>1 DEF AgesGrow
<1>6. age[t][n] < age[u][m]
  BY <1>2, <1>4, <1>5
<1> QED  BY <1>1, <1>2, <1>3, <1>6

(* Some thread lives, and all that live wait for an answer.                *)
Circle ==
    /\ \E t \in Thread : Live(t)
    /\ \A t \in Thread : Live(t) => Frame(t) = "send" /\ ~Ready(t)

(* Live threads that all wait for answers have a send of one of them to    *)
(* enter, and each such send enters unless its wait is closed, its sender  *)
(* has ended or its receiver runs as many procedures as it may.            *)
THEOREM CirclesStandForAReason == Spec => []CirclesStopForAReason
<1>1. ASSUME SendsInv, Circle, \A t \in Thread : Live(t) => ~HasLiveSend(t)
      PROVE  FALSE
  <2>1. Answering
    BY <1>1 DEF SendsInv
  <2>2. AllWait
    BY <1>1 DEF Circle, AllWait
  <2>3. PICK age \in [Thread -> [Nat -> Nat]], b \in Nat : AgesGrow(age, b)
    BY <2>1 DEF Answering, Aged
  <2> DEFINE top(u) == age[u][Len(stack[u])]
             left(u) == b - top(u)
             S == {left(u) : u \in {w \in Thread : Live(w)}}
  <2>4. ASSUME NEW t \in Thread, Live(t)
        PROVE  /\ top(t) \in Nat /\ top(t) < b
               /\ \E u \in Thread : Live(u) /\ top(t) < top(u)
    BY <2>1, <2>2, <2>3, <2>4, YoungerSend
  <2> HIDE DEF top
  <2>5. ASSUME NEW t \in Thread, Live(t)
        PROVE  left(t) \in Nat /\ \E u \in Thread : Live(u) /\ left(u) < left(t)
    <3>1. PICK u \in Thread : Live(u) /\ top(t) < top(u)
      BY <2>4, <2>5
    <3>2. top(t) \in Nat /\ top(t) < b /\ top(u) \in Nat /\ top(u) < b
      BY <2>4, <2>5, <3>1
    <3>3. left(t) \in Nat /\ left(u) < left(t)
      BY <3>1, <3>2
    <3> QED  BY <3>1, <3>3
  <2> HIDE DEF left
  <2>6. S \subseteq Nat /\ S # {}
    <3>1. PICK t \in Thread : Live(t)
      BY <1>1 DEF Circle
    <3> QED  BY <2>5, <3>1
  <2>7. PICK m \in S : \A k \in S : m <= k
    BY <2>6, LeastNumber
  <2>8. PICK t \in Thread : Live(t) /\ m = left(t)
    BY <2>7
  <2>9. PICK u \in Thread : Live(u) /\ left(u) < left(t)
    BY <2>5, <2>8
  <2>10. left(u) \in Nat /\ left(t) \in Nat /\ left(t) <= left(u)
    BY <2>5, <2>7, <2>8, <2>9
  <2> HIDE DEF S
  <2> QED  BY <2>9, <2>10
<1>2. ASSUME SendsInv, Circle, NEW t \in Thread, Live(t), HasSends(t), t \notin muted
      PROVE  Enterable(t)
  <2>1. Frame(t) = "send" /\ ~Ready(t)
    BY <1>2 DEF Circle
  <2>2. PICK n \in DOMAIN stack[t] : Awaits(t, n)
    BY <1>2, <2>1, TopSend DEF SendsInv
  <2>3. HasWait(t)
    BY <2>2 DEF HasWait, UserWaits, Awaits
  <2>4. dispatch[t]
    BY <1>2, <2>3 DEF SendsInv, WaitsAreOpen
  <2> QED  BY <1>2, <2>1, <2>4 DEF Enterable, UserWaits
<1>3. ASSUME SendsInv, Circle
      PROVE  /\ \E t \in Thread : Live(t) /\ HasLiveSend(t)
             /\ \A t \in Thread : Live(t) /\ HasSends(t) =>
                    \/ CanEnter(t)
                    \/ t \in muted
                    \/ ~Live(Head(invocations[t]).sender)
                    \/ Cardinality(Procs(t)) = DepthLimit
  BY <1>1, <1>2, <1>3 DEF CanEnter, Refused
<1>4. SendsInv => CirclesStopForAReason
  BY <1>3 DEF Circle, CirclesStopForAReason
<1> QED  BY <1>4, SendsInvAlways, PTL

-----------------------------------------------------------------------------
(* What a step must know of the queues of posted messages.                 *)
PostedCounts == posted \in [Thread -> Nat]

(* No thread with a queued send loses a posted message in a step, unless   *)
(* the step ends it.                                                       *)
SendsGoFirst ==
    \A t \in Thread :
        posted'[t] < posted[t] /\ state'[t] # "Terminated" => ~HasSends(t)

(* retrieve_message takes a message from the queue of its own thread only.  *)
LEMMA RetrievedTakesOne ==
    ASSUME PostedCounts, NEW t, NEW base, NEW blocking,
           Retrieved(t, base, blocking)
    PROVE  /\ PostedCounts'
           /\ \A u \in Thread : posted'[u] < posted[u] => u = t
  BY SMT DEF PostedCounts, Retrieved

(* So does the end of a wait; one for an answer or in a message wait takes *)
(* none.                                                                   *)
LEMMA EndWaitTakesOne ==
    ASSUME PostedCounts, NEW t, Ready(t), EndWait(t)
    PROVE  /\ PostedCounts'
           /\ \A u \in Thread : posted'[u] < posted[u] =>
                  u = t /\ Frame(t) \in {"retrieve", "wait"}
<1> DEFINE f == Last(stack[t])
<1>1. /\ Frame(t) = f.kind
      /\ f.kind \in {"send", "retrieve", "wait", "msgwait"}
  BY DEF Ready, Frame
<1>2. CASE f.kind \in {"send", "msgwait"}
  <2>1. UNCHANGED posted
    BY <1>2 DEF EndWait
  <2> QED  BY <2>1 DEF PostedCounts
<1>3. CASE f.kind \in {"retrieve", "wait"}
  <2>1. \E blocking : Retrieved(t, Front(stack[t]), blocking)
    BY <1>3 DEF EndWait
  <2> QED  BY <1>1, <1>3, <2>1, RetrievedTakesOne
<1> QED  BY <1>1, <1>2, <1>3

(* The scheduler leaves a user32 wait alone while a send is queued.        *)
LEMMA ResumeReadyGoesFirst ==
    ASSUME PostedCounts, NEW t, ResumeReady(t)
    PROVE  PostedCounts' /\ SendsGoFirst
<1>1. CASE Ready(t) /\ (Frame(t) = "msgwait" \/ ~HasSends(t))
  <2>1. EndWait(t)
    BY <1>1 DEF ResumeReady
  <2> QED  BY <1>1, <2>1, EndWaitTakesOne DEF SendsGoFirst
<1>2. CASE ~(Ready(t) /\ (Frame(t) = "msgwait" \/ ~HasSends(t)))
  <2>1. UNCHANGED posted
    BY <1>2 DEF ResumeReady
  <2> QED  BY <2>1 DEF PostedCounts, SendsGoFirst
<1> QED  BY <1>1, <1>2

(* The host may retry the wait at any time, and is told to wait as well.   *)
LEMMA RetryWaitGoesFirst ==
    ASSUME PostedCounts, RetryWait
    PROVE  PostedCounts' /\ SendsGoFirst
<1>1. CASE Frame(current) # "send" /\ HasSends(current)
  <2>1. UNCHANGED posted
    BY <1>1 DEF RetryWait
  <2> QED  BY <2>1 DEF PostedCounts, SendsGoFirst
<1>2. CASE ~(Frame(current) # "send" /\ HasSends(current))
  <2>1. Ready(current) /\ EndWait(current)
    BY <1>2 DEF RetryWait
  <2> QED  BY <1>2, <2>1, EndWaitTakesOne DEF SendsGoFirst
<1> QED  BY <1>1, <1>2

(* Nor do GetMessage and PeekMessage take a message past a queued send.    *)
LEMMA GetMessageGoesFirst ==
    ASSUME PostedCounts, NEW t, NEW blocking \in BOOLEAN, GetMessage(t, blocking)
    PROVE  PostedCounts' /\ SendsGoFirst
<1>1. CASE HasSends(t)
  <2>1. UNCHANGED posted
    BY <1>1 DEF GetMessage
  <2> QED  BY <2>1 DEF PostedCounts, SendsGoFirst
<1>2. CASE ~HasSends(t)
  <2>1. Retrieved(t, stack[t], blocking /\ HasSlot(t))
    BY <1>2 DEF GetMessage
  <2> QED  BY <1>2, <2>1, RetrievedTakesOne DEF SendsGoFirst
<1> QED  BY <1>1, <1>2

(* PostMessage takes no message away.                                      *)
LEMMA PostMessageGoesFirst ==
    ASSUME PostedCounts, NEW t \in Thread, NEW w \in Thread, PostMessage(t, w)
    PROVE  PostedCounts' /\ SendsGoFirst
<1> DEFINE n == IF posted[w] < PostLimit THEN posted[w] + 1 ELSE posted[w]
<1>1. posted' = [posted EXCEPT ![w] = n]
  BY DEF PostMessage
<1>2. posted[w] \in Nat /\ n \in Nat /\ ~(n < posted[w])
  BY DEF PostedCounts
<1>3. PostedCounts'
  BY <1>1, <1>2 DEF PostedCounts
<1>4. ASSUME NEW u \in Thread PROVE ~(posted'[u] < posted[u])
  <2>1. posted'[u] = IF u = w THEN n ELSE posted[u]
    BY <1>1 DEF PostedCounts
  <2>2. posted[u] \in Nat
    BY DEF PostedCounts
  <2> QED  BY <1>2, <2>1, <2>2
<1> QED  BY <1>3, <1>4 DEF SendsGoFirst

(* The messages of a thread that ends go with it.                          *)
LEMMA TerminateGoesFirst ==
    ASSUME PostedCounts, NEW t \in Thread, NEW v \in Thread, Terminate(t, v)
    PROVE  PostedCounts' /\ SendsGoFirst
<1>1. posted' = [posted EXCEPT ![v] = 0]
  BY DEF Terminate
<1>2. state'[v] = "Terminated"
  BY DEF Terminate
<1>3. PostedCounts'
  BY <1>1 DEF PostedCounts
<1>4. ASSUME NEW u \in Thread, u # v PROVE ~(posted'[u] < posted[u])
  <2>1. posted'[u] = posted[u] /\ posted[u] \in Nat
    BY <1>1, <1>4 DEF PostedCounts
  <2> QED  BY <2>1
<1> QED  BY <1>2, <1>3, <1>4 DEF SendsGoFirst

(* Every step keeps the counts natural and lets sends go first.            *)
LEMMA StepsGoFirst ==
    ASSUME PostedCounts, [Next]_vars
    PROVE  PostedCounts' /\ SendsGoFirst
<1> DEFINE Goal == PostedCounts' /\ SendsGoFirst
<1>1. UNCHANGED posted => Goal
  BY DEF PostedCounts, SendsGoFirst
<1>2. ASSUME NEW t \in Thread, NEW w \in Thread, SendRemote(t, w) PROVE Goal
  BY <1>1, <1>2 DEF SendRemote
<1>3. ASSUME NEW t \in Thread, SendLocal(t) PROVE Goal
  BY <1>1, <1>3 DEF SendLocal
<1>4. ASSUME NEW t \in Thread, FailMessageCall(t) PROVE Goal
  BY <1>1, <1>4 DEF FailMessageCall
<1>5. ASSUME NEW t \in Thread, NEW b \in BOOLEAN, GetMessage(t, b) PROVE Goal
  BY <1>5, GetMessageGoesFirst
<1>6. ASSUME NEW t \in Thread, NEW w \in Thread, PostMessage(t, w) PROVE Goal
  BY <1>6, PostMessageGoesFirst
<1>7. ASSUME NEW t \in Thread, GetQueueStatus(t) PROVE Goal
  BY <1>1, <1>7 DEF GetQueueStatus
<1>8. ASSUME NEW t \in Thread, MsgWait(t) PROVE Goal
  BY <1>1, <1>8 DEF MsgWait
<1>9. ASSUME NEW t \in Thread, ReturnFromCall(t) PROVE Goal
  BY <1>1, <1>9 DEF ReturnFromCall
<1>10. ASSUME NEW t \in Thread, ReturnFromProc(t) PROVE Goal
  BY <1>1, <1>10 DEF ReturnFromProc
<1>11. ASSUME NEW t \in Thread, NEW v \in Thread, Terminate(t, v) PROVE Goal
  BY <1>11, TerminateGoesFirst
<1>12. RetryWait => Goal
  BY RetryWaitGoesFirst
<1>13. BeginPass => Goal
  BY ResumeReadyGoesFirst DEF BeginPass
<1>14. Select => Goal
  BY <1>1 DEF Select
<1>15. EnterProc => Goal
  BY <1>1 DEF EnterProc
<1>16. EntryFails => Goal
  BY <1>1 DEF EntryFails
<1>17. EnterThread => Goal
  BY ResumeReadyGoesFirst DEF EnterThread
<1>18. UNCHANGED vars => Goal
  BY <1>1 DEF vars
<1> QED
  BY <1>2, <1>3, <1>4, <1>5, <1>6, <1>7, <1>8, <1>9, <1>10, <1>11, <1>12,
     <1>13, <1>14, <1>15, <1>16, <1>17, <1>18 DEF Next

(* GetMessage and PeekMessage hand out no posted message while a send is   *)
(* queued for the thread, whoever resumes the wait: the scheduler for the  *)
(* current thread or one it switches to, or the retry of the host.         *)
THEOREM SendsComeFirst == Spec => SentBeforePosted
<1>1. Init => PostedCounts
  BY DEF Init, PostedCounts
<1>2. PostedCounts /\ [Next]_vars => PostedCounts' /\ SendsGoFirst
  BY StepsGoFirst
<1>3. Spec => []PostedCounts
  BY <1>1, <1>2, PTL DEF Spec
<1>4. PostedCounts /\ [Next]_vars => [SendsGoFirst]_vars
  BY <1>2
<1> QED
  BY <1>3, <1>4, PTL DEF Spec, SentBeforePosted, SendsGoFirst

=============================================================================
