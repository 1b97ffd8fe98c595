------------------------- MODULE ResumedCallsProofs --------------------------
(***************************************************************************)
(* Theorems about the calls of PendingCalls that become pending again, and *)
(* about the providers that answer them.                                   *)
(***************************************************************************)
EXTENDS PendingCallsProofs

(* The guest of an execution (a context or a parked part of one) is stopped *)
(* as it was when the pending call was captured.                            *)
Fits(e) == e.pending # NoCall => e.stop = e.pending.stop

AllFit(c) == Fits(c) /\ \A i \in 1 .. Len(c.parked) : Fits(c.parked[i])

FitInv == \A t \in Threads : AllFit(ctx[t])

LEMMA AnsweredFits ==
  ASSUME NEW c, AllFit(c), NEW d, d.parked = c.parked,
         \/ d.pending = NoCall
         \/ d.pending = c.pending /\ d.stop = c.stop
         \/ d.stop = d.pending.stop
  PROVE  AllFit(d)
BY DEF AllFit, Fits

LEMMA CompletedFits == ASSUME NEW c \in Context, AllFit(c) PROVE AllFit(Completed(c))
<1>1. Completed(c).parked = c.parked /\ Completed(c).pending = NoCall
  BY DEF Completed, Context
<1> QED
  BY <1>1, AnsweredFits

LEMMA StagedFits == ASSUME NEW c \in Context, AllFit(c), NEW stage
                    PROVE  AllFit(Staged(c, stage))
<1> DEFINE d == Staged(c, stage)
<1>1. d.parked = c.parked /\ d.pending = c.pending /\ d.stop = c.stop
  BY DEF Staged, SetReply, Context
<1> HIDE DEF d
<1>2. AllFit(d)
  BY <1>1, AnsweredFits
<1> QED
  BY <1>2 DEF d

LEMMA PublishedFits == ASSUME NEW c \in Context, AllFit(c) PROVE AllFit(Published(c))
<1>1. Published(c).parked = c.parked /\ Published(c).pending = NoCall
  BY DEF Published, Completed, Context
<1> QED
  BY <1>1, AnsweredFits

LEMMA AdvancedFits ==
  ASSUME NEW c \in Context, AllFit(c), NEW d \in Advanced(c) PROVE AllFit(d)
BY StagedFits, PublishedFits DEF Advanced

LEMMA RetriedFits ==
  ASSUME NEW c \in Context, AllFit(c), NEW d \in Retried(c) PROVE AllFit(d)
<1>1. d \in Advanced(c) \cup {c, Published(c)}
  BY DEF Retried
<1> QED
  BY <1>1, AdvancedFits, PublishedFits

LEMMA ServicedFits ==
  ASSUME NEW c \in Context, AllFit(c), NEW owner, NEW k, NEW d \in Serviced(c, owner, k)
  PROVE  AllFit(d)
<1>1. AllFit([c EXCEPT !.blocked = k])
  <2> DEFINE e == [c EXCEPT !.blocked = k]
  <2>1. e.parked = c.parked /\ e.pending = c.pending /\ e.stop = c.stop
    BY DEF Context
  <2> HIDE DEF e
  <2>2. AllFit(e)
    BY <2>1, AnsweredFits
  <2> QED
    BY <2>2 DEF e
<1>2. \A stage : AllFit(NewReply(c, owner, k, stage))
  <2> SUFFICES ASSUME NEW stage PROVE AllFit(NewReply(c, owner, k, stage))
    OBVIOUS
  <2> DEFINE e == NewReply(c, owner, k, stage)
  <2>1. e.parked = c.parked /\ e.pending = c.pending /\ e.stop = c.stop
    BY DEF NewReply, Context
  <2> HIDE DEF e
  <2>2. AllFit(e)
    BY <2>1, AnsweredFits
  <2> QED
    BY <2>2 DEF e
<1> QED
  BY <1>1, <1>2, CompletedFits DEF Serviced

(* The frame of a callback keeps the stop of the call under it. *)
LEMMA ResumedFits == ASSUME NEW c \in Context, AllFit(c) PROVE AllFit(Resumed(c))
<1> DEFINE d == Resumed(c)
<1>1. d.parked = c.parked /\ d.stop = d.pending.stop
  BY DEF Resumed, Context
<1> HIDE DEF d
<1>2. AllFit(d)
  BY <1>1, AnsweredFits
<1> QED
  BY <1>2 DEF d

(* What a parked operation took away is put back as it was. *)
LEMMA ParkedFits ==
  ASSUME NEW c \in Context, AllFit(c), NEW p, p.pending = c.pending, p.stop = c.stop,
         NEW d, d.parked = Append(c.parked, p), d.pending = NoCall
  PROVE  AllFit(d)
<1>1. \E S : c.parked \in Seq(S) /\ p \in S
  <2> DEFINE S == Parked \cup {p}
  <2>1. c.parked \in Seq(Parked)
    BY DEF Context, Parked
  <2>2. c.parked \in Seq(S)
    BY <2>1
  <2> QED
    BY <2>2
<1>2. PICK S : c.parked \in Seq(S) /\ p \in S
  BY <1>1
<1>3. /\ Len(d.parked) = Len(c.parked) + 1
      /\ \A i \in 1 .. Len(c.parked) : d.parked[i] = c.parked[i]
      /\ d.parked[Len(c.parked) + 1] = p
      /\ Len(c.parked) \in Nat
  BY <1>2
<1>4. Fits(p)
  BY DEF AllFit, Fits
<1>5. \A i \in 1 .. Len(d.parked) : i \in 1 .. Len(c.parked) \/ i = Len(c.parked) + 1
  BY <1>3
<1>6. \A i \in 1 .. Len(d.parked) : Fits(d.parked[i])
  BY <1>3, <1>4, <1>5 DEF AllFit
<1> QED
  BY <1>6 DEF AllFit, Fits

LEMMA UnparkedFits ==
  ASSUME NEW c \in Context, AllFit(c), c.parked # <<>>,
         NEW d, d.parked = SubSeq(c.parked, 1, Len(c.parked) - 1),
         d.pending = c.parked[Len(c.parked)].pending,
         d.stop = c.parked[Len(c.parked)].stop
  PROVE  AllFit(d)
<1>1. c.parked \in Seq(Parked)
  BY DEF Context, Parked
<1>2. /\ Len(d.parked) = Len(c.parked) - 1
      /\ \A i \in 1 .. Len(c.parked) - 1 : d.parked[i] = c.parked[i]
  BY <1>1, Below
<1>3. Len(c.parked) \in Nat /\ Len(c.parked) >= 1
  BY <1>1, LastElement
<1>4. Fits(c.parked[Len(c.parked)])
  BY <1>3 DEF AllFit
<1>5. \A i \in 1 .. Len(d.parked) : i \in 1 .. Len(c.parked) /\ i \in 1 .. Len(c.parked) - 1
  BY <1>2, <1>3
<1> QED
  BY <1>2, <1>4, <1>5 DEF AllFit, Fits

-----------------------------------------------------------------------------
(* One lemma per group of actions. *)

Fitted == \E d : Update(d) /\ AllFit(d)

LEMMA HeldFits == ASSUME TypeOK, FitInv
                  PROVE  ctx[current] \in Context /\ AllFit(ctx[current])
BY DEF TypeOK, FitInv

LEMMA RunFits == ASSUME TypeOK, FitInv, Run PROVE Fitted
<1> DEFINE c == ctx[current]
<1>1. c \in Context /\ AllFit(c)
  BY HeldFits
<1>2. PICK s : Update([c EXCEPT !.stop = s])
  BY DEF Run
<1>3. c.pending = NoCall
  BY DEF Run, MayRun
<1> DEFINE d == [c EXCEPT !.stop = s]
<1>4. d.parked = c.parked /\ d.pending = NoCall
  BY <1>1, <1>3 DEF Context
<1> HIDE DEF d, c
<1>5. AllFit(d)
  BY <1>1, <1>4, AnsweredFits
<1> QED
  BY <1>2, <1>5 DEF Fitted, c, d

LEMMA CaptureFits == ASSUME TypeOK, FitInv, NEW owner \in Owners, Capture(owner)
                     PROVE  Fitted
<1> DEFINE c == ctx[current]
           p == [token |-> NextToken, owner |-> owner, stop |-> c.stop]
           d == [c EXCEPT !.pending = p]
<1>1. c \in Context /\ AllFit(c)
  BY HeldFits
<1>2. d.parked = c.parked /\ d.stop = d.pending.stop
  BY <1>1 DEF Context
<1>3. Update(d)
  BY DEF Capture
<1> HIDE DEF d, c
<1>4. AllFit(d)
  BY <1>1, <1>2, AnsweredFits
<1> QED
  BY <1>3, <1>4 DEF Fitted

LEMMA AnswersFit ==
  ASSUME TypeOK, FitInv, NEW k \in Tokens, NEW owner \in Owners,
         CompleteCall(owner, k) \/ AbandonCall(k) \/ WindowsCall(owner, k)
  PROVE  Fitted
<1> DEFINE c == ctx[current]
<1>1. c \in Context /\ AllFit(c)
  BY HeldFits
<1>2. CASE CompleteCall(owner, k)
  BY <1>1, <1>2, CompletedFits DEF CompleteCall, Fitted
<1>3. CASE AbandonCall(k)
  <2> DEFINE d == [c EXCEPT !.pending = NoCall]
  <2>1. d.parked = c.parked /\ d.pending = NoCall
    BY <1>1 DEF Context
  <2>2. Update(d)
    BY <1>3 DEF AbandonCall
  <2> HIDE DEF d, c
  <2>3. AllFit(d)
    BY <1>1, <2>1, AnsweredFits
  <2> QED
    BY <2>2, <2>3 DEF Fitted
<1>4. CASE WindowsCall(owner, k)
  <2>1. CASE \E d \in Retried(c) : d # c /\ Update(d)
    BY <1>1, <2>1, RetriedFits DEF Fitted
  <2>2. CASE Update(Completed([c EXCEPT !.blocked = 0]))
    <3> DEFINE e == [c EXCEPT !.blocked = 0]
    <3>1. e \in Context
      BY <1>1, Limits DEF Context
    <3>2. e.parked = c.parked /\ e.pending = c.pending /\ e.stop = c.stop
      BY <1>1 DEF Context
    <3>3. Update(Completed(e))
      BY <2>2
    <3> HIDE DEF e, c
    <3>4. AllFit(e)
      BY <1>1, <3>2, AnsweredFits
    <3> QED
      BY <3>1, <3>3, <3>4, CompletedFits DEF Fitted
  <2>3. CASE \E d \in Serviced(c, owner, k) : Update(d)
    BY <1>1, <2>3, ServicedFits DEF Fitted
  <2> QED
    BY <1>4, <2>1, <2>2, <2>3 DEF WindowsCall
<1> QED
  BY <1>2, <1>3, <1>4

LEMMA EndsFit ==
  ASSUME TypeOK, FitInv, NEW k \in Tokens,
         FinishCallback(k) \/ AbortCallback(k) \/ FinishWindowsCallback(k)
  PROVE  Fitted
<1> DEFINE c == ctx[current]
<1>1. c \in Context /\ AllFit(c)
  BY HeldFits
<1>2. AllFit(Resumed(c))
  BY <1>1, ResumedFits
<1>3. CASE FinishCallback(k) \/ AbortCallback(k)
  BY <1>2, <1>3 DEF FinishCallback, AbortCallback, Fitted
<1>4. CASE FinishWindowsCallback(k)
  <2> DEFINE received == Staged(Resumed(c), "received")
  <2>1. c.stack # <<>> /\ c.replies # <<>>
    BY <1>4 DEF FinishWindowsCallback, HasReturned
  <2>2. Resumed(c) \in Context /\ Resumed(c).replies = c.replies
    BY <1>1, <2>1, ResumedType DEF Resumed, Context
  <2>3. received \in Context
    BY <2>1, <2>2, StagedType DEF Stages
  <2>4. AllFit(received)
    BY <1>2, <2>2, StagedFits
  <2>5. PICK d \in {received} \cup Retried(received) : Update(d)
    BY <1>4 DEF FinishWindowsCallback
  <2> HIDE DEF received
  <2>6. AllFit(d)
    BY <2>3, <2>4, <2>5, RetriedFits
  <2> QED
    BY <2>5, <2>6 DEF Fitted
<1> QED
  BY <1>3, <1>4

LEMMA ResidentsFit ==
  ASSUME TypeOK, FitInv, NEW k \in Tokens,
         Authorize(k) \/ \E u \in Units : SelectUnit(k, u)
  PROVE  Fitted
<1> DEFINE c == ctx[current]
<1>1. c \in Context /\ AllFit(c)
  BY HeldFits
<1>2. PICK s : Update([c EXCEPT !.stack = s])
  <2>1. CASE Authorize(k)
    <3>1. [c EXCEPT !.stack[Len(c.stack)].authorized = TRUE]
            = [c EXCEPT !.stack = [c.stack EXCEPT ![Len(c.stack)].authorized = TRUE]]
      OBVIOUS
    <3> QED
      BY <2>1, <3>1 DEF Authorize
  <2>2. CASE \E u \in Units : SelectUnit(k, u)
    <3>1. PICK u \in Units : SelectUnit(k, u)
      BY <2>2
    <3>2. [c EXCEPT !.stack[Len(c.stack)].active = u]
            = [c EXCEPT !.stack = [c.stack EXCEPT ![Len(c.stack)].active = u]]
      OBVIOUS
    <3> QED
      BY <3>1, <3>2 DEF SelectUnit
  <2> QED
    BY <2>1, <2>2
<1> DEFINE d == [c EXCEPT !.stack = s]
<1>3. d.parked = c.parked /\ d.pending = c.pending /\ d.stop = c.stop
  BY <1>1 DEF Context
<1> HIDE DEF d, c
<1>4. AllFit(d)
  BY <1>1, <1>3, AnsweredFits
<1> QED
  BY <1>2, <1>4 DEF Fitted, d, c

LEMMA GenerationsFit == ASSUME TypeOK, FitInv, Compile \/ ResumeCallbackCode
                        PROVE  Fitted
<1> DEFINE c == ctx[current]
           g == NextGeneration
<1>1. c \in Context /\ AllFit(c)
  BY HeldFits
<1> DEFINE e == [c EXCEPT !.generation = g]
<1>2. e.parked = c.parked /\ e.pending = c.pending /\ e.stop = c.stop
  BY <1>1 DEF Context
<1>3. CASE Compile
  <2>1. Update(e)
    BY <1>3 DEF Compile
  <2> HIDE DEF e, c
  <2>2. AllFit(e)
    BY <1>1, <1>2, AnsweredFits
  <2> QED
    BY <2>1, <2>2 DEF Fitted
<1>4. CASE ResumeCallbackCode
  <2> DEFINE n == Len(c.stack)
             f == [e EXCEPT !.stack[n].generation = g]
             d == [f EXCEPT !.stack[n].outer.owner = Replacement(g)]
  <2>1. f.parked = e.parked /\ f.pending = e.pending /\ f.stop = e.stop
    BY <1>1 DEF Context
  <2>2. d.parked = f.parked /\ d.pending = f.pending /\ d.stop = f.stop
    BY <1>1 DEF Context
  <2>3. Update(d)
    BY <1>4 DEF ResumeCallbackCode
  <2> HIDE DEF c, d, e, f
  <2>4. AllFit(d)
    BY <1>1, <1>2, <2>1, <2>2, AnsweredFits
  <2> QED
    BY <2>3, <2>4 DEF Fitted
<1> QED
  BY <1>3, <1>4

LEMMA CallbacksFit ==
  ASSUME TypeOK, FitInv, (\E form : BeginCallback(form)) \/ BeginWindowsCallback
  PROVE  Fitted
<1> DEFINE c == ctx[current]
<1>1. c \in Context /\ AllFit(c)
  BY HeldFits
<1>2. \A form, unit, home :
        /\ Suspended(c, form, unit, home).parked = c.parked
        /\ Suspended(c, form, unit, home).pending = NoCall
  BY <1>1 DEF Suspended, Context
<1>3. CASE \E form : BeginCallback(form)
  <2>1. PICK form, unit, home : Update(Suspended(c, form, unit, home))
    BY <1>3 DEF BeginCallback
  <2> HIDE DEF c
  <2>2. AllFit(Suspended(c, form, unit, home))
    BY <1>1, <1>2, AnsweredFits
  <2> QED
    BY <2>1, <2>2 DEF Fitted
<1>4. CASE BeginWindowsCallback
  <2>1. PICK form, unit, home, r :
          Update(SetReply(Suspended(c, form, unit, home), r))
    BY <1>4 DEF BeginWindowsCallback
  <2> DEFINE e == Suspended(c, form, unit, home)
             d == SetReply(e, r)
  <2>2. d.parked = c.parked /\ d.pending = NoCall
    BY <1>1 DEF SetReply, Suspended, Context
  <2> HIDE DEF c, d, e
  <2>3. AllFit(d)
    BY <1>1, <2>2, AnsweredFits
  <2> QED
    BY <2>1, <2>3 DEF Fitted, d, e
<1> QED
  BY <1>3, <1>4

LEMMA ModulesFit == ASSUME TypeOK, FitInv, ParkModule \/ UnparkModule PROVE Fitted
<1> DEFINE c == ctx[current]
<1>1. c \in Context /\ AllFit(c)
  BY HeldFits
<1>2. CASE ParkModule
  <2> DEFINE p == [pending |-> c.pending, stack |-> c.stack, replies |-> c.replies,
                   stop |-> c.stop, generation |-> c.generation]
             d == [EmptyContext EXCEPT !.parked = Append(c.parked, p)]
  <2>1. Update(d)
    BY <1>2 DEF ParkModule
  <2>2. d.parked = Append(c.parked, p) /\ d.pending = NoCall
    BY DEF EmptyContext
  <2>3. p.pending = c.pending /\ p.stop = c.stop
    OBVIOUS
  <2> HIDE DEF p, d, c
  <2>4. AllFit(d)
    BY <1>1, <2>2, <2>3, ParkedFits
  <2> QED
    BY <2>1, <2>4 DEF Fitted
<1>3. CASE UnparkModule
  <2> DEFINE p == c.parked[Len(c.parked)]
             restored == [pending |-> p.pending, stack |-> p.stack,
                          replies |-> p.replies, blocked |-> 0, stop |-> p.stop,
                          generation |-> p.generation,
                          parked |-> SubSeq(c.parked, 1, Len(c.parked) - 1)]
  <2>1. restored \in Context /\ c.parked # <<>>
    BY <1>1, <1>3, UnparkedType DEF UnparkModule
  <2>2. PICK d \in {restored, Completed(restored)} : Update(d)
    BY <1>3 DEF UnparkModule
  <2>3. AllFit(restored)
    BY <1>1, <2>1, UnparkedFits
  <2> HIDE DEF restored
  <2>4. AllFit(d)
    BY <2>1, <2>2, <2>3, CompletedFits
  <2> QED
    BY <2>2, <2>4 DEF Fitted
<1> QED
  BY <1>2, <1>3

LEMMA ResumeWaitFits == ASSUME TypeOK, FitInv, ResumeWait PROVE Fitted
<1>1. PICK d \in Advanced(ctx[current]) : Update(d)
  BY DEF ResumeWait
<1> QED
  BY <1>1, HeldFits, AdvancedFits DEF Fitted

LEMMA NextFits == ASSUME TypeOK, FitInv, [Next]_vars PROVE FitInv'
<1>1. Fitted \/ UNCHANGED ctx
  <2>1. \A k \in 1 .. callToken : k \in Tokens
    BY Limits DEF TypeOK, Tokens
  <2>2. CASE Run
    BY <2>2, RunFits
  <2>3. CASE \E owner \in Owners : Capture(owner)
    BY <2>3, CaptureFits
  <2>4. CASE Answer
    <3>1. PICK k \in 1 .. callToken :
            \/ \E owner \in Owners : CompleteCall(owner, k) \/ WindowsCall(owner, k)
            \/ AbandonCall(k)
            \/ FinishCallback(k) \/ AbortCallback(k) \/ FinishWindowsCallback(k)
            \/ Authorize(k)
            \/ \E u \in Units : SelectUnit(k, u)
      BY <2>4 DEF Answer
    <3>2. k \in Tokens /\ Core \in Owners
      BY <2>1 DEF Owners
    <3>3. CASE \/ \E owner \in Owners : CompleteCall(owner, k) \/ WindowsCall(owner, k)
               \/ AbandonCall(k)
      BY <3>2, <3>3, AnswersFit
    <3>4. CASE FinishCallback(k) \/ AbortCallback(k) \/ FinishWindowsCallback(k)
      BY <3>2, <3>4, EndsFit
    <3>5. CASE Authorize(k) \/ \E u \in Units : SelectUnit(k, u)
      BY <3>2, <3>5, ResidentsFit
    <3> QED
      BY <3>1, <3>3, <3>4, <3>5
  <2>5. CASE \E form \in {"core", "replacement", "resident"} : BeginCallback(form)
    BY <2>5, CallbacksFit
  <2>6. CASE BeginWindowsCallback
    BY <2>6, CallbacksFit
  <2>7. CASE ResumeWait
    BY <2>7, ResumeWaitFits
  <2>8. CASE ParkModule \/ UnparkModule
    BY <2>8, ModulesFit
  <2>9. CASE Compile \/ ResumeCallbackCode
    BY <2>9, GenerationsFit
  <2>10. CASE \E t \in Threads : Switch(t)
    BY <2>10 DEF Switch
  <2>11. CASE UNCHANGED vars
    BY <2>11 DEF vars
  <2> QED
    BY <2>2, <2>3, <2>4, <2>5, <2>6, <2>7, <2>8, <2>9, <2>10, <2>11 DEF Next
<1>2. CASE Fitted
  <2>1. PICK d : ctx' = [ctx EXCEPT ![current] = d] /\ AllFit(d)
    BY <1>2 DEF Fitted, Update
  <2>2. \A t \in Threads : AllFit(ctx'[t])
    BY <2>1 DEF TypeOK, FitInv
  <2> QED
    BY <2>2 DEF FitInv, AllFit, Fits
<1>3. CASE UNCHANGED ctx
  BY <1>3 DEF FitInv, AllFit, Fits
<1> QED
  BY <1>1, <1>2, <1>3

LEMMA InitFits == Init => FitInv
<1>1. AllFit(EmptyContext)
  BY DEF AllFit, Fits, EmptyContext
<1> QED
  BY <1>1 DEF Init, FitInv

(* Whatever callbacks, loads of modules and thread switches come between,  *)
(* a pending call finds the guest stopped as it was at the capture: the     *)
(* comparison checked_pending_call makes never rejects the answer.          *)
THEOREM ResumedCallsFit == Spec => []ResumedCallsAreAnswerable
<1>1. TypeOK /\ FitInv /\ [Next]_vars => TypeOK' /\ FitInv'
  BY NextType, NextFits
<1>2. FitInv => ResumedCallsAreAnswerable
  BY DEF FitInv, AllFit, Fits, ResumedCallsAreAnswerable
<1> QED
  BY <1>1, <1>2, InitType, InitFits, PTL DEF Spec

-----------------------------------------------------------------------------
(* What links a provider to its call. *)

(* A frame runs the callback a reply waits for, for the call it answers.   *)
Runs(f, r) ==
    /\ f.token = r.callback.token
    /\ f.form = r.callback.form
    /\ f.generation = r.callback.generation
    /\ f.home = r.callback.home
    /\ f.outer.token = r.token
    /\ f.outer.owner = r.owner

(* Replies wait for younger and younger callbacks; the last one may wait   *)
(* for none.                                                               *)
Ranked(R) ==
    \A i, n \in 1 .. Len(R) :
       i < n => /\ R[i].stage = "running"
                /\ R[n].stage = "running"
                     => R[i].callback.token < R[n].callback.token

(* The replies of an execution with stack s wait for callbacks in it.      *)
Backed(s, R) ==
    /\ \A i \in 1 .. Len(R) :
          R[i].stage = "running" => \E j \in 1 .. Len(s) : Runs(s[j], R[i])
    /\ Ranked(R)

(* All replies but the last wait for callbacks in s.                       *)
BackedBelow(s, R) ==
    \A i \in 1 .. Len(R) - 1 : \E j \in 1 .. Len(s) : Runs(s[j], R[i])

(* All replies wait for callbacks.                                         *)
Idle(R) == R # <<>> => R[Len(R)].stage = "running"

(* The providers of a context: the one that is not waiting for a callback, *)
(* in its reply or blocked, answers the pending call; whoever is parked    *)
(* waits for callbacks.                                                    *)
Linked(c) ==
    /\ Backed(c.stack, c.replies)
    /\ ~Idle(c.replies) => /\ c.pending # NoCall
                           /\ c.pending.token = LastReply(c).token
                           /\ c.pending.owner = LastReply(c).owner
                           /\ c.blocked = 0
    /\ c.blocked # 0 => c.pending # NoCall /\ c.pending.token = c.blocked
    /\ \A i \in 1 .. Len(c.parked) :
          /\ Backed(c.parked[i].stack, c.parked[i].replies)
          /\ Idle(c.parked[i].replies)

LinkInv == \A t \in Threads : Linked(ctx[t])

(* The host ends only the callbacks it has begun, gives new code only to   *)
(* them, and leaves a callback alone while a provider serves a call in it. *)
LeavesProviders ==
    \A t \in Threads : Host[t] \cap {"finish_core", "migrate", "abort_served"} = {}

(* Replies stay backed when their callbacks stay.                          *)
LEMMA BackedKept ==
  ASSUME NEW s, NEW R, Backed(s, R), NEW z,
         \A i \in 1 .. Len(R), j \in 1 .. Len(s) :
            R[i].stage = "running" /\ Runs(s[j], R[i])
              => \E k \in 1 .. Len(z) : Runs(z[k], R[i])
  PROVE  Backed(z, R)
<1>1. \A i \in 1 .. Len(R) :
         R[i].stage = "running" => \E k \in 1 .. Len(z) : Runs(z[k], R[i])
  BY DEF Backed, Ranked
<1> QED
  BY <1>1 DEF Backed, Ranked

(* A new reply comes on top of replies that wait.                          *)
LEMMA BackedMore ==
  ASSUME NEW s, NEW R \in Seq(Reply), Backed(s, R), Idle(R),
         NEW r \in Reply, r.stage # "running"
  PROVE  Backed(s, Append(R, r)) /\ Append(R, r) # <<>>
         /\ Append(R, r)[Len(Append(R, r))] = r
<1> DEFINE Q == Append(R, r)
<1>1. /\ Len(Q) = Len(R) + 1 /\ Q[Len(R) + 1] = r /\ Len(R) \in Nat /\ Q # <<>>
      /\ \A i \in 1 .. Len(R) : Q[i] = R[i]
  OBVIOUS
<1> HIDE DEF Q
<1>2. \A i \in 1 .. Len(R) : R[i].stage = "running"
  <2> SUFFICES ASSUME NEW i \in 1 .. Len(R) PROVE R[i].stage = "running"
    OBVIOUS
  <2>1. CASE i = Len(R)
    <3>1. R # <<>>
      OBVIOUS
    <3> QED
      BY <2>1, <3>1 DEF Idle
  <2>2. CASE i # Len(R)
    <3>1. i < Len(R) /\ Len(R) \in 1 .. Len(R)
      BY <1>1, <2>2
    <3> QED
      BY <3>1 DEF Backed, Ranked
  <2> QED
    BY <2>1, <2>2
<1>3. \A i \in 1 .. Len(Q) : i \in 1 .. Len(R) \/ i = Len(R) + 1
  BY <1>1
<1>4. \A i, n \in 1 .. Len(Q) : i < n => i \in 1 .. Len(R)
  BY <1>1
<1>5. \A i \in 1 .. Len(Q) :
         Q[i].stage = "running" => \E j \in 1 .. Len(s) : Runs(s[j], Q[i])
  BY <1>1, <1>3 DEF Backed, Ranked
<1>6. ASSUME NEW i \in 1 .. Len(Q), NEW n \in 1 .. Len(Q), i < n
      PROVE  /\ Q[i].stage = "running"
             /\ Q[n].stage = "running" => Q[i].callback.token < Q[n].callback.token
  <2>1. i \in 1 .. Len(R) /\ Q[i] = R[i]
    BY <1>1, <1>4, <1>6
  <2>2. Q[n].stage = "running" => n \in 1 .. Len(R) /\ Q[n] = R[n]
    BY <1>1, <1>3
  <2> QED
    BY <1>2, <1>6, <2>1, <2>2 DEF Backed, Ranked
<1>7. Backed(s, Q)
  BY <1>5, <1>6 DEF Backed, Ranked
<1> QED
  BY <1>1, <1>7 DEF Q

(* A reply that is published leaves replies that wait.                     *)
LEMMA BackedLess ==
  ASSUME NEW s, NEW R \in Seq(Reply), Backed(s, R), R # <<>>
  PROVE  LET Q == SubSeq(R, 1, Len(R) - 1) IN Backed(s, Q) /\ Idle(Q)
<1> DEFINE Q == SubSeq(R, 1, Len(R) - 1)
<1>1. /\ Len(Q) = Len(R) - 1 /\ Q \in Seq(Reply)
      /\ \A i \in 1 .. Len(R) - 1 : Q[i] = R[i]
  BY Below
<1>2. Len(R) \in Nat /\ Len(R) >= 1 /\ Len(R) \in 1 .. Len(R)
  OBVIOUS
<1> HIDE DEF Q
<1>3. \A i \in 1 .. Len(Q) : i \in 1 .. Len(R) /\ i < Len(R) /\ Q[i] = R[i]
  BY <1>1, <1>2
<1>4. Backed(s, Q)
  BY <1>3 DEF Backed, Ranked
<1>5. Q # <<>> => Len(Q) \in 1 .. Len(Q)
  BY <1>1
<1>6. Idle(Q)
  BY <1>2, <1>3, <1>5 DEF Backed, Ranked, Idle
<1> QED
  BY <1>4, <1>6 DEF Q

(* The last reply moves on, and no callback of it is left.                 *)
LEMMA BackedStaged ==
  ASSUME NEW R \in Seq(Reply), R # <<>>, Ranked(R),
         NEW r, r.stage # "running", NEW Q, Q = [R EXCEPT ![Len(R)] = r],
         NEW z, BackedBelow(z, R)
  PROVE  Backed(z, Q)
<1>1. /\ Len(R) \in Nat /\ Len(Q) = Len(R) /\ Q[Len(R)] = r
      /\ \A i \in 1 .. Len(R) - 1 : Q[i] = R[i]
  OBVIOUS
<1>2. \A i \in 1 .. Len(Q) : i = Len(R) \/ i \in 1 .. Len(R) - 1
  BY ONLY <1>1
<1>3. \A i \in 1 .. Len(Q) :
         Q[i].stage = "running" => \E j \in 1 .. Len(z) : Runs(z[j], Q[i])
  BY ONLY <1>1, <1>2, r.stage # "running", BackedBelow(z, R) DEF BackedBelow
<1>4. ASSUME NEW i \in 1 .. Len(Q), NEW n \in 1 .. Len(Q), i < n
      PROVE  /\ Q[i].stage = "running"
             /\ Q[n].stage = "running" => Q[i].callback.token < Q[n].callback.token
  <2>1. i \in 1 .. Len(R) - 1 /\ i \in 1 .. Len(R) /\ n \in 1 .. Len(R)
    BY ONLY <1>1, <1>2, <1>4
  <2>2. Q[n].stage = "running" => Q[n] = R[n]
    BY ONLY <1>1, <1>2, r.stage # "running"
  <2> QED
    BY ONLY <1>1, <1>4, <2>1, <2>2, r.stage # "running", Ranked(R) DEF Ranked
<1> QED
  BY <1>3, <1>4 DEF Backed, Ranked

(* The last reply waits for a new callback, younger than all the others.   *)
LEMMA BackedBegun ==
  ASSUME NEW s \in Seq(Frame), NEW R \in Seq(Reply), R # <<>>, Backed(s, R),
         NEW f \in Frame, NEW r, r.stage = "running", Runs(f, r),
         \A j \in 1 .. Len(s) : s[j].token < f.token
  PROVE  Backed(Append(s, f), [R EXCEPT ![Len(R)] = r])
<1> DEFINE Q == [R EXCEPT ![Len(R)] = r]
           z == Append(s, f)
<1>1. /\ Len(R) \in Nat /\ Len(R) >= 1 /\ Len(Q) = Len(R) /\ Q[Len(R)] = r
      /\ \A i \in 1 .. Len(R) - 1 : Q[i] = R[i]
  OBVIOUS
<1>2. /\ Len(s) \in Nat /\ Len(z) = Len(s) + 1 /\ z[Len(s) + 1] = f
      /\ \A j \in 1 .. Len(s) : z[j] = s[j]
  OBVIOUS
<1> HIDE DEF Q, z
<1>3. \A i \in 1 .. Len(Q) : i = Len(R) \/ i \in 1 .. Len(R) - 1
  BY <1>1
<1>4. \A i \in 1 .. Len(R) - 1 : /\ i \in 1 .. Len(R) /\ i < Len(R)
                                 /\ Len(R) \in 1 .. Len(R)
  BY <1>1
<1>5. \A i \in 1 .. Len(R) - 1 :
         R[i].stage = "running" /\ \E j \in 1 .. Len(s) : Runs(s[j], R[i])
  BY <1>4 DEF Backed, Ranked
<1>6. \A j \in 1 .. Len(s) : j \in 1 .. Len(z)
  BY <1>2
<1>7. Len(s) + 1 \in 1 .. Len(z)
  BY <1>2
<1>8. ASSUME NEW i \in 1 .. Len(Q) PROVE \E j \in 1 .. Len(z) : Runs(z[j], Q[i])
  <2>1. CASE i = Len(R)
    BY <1>1, <1>2, <1>7, <2>1
  <2>2. CASE i \in 1 .. Len(R) - 1
    BY <1>1, <1>2, <1>5, <1>6, <2>2
  <2> QED
    BY <1>3, <2>1, <2>2
<1>9. ASSUME NEW i \in 1 .. Len(Q), NEW n \in 1 .. Len(Q), i < n
      PROVE  /\ Q[i].stage = "running"
             /\ Q[n].stage = "running" => Q[i].callback.token < Q[n].callback.token
  <2>1. i \in 1 .. Len(R) - 1 /\ Q[i] = R[i]
    BY <1>1, <1>3, <1>9
  <2>2. CASE n = Len(R)
    <3>1. PICK j \in 1 .. Len(s) : Runs(s[j], R[i])
      BY <1>5, <2>1
    <3>2. s[j].token = R[i].callback.token /\ f.token = r.callback.token
      BY <3>1 DEF Runs
    <3> QED
      BY <1>1, <1>5, <2>1, <2>2, <3>2
  <2>3. CASE n \in 1 .. Len(R) - 1
    BY <1>1, <1>4, <1>9, <2>1, <2>3 DEF Backed, Ranked
  <2> QED
    BY <1>3, <2>2, <2>3
<1>10. Backed(z, Q)
  BY <1>8, <1>9 DEF Backed, Ranked
<1> QED
  BY <1>10 DEF Q, z

-----------------------------------------------------------------------------
(* The operators on contexts keep the links of the providers. *)

(* A call that no provider owns leaves every provider waiting.             *)
LEMMA NoneServes ==
  ASSUME NEW c \in Context, Linked(c),
         c.pending = NoCall \/ ~ProviderOwns(c, c.pending.token)
  PROVE  Idle(c.replies) /\ c.blocked = 0
<1>1. Idle(c.replies)
  <2> SUFFICES ASSUME ~Idle(c.replies) PROVE FALSE
    OBVIOUS
  <2>1. c.pending # NoCall /\ c.pending.token = LastReply(c).token
    BY DEF Linked
  <2>2. c.replies # <<>>
    BY DEF Idle
  <2>3. Len(c.replies) \in DOMAIN c.replies
    BY <2>2, Fields
  <2> QED
    BY <2>1, <2>3 DEF ProviderOwns, LastReply
<1>2. c.blocked = 0
  BY DEF Linked, ProviderOwns
<1> QED
  BY <1>1, <1>2

(* Contexts with the same providers, whose callbacks stay.                 *)
LEMMA LinkedKept ==
  ASSUME NEW c, Linked(c), NEW d, d.parked = c.parked, d.replies = c.replies,
         d.blocked = c.blocked, Backed(d.stack, c.replies),
         \/ d.pending = c.pending
         \/ Idle(c.replies) /\ c.blocked = 0
  PROVE  Linked(d)
BY DEF Linked, LastReply

LEMMA CompletedLinked ==
  ASSUME NEW c \in Context, Linked(c), Idle(c.replies), c.blocked = 0
  PROVE  Linked(Completed(c))
<1> DEFINE d == Completed(c)
<1>1. /\ d.parked = c.parked /\ d.replies = c.replies /\ d.blocked = c.blocked
      /\ d.stack = c.stack
  BY DEF Completed, Context
<1> HIDE DEF d
<1>2. Backed(d.stack, c.replies)
  BY <1>1 DEF Linked
<1>3. Linked(d)
  BY <1>1, <1>2, LinkedKept
<1> QED
  BY <1>3 DEF d

(* The provider that answers is the last one; the others wait.             *)
LEMMA PublishedLinked ==
  ASSUME NEW c \in Context, Linked(c), c.replies # <<>>, c.blocked = 0
  PROVE  Linked(Published(c))
<1> DEFINE d == Published(c)
           Q == SubSeq(c.replies, 1, Len(c.replies) - 1)
<1>1. /\ d.parked = c.parked /\ d.replies = Q /\ d.blocked = c.blocked
      /\ d.stack = c.stack
  BY DEF Published, Completed, Context
<1>2. Backed(c.stack, Q) /\ Idle(Q)
  BY Fields, BackedLess DEF Linked
<1> HIDE DEF d, Q
<1>3. Linked(d)
  BY <1>1, <1>2 DEF Linked
<1> QED
  BY <1>3 DEF d

(* The last reply of c is r in d, and nothing else is changed.             *)
LastIs(c, d, r) ==
    /\ d.parked = c.parked /\ d.stack = c.stack
    /\ d.pending = c.pending /\ d.blocked = c.blocked
    /\ d.replies = [c.replies EXCEPT ![Len(c.replies)] = r]
    /\ r.token = LastReply(c).token /\ r.owner = LastReply(c).owner

(* What Staged changes.                                                    *)
LEMMA StagedParts ==
  ASSUME NEW c \in Context, c.replies # <<>>, NEW stage, NEW d, d = Staged(c, stage)
  PROVE  \E r : LastIs(c, d, r) /\ r.stage = stage
<1>1. PICK x \in Reply : x = LastReply(c)
  BY LastReplyFields
<1>2. PICK r : r = [x EXCEPT !.stage = stage, !.callback = NotRunning]
  OBVIOUS
<1>3. r.stage = stage /\ r.token = x.token /\ r.owner = x.owner
  BY <1>2 DEF Reply
<1> DEFINE Q == [c.replies EXCEPT ![Len(c.replies)] = r]
<1>4. d = [c EXCEPT !.replies = Q]
  BY <1>1, <1>2 DEF Staged, SetReply
<1> HIDE DEF Q
<1>5. /\ d.parked = c.parked /\ d.stack = c.stack
      /\ d.pending = c.pending /\ d.blocked = c.blocked /\ d.replies = Q
  BY <1>4 DEF Context
<1>6. LastIs(c, d, r)
  BY <1>1, <1>3, <1>5 DEF Q, LastIs
<1> QED
  BY <1>3, <1>6

LEMMA StagedLinked ==
  ASSUME NEW c \in Context, Linked(c), ~Idle(c.replies), NEW stage, stage # "running"
  PROVE  Linked(Staged(c, stage))
<1>1. c.replies # <<>> /\ c.replies \in Seq(Reply) /\ Len(c.replies) \in Nat
  <2>1. c.replies # <<>> /\ c.replies \in Seq(Reply)
    BY Fields DEF Idle
  <2> QED
    BY <2>1
<1>2. PICK d : d = Staged(c, stage)
  OBVIOUS
<1>3. PICK r : LastIs(c, d, r) /\ r.stage = stage
  BY <1>1, <1>2, StagedParts
<1>4. /\ d.parked = c.parked /\ d.stack = c.stack /\ d.pending = c.pending
      /\ d.blocked = c.blocked
      /\ d.replies = [c.replies EXCEPT ![Len(c.replies)] = r]
      /\ r.token = LastReply(c).token /\ r.owner = LastReply(c).owner
  BY <1>3 DEF LastIs
<1>5. Len(d.replies) = Len(c.replies) /\ d.replies[Len(d.replies)] = r
  BY <1>1, <1>4
<1>6. \A i \in 1 .. Len(c.replies) - 1 : /\ i \in 1 .. Len(c.replies)
                                         /\ i < Len(c.replies)
                                         /\ Len(c.replies) \in 1 .. Len(c.replies)
  BY <1>1
<1>7. Ranked(c.replies) /\ BackedBelow(c.stack, c.replies)
  BY <1>6 DEF Linked, Backed, BackedBelow, Ranked
<1>8. Backed(d.stack, d.replies)
  BY <1>1, <1>3, <1>4, <1>7, BackedStaged
<1>9. LastReply(d).token = LastReply(c).token /\ LastReply(d).owner = LastReply(c).owner
  BY <1>4, <1>5 DEF LastReply
<1>10. Linked(d)
  BY <1>4, <1>8, <1>9 DEF Linked
<1> QED
  BY <1>2, <1>10

LEMMA AdvancedLinked ==
  ASSUME NEW c \in Context, Linked(c), ~Idle(c.replies), NEW d \in Advanced(c)
  PROVE  Linked(d)
<1>1. c.replies # <<>> /\ c.blocked = 0
  BY DEF Idle, Linked
<1> QED
  BY <1>1, StagedLinked, PublishedLinked DEF Advanced

LEMMA RetriedLinked ==
  ASSUME NEW c \in Context, Linked(c), c.replies # <<>>, NEW d \in Retried(c)
  PROVE  Linked(d)
<1>1. CASE d = c
  BY <1>1
<1>2. CASE d # c
  <2>1. /\ LastReply(c).stage \in {"received", "complete"}
        /\ d \in Advanced(c) \cup {c, Published(c)}
    BY <1>2 DEF Retried
  <2>2. ~Idle(c.replies)
    BY <2>1 DEF Idle, LastReply
  <2>3. c.blocked = 0
    BY <2>2 DEF Linked
  <2> QED
    BY <2>1, <2>2, <2>3, AdvancedLinked, PublishedLinked
<1> QED
  BY <1>1, <1>2

LEMMA NewReplyLinked ==
  ASSUME NEW c \in Context, Linked(c), Idle(c.replies), c.blocked = 0,
         c.pending # NoCall, NEW owner \in Owners, NEW k \in Tokens,
         c.pending.token = k, c.pending.owner = owner,
         NEW stage \in Stages \ {"running"}
  PROVE  Linked(NewReply(c, owner, k, stage))
<1> DEFINE d == NewReply(c, owner, k, stage)
           r == [owner |-> owner, token |-> k, stage |-> stage, callback |-> NotRunning]
<1>1. r \in Reply /\ r.stage # "running" /\ r.token = k /\ r.owner = owner
  BY DEF Reply
<1>2. /\ d.parked = c.parked /\ d.replies = Append(c.replies, r)
      /\ d.blocked = c.blocked /\ d.stack = c.stack /\ d.pending = c.pending
  BY DEF NewReply, Context
<1> HIDE DEF d, r
<1>3. /\ Backed(c.stack, d.replies) /\ d.replies # <<>>
      /\ d.replies[Len(d.replies)] = r
  <2>1. c.replies \in Seq(Reply) /\ Backed(c.stack, c.replies)
    BY Fields DEF Linked
  <2> QED
    BY <1>1, <1>2, <2>1, BackedMore
<1>4. Linked(d)
  BY <1>1, <1>2, <1>3 DEF Linked, LastReply
<1> QED
  BY <1>4 DEF d

LEMMA ServicedLinked ==
  ASSUME NEW c \in Context, Linked(c), Idle(c.replies), c.blocked = 0,
         c.pending # NoCall, NEW owner \in Owners, NEW k \in Tokens,
         c.pending.token = k, c.pending.owner = owner,
         NEW d \in Serviced(c, owner, k)
  PROVE  Linked(d)
<1>1. Linked([c EXCEPT !.blocked = k])
  <2> DEFINE e == [c EXCEPT !.blocked = k]
  <2>1. /\ e.parked = c.parked /\ e.replies = c.replies /\ e.stack = c.stack
        /\ e.pending = c.pending /\ e.blocked = k
    BY DEF Context
  <2> HIDE DEF e
  <2>2. Linked(e)
    BY <2>1 DEF Linked
  <2> QED
    BY <2>2 DEF e
<1>2. \A stage \in {"ready", "wait"} : Linked(NewReply(c, owner, k, stage))
  BY NewReplyLinked DEF Stages
<1>3. \/ d = Completed(c)
      \/ d = [c EXCEPT !.blocked = k]
      \/ d \in {NewReply(c, owner, k, stage) : stage \in {"ready", "wait"}}
  BY DEF Serviced
<1> QED
  BY <1>1, <1>2, <1>3, CompletedLinked

(* A callback begins under all that wait.                                  *)
LEMMA BegunBacked ==
  ASSUME NEW c \in Context, Backed(c.stack, c.replies), NEW f
  PROVE  Backed(Append(c.stack, f), c.replies)
<1> DEFINE z == Append(c.stack, f)
<1>1. /\ Len(c.stack) \in Nat /\ Len(z) = Len(c.stack) + 1
      /\ \A j \in 1 .. Len(c.stack) : j \in 1 .. Len(z) /\ z[j] = c.stack[j]
  BY Fields
<1> HIDE DEF z
<1>2. Backed(z, c.replies)
  BY <1>1, BackedKept
<1> QED
  BY <1>2 DEF z

(* The innermost callback, whose token is like no other, is dropped.       *)
LEMMA DroppedBacked ==
  ASSUME NEW c \in Context, c.stack # <<>>, NEW i \in 1 .. Len(c.replies),
         NEW j \in 1 .. Len(c.stack), Runs(c.stack[j], c.replies[i]),
         c.replies[i].callback.token # Top(c).token
  PROVE  \E k \in 1 .. Len(SubSeq(c.stack, 1, Len(c.stack) - 1)) :
            Runs(SubSeq(c.stack, 1, Len(c.stack) - 1)[k], c.replies[i])
<1> DEFINE z == SubSeq(c.stack, 1, Len(c.stack) - 1)
<1>1. /\ Len(z) = Len(c.stack) - 1
      /\ \A k \in 1 .. Len(c.stack) - 1 : z[k] = c.stack[k]
  BY Fields, Below
<1> HIDE DEF z
<1>2. j # Len(c.stack) /\ Len(c.stack) \in Nat
  BY Fields DEF Runs, Top
<1>3. j \in 1 .. Len(z) /\ z[j] = c.stack[j]
  BY <1>1, <1>2
<1>4. \E k \in 1 .. Len(z) : Runs(z[k], c.replies[i])
  BY <1>3
<1> QED
  BY <1>4 DEF z

(* A callback that no provider waits for ends.                             *)
LEMMA ResumedLinked ==
  ASSUME NEW c \in Context, Linked(c), c.stack # <<>>, Idle(c.replies), c.blocked = 0,
         ~Awaited(c, Top(c).token)
  PROVE  Linked(Resumed(c))
<1> DEFINE d == Resumed(c)
           z == SubSeq(c.stack, 1, Len(c.stack) - 1)
<1>1. /\ d.parked = c.parked /\ d.replies = c.replies /\ d.blocked = c.blocked
      /\ d.stack = z
  BY DEF Resumed, Context
<1>2. \A i \in 1 .. Len(c.replies) : c.replies[i].callback.token # Top(c).token
  BY Fields DEF Awaited
<1>3. \A i \in 1 .. Len(c.replies), j \in 1 .. Len(c.stack) :
         Runs(c.stack[j], c.replies[i]) => \E k \in 1 .. Len(z) : Runs(z[k], c.replies[i])
  BY <1>2, DroppedBacked
<1> HIDE DEF d, z
<1>4. Backed(z, c.replies)
  BY <1>3, BackedKept DEF Linked
<1>5. Linked(d)
  BY <1>1, <1>4, LinkedKept
<1> QED
  BY <1>5 DEF d

-----------------------------------------------------------------------------
(* One lemma per group of actions. *)

Linking == \E d : Update(d) /\ Linked(d)

LEMMA HeldLinks ==
  ASSUME TypeOK, LinkInv
  PROVE  ctx[current] \in Context /\ Linked(ctx[current])
BY DEF TypeOK, LinkInv

LEMMA HostLeaves ==
  ASSUME TypeOK, LeavesProviders
  PROVE  ~Does("finish_core") /\ ~Does("migrate") /\ ~Does("abort_served")
BY DEF TypeOK, LeavesProviders, Does

LEMMA RunLinks == ASSUME TypeOK, LinkInv, Run PROVE Linking
<1> DEFINE c == ctx[current]
<1>1. c \in Context /\ Linked(c)
  BY HeldLinks
<1>2. PICK s : Update([c EXCEPT !.stop = s])
  BY DEF Run
<1> DEFINE d == [c EXCEPT !.stop = s]
<1>3. /\ d.parked = c.parked /\ d.replies = c.replies /\ d.blocked = c.blocked
      /\ d.stack = c.stack /\ d.pending = c.pending
  BY <1>1 DEF Context
<1>4. Update(d)
  BY <1>2
<1> HIDE DEF c, d
<1>5. Linked(d)
  BY <1>1, <1>3, LinkedKept DEF Linked
<1> QED
  BY <1>4, <1>5 DEF Linking

LEMMA CaptureLinks ==
  ASSUME TypeOK, LinkInv, NEW owner \in Owners, Capture(owner)
  PROVE  Linking
<1> DEFINE c == ctx[current]
           p == [token |-> NextToken, owner |-> owner, stop |-> c.stop]
           d == [c EXCEPT !.pending = p]
<1>1. c \in Context /\ Linked(c)
  BY HeldLinks
<1>2. c.pending = NoCall /\ Update(d)
  BY DEF Capture, MayCapture
<1>3. /\ d.parked = c.parked /\ d.replies = c.replies /\ d.blocked = c.blocked
      /\ d.stack = c.stack
  BY <1>1 DEF Context
<1> HIDE DEF c, d, p
<1>4. Idle(c.replies) /\ c.blocked = 0
  BY <1>1, <1>2, NoneServes
<1>5. Linked(d)
  BY <1>1, <1>3, <1>4, LinkedKept DEF Linked
<1> QED
  BY <1>2, <1>5 DEF Linking

LEMMA AnswersLink ==
  ASSUME TypeOK, LinkInv, NEW k \in Tokens, NEW owner \in Owners,
         CompleteCall(owner, k) \/ AbandonCall(k) \/ WindowsCall(owner, k)
  PROVE  Linking
<1> DEFINE c == ctx[current]
<1>1. c \in Context /\ Linked(c)
  BY HeldLinks
<1>2. CASE CompleteCall(owner, k)
  <2>1. ~ProviderOwns(c, c.pending.token) /\ Update(Completed(c))
    BY <1>2 DEF CompleteCall, Answerable
  <2> HIDE DEF c
  <2> QED
    BY <1>1, <2>1, NoneServes, CompletedLinked DEF Linking
<1>3. CASE AbandonCall(k)
  <2> DEFINE d == [c EXCEPT !.pending = NoCall]
  <2>1. ~ProviderOwns(c, c.pending.token) /\ Update(d)
    BY <1>3 DEF AbandonCall
  <2>2. /\ d.parked = c.parked /\ d.replies = c.replies /\ d.blocked = c.blocked
        /\ d.stack = c.stack
    BY <1>1 DEF Context
  <2> HIDE DEF c, d
  <2>3. Idle(c.replies) /\ c.blocked = 0
    BY <1>1, <2>1, NoneServes
  <2>4. Linked(d)
    BY <1>1, <2>2, <2>3, LinkedKept DEF Linked
  <2> QED
    BY <2>1, <2>4 DEF Linking
<1>4. CASE WindowsCall(owner, k)
  <2>1. CASE Serves(c, owner, k) /\ \E d \in Retried(c) : d # c /\ Update(d)
    BY <1>1, <2>1, RetriedLinked DEF Serves, Linking
  <2>2. CASE ~Serves(c, owner, k)
    <3>1. c.pending # NoCall /\ c.pending.token = k /\ c.pending.owner = owner
      BY <1>4 DEF WindowsCall, Answerable
    <3>2. Idle(c.replies)
      <4> SUFFICES ASSUME ~Idle(c.replies) PROVE FALSE
        OBVIOUS
      <4>1. c.replies # <<>> /\ LastReply(c).token = k /\ LastReply(c).owner = owner
        BY <1>1, <3>1 DEF Linked, Idle
      <4> QED
        BY <2>2, <4>1 DEF Serves
    <3>3. CASE Update(Completed([c EXCEPT !.blocked = 0]))
      <4> DEFINE e == [c EXCEPT !.blocked = 0]
      <4>1. e \in Context
        BY <1>1, Limits DEF Context
      <4>2. /\ e.parked = c.parked /\ e.replies = c.replies /\ e.stack = c.stack
            /\ e.pending = c.pending /\ e.blocked = 0
        BY <1>1 DEF Context
      <4>3. Update(Completed(e))
        BY <3>3
      <4> HIDE DEF c, e
      <4>4. Linked(e)
        BY <1>1, <3>2, <4>2 DEF Linked
      <4> QED
        BY <3>2, <4>1, <4>2, <4>3, <4>4, CompletedLinked DEF Linking
    <3>4. CASE c.blocked = 0 /\ \E d \in Serviced(c, owner, k) : Update(d)
      <4> HIDE DEF c
      <4>1. PICK d \in Serviced(c, owner, k) : Update(d)
        BY <3>4
      <4>2. Linked(d)
        BY <1>1, <3>1, <3>2, <3>4, <4>1, ServicedLinked
      <4> QED
        BY <4>1, <4>2 DEF Linking
    <3> QED
      BY <1>4, <2>2, <3>3, <3>4 DEF WindowsCall
  <2> QED
    BY <1>4, <2>1, <2>2 DEF WindowsCall
<1> QED
  BY <1>2, <1>3, <1>4

(* Tokens grow along the stack: a token names one callback.                *)
LEMMA OneCallback ==
  ASSUME NEW e, e.stack \in Seq(Frame), Nested(e), NEW i \in 1 .. Len(e.stack),
         NEW j \in 1 .. Len(e.stack), e.stack[i].token = e.stack[j].token
  PROVE  i = j
<1>1. DOMAIN e.stack = 1 .. Len(e.stack) /\ \A m \in 1 .. Len(e.stack) : e.stack[m] \in Frame
  OBVIOUS
<1>2. \A m \in 1 .. Len(e.stack) :
         /\ e.stack[m].token \in Nat /\ e.stack[m].outer.token \in Nat
         /\ e.stack[m].outer.token < e.stack[m].token
  <2> SUFFICES ASSUME NEW m \in 1 .. Len(e.stack)
               PROVE  /\ e.stack[m].token \in Nat /\ e.stack[m].outer.token \in Nat
                      /\ e.stack[m].outer.token < e.stack[m].token
    OBVIOUS
  <2>1. e.stack[m] \in Frame
    BY <1>1
  <2>2. e.stack[m].token \in Tokens /\ e.stack[m].outer.token \in Tokens
    BY <2>1, FrameFields, CallFields
  <2> QED
    BY <1>1, <2>2, Limits DEF Tokens, Nested
<1>3. \A m, n \in 1 .. Len(e.stack) : m < n => e.stack[m].token < e.stack[n].token
  <2> SUFFICES ASSUME NEW m \in 1 .. Len(e.stack), NEW n \in 1 .. Len(e.stack), m < n
               PROVE  e.stack[m].token < e.stack[n].token
    OBVIOUS
  <2>1. e.stack[m].token < e.stack[n].outer.token
    BY <1>1 DEF Nested
  <2>2. /\ e.stack[m].token \in Nat /\ e.stack[n].token \in Nat
        /\ e.stack[n].outer.token \in Nat /\ e.stack[n].outer.token < e.stack[n].token
    BY <1>2
  <2> QED
    BY <2>1, <2>2
<1> HIDE DEF Nested
<1>4. i < j \/ j < i \/ i = j
  OBVIOUS
<1> QED
  BY <1>2, <1>3, <1>4

(* The provider that waits for the innermost callback has it back.         *)
LEMMA ReceivedLinked ==
  ASSUME NEW c \in Context, Linked(c), Nested(c), c.stack # <<>>, c.replies # <<>>,
         c.pending = NoCall, LastReply(c).stage = "running",
         LastReply(c).callback.token = Top(c).token
  PROVE  Linked(Staged(Resumed(c), "received"))
<1> DEFINE n == Len(c.replies)
           z == SubSeq(c.stack, 1, Len(c.stack) - 1)
<1>1. PICK m : m = Resumed(c)
  OBVIOUS
<1>2. m \in Context
  BY <1>1, ResumedType
<1>3. /\ m.parked = c.parked /\ m.replies = c.replies /\ m.blocked = c.blocked
      /\ m.stack = z /\ m.pending = Top(c).outer
  BY <1>1 DEF Resumed, Context
<1>4. Idle(c.replies) /\ c.blocked = 0
  BY NoneServes
<1>5. PICK d : d = Staged(m, "received")
  OBVIOUS
<1>6. PICK r : LastIs(m, d, r) /\ r.stage = "received"
  BY <1>2, <1>3, <1>5, StagedParts
<1>7. /\ d.parked = c.parked /\ d.stack = z /\ d.pending = Top(c).outer
      /\ d.blocked = 0 /\ d.replies = [c.replies EXCEPT ![n] = r]
      /\ r.token = LastReply(c).token /\ r.owner = LastReply(c).owner
  BY <1>3, <1>4, <1>6 DEF LastIs, LastReply
<1>8. /\ n \in 1 .. n /\ c.replies \in Seq(Reply)
      /\ \A i \in 1 .. n - 1 : i \in 1 .. n /\ i < n
  <2>1. c.replies \in Seq(Reply)
    BY Fields
  <2> QED
    BY <2>1
<1>9. Top(c).outer.token = LastReply(c).token /\ Top(c).outer.owner = LastReply(c).owner
  <2>1. PICK j \in 1 .. Len(c.stack) : Runs(c.stack[j], LastReply(c))
    BY <1>8 DEF Linked, Backed, Ranked, LastReply
  <2>2. Len(c.stack) \in 1 .. Len(c.stack) /\ c.stack \in Seq(Frame)
    <3>1. c.stack \in Seq(Frame)
      BY Fields
    <3> QED
      BY <3>1
  <2>3. c.stack[j].token = Top(c).token
    BY <2>1 DEF Runs
  <2>4. j = Len(c.stack)
    BY <2>2, <2>3, OneCallback DEF Top
  <2> QED
    BY <2>1, <2>4 DEF Runs, Top
<1>10. ASSUME NEW i \in 1 .. n - 1
       PROVE  \E k \in 1 .. Len(z) : Runs(z[k], c.replies[i])
  <2>1. PICK j \in 1 .. Len(c.stack) : Runs(c.stack[j], c.replies[i])
    BY <1>8 DEF Linked, Backed, Ranked
  <2>2. c.replies[i].callback.token < Top(c).token
    BY <1>8 DEF Linked, Backed, Ranked, LastReply
  <2>3. c.replies[i].callback.token # Top(c).token
    <3>1. Top(c).token \in Nat
      BY TopFields, Limits DEF Tokens
    <3> QED
      BY <2>2, <3>1
  <2> QED
    BY <1>8, <2>1, <2>3, DroppedBacked
<1> HIDE DEF z
<1>11. Backed(z, d.replies)
  <2>1. Ranked(c.replies) /\ BackedBelow(z, c.replies)
    BY <1>10 DEF Linked, Backed, BackedBelow
  <2> QED
    BY <1>6, <1>7, <1>8, <2>1, BackedStaged
<1>12. LastReply(d) = r
  BY <1>7, <1>8 DEF LastReply
<1>13. Top(c).outer # NoCall
  BY TopFields, CallTokens
<1>14. Linked(d)
  BY <1>7, <1>9, <1>11, <1>12, <1>13 DEF Linked
<1> QED
  BY <1>1, <1>5, <1>14

LEMMA EndsLink ==
  ASSUME TypeOK, TokensAreUnique, LinkInv, LeavesProviders, NEW k \in Tokens,
         FinishCallback(k) \/ AbortCallback(k) \/ FinishWindowsCallback(k)
  PROVE  Linking
<1> DEFINE c == ctx[current]
<1>1. c \in Context /\ Linked(c) /\ Nested(c)
  BY HeldLinks, Held DEF Ordered
<1>2. CASE FinishCallback(k)
  <2>1. /\ c.stack # <<>> /\ Top(c).token = k /\ c.pending = NoCall
        /\ ~Awaited(c, k) /\ Update(Resumed(c))
    BY <1>2, HostLeaves DEF FinishCallback, HasReturned
  <2> HIDE DEF c
  <2>2. Linked(Resumed(c))
    BY <1>1, <2>1, NoneServes, ResumedLinked
  <2> QED
    BY <2>1, <2>2 DEF Linking
<1>3. CASE AbortCallback(k)
  <2>1. /\ c.stack # <<>> /\ Top(c).token = k
        /\ c.pending = NoCall \/ ~ProviderOwns(c, c.pending.token)
        /\ ~Awaited(c, k) /\ Update(Resumed(c))
    BY <1>3, HostLeaves DEF AbortCallback
  <2> HIDE DEF c
  <2>2. Linked(Resumed(c))
    BY <1>1, <2>1, NoneServes, ResumedLinked
  <2> QED
    BY <2>1, <2>2 DEF Linking
<1>4. CASE FinishWindowsCallback(k)
  <2> DEFINE received == Staged(Resumed(c), "received")
  <2>1. /\ c.stack # <<>> /\ c.replies # <<>> /\ c.pending = NoCall
        /\ LastReply(c).stage = "running" /\ LastReply(c).callback.token = Top(c).token
    BY <1>4 DEF FinishWindowsCallback, HasReturned
  <2>2. Linked(received)
    BY <1>1, <2>1, ReceivedLinked
  <2>3. Resumed(c) \in Context /\ Resumed(c).replies = c.replies
    BY <1>1, <2>1, ResumedType DEF Resumed, Context
  <2>4. received \in Context /\ received.replies # <<>>
    BY <2>1, <2>3, StagedType DEF Stages
  <2>5. PICK d \in {received} \cup Retried(received) : Update(d)
    BY <1>4 DEF FinishWindowsCallback
  <2> HIDE DEF received
  <2>6. Linked(d)
    BY <2>2, <2>4, <2>5, RetriedLinked
  <2> QED
    BY <2>5, <2>6 DEF Linking
<1> QED
  BY <1>2, <1>3, <1>4

(* The innermost callback is changed, but not what a reply knows of it.    *)
LEMMA TopChangedLinks ==
  ASSUME NEW c \in Context, Linked(c), c.stack # <<>>, NEW h,
         \A i \in 1 .. Len(c.replies) :
            Runs(Top(c), c.replies[i]) => Runs(h, c.replies[i]),
         NEW d, d.parked = c.parked, d.replies = c.replies, d.blocked = c.blocked,
         d.pending = c.pending, d.stack = [c.stack EXCEPT ![Len(c.stack)] = h]
  PROVE  Linked(d)
<1>1. /\ Len(c.stack) \in Nat /\ Len(d.stack) = Len(c.stack)
      /\ \A j \in 1 .. Len(c.stack) :
            d.stack[j] = IF j = Len(c.stack) THEN h ELSE c.stack[j]
  <2>1. c.stack \in Seq(Frame)
    BY Fields
  <2> QED
    BY <2>1
<1>2. \A i \in 1 .. Len(c.replies), j \in 1 .. Len(c.stack) :
         Runs(c.stack[j], c.replies[i]) => Runs(d.stack[j], c.replies[i])
  BY ONLY <1>1, \A i \in 1 .. Len(c.replies) :
                   Runs(Top(c), c.replies[i]) => Runs(h, c.replies[i])
  DEF Top
<1>3. Backed(d.stack, c.replies)
  <2> DEFINE z == d.stack
  <2>1. \A i \in 1 .. Len(c.replies), j \in 1 .. Len(c.stack) :
           c.replies[i].stage = "running" /\ Runs(c.stack[j], c.replies[i])
             => \E k \in 1 .. Len(z) : Runs(z[k], c.replies[i])
    BY <1>1, <1>2
  <2>2. Backed(c.stack, c.replies)
    BY DEF Linked
  <2> HIDE DEF z
  <2>3. Backed(z, c.replies)
    BY <2>1, <2>2, BackedKept
  <2> QED
    BY <2>3 DEF z
<1> QED
  BY <1>3, LinkedKept

LEMMA ResidentsLink ==
  ASSUME TypeOK, LinkInv, NEW k \in Tokens,
         Authorize(k) \/ \E u \in Units : SelectUnit(k, u)
  PROVE  Linking
<1> DEFINE c == ctx[current]
           n == Len(c.stack)
<1>1. c \in Context /\ Linked(c) /\ c.stack # <<>> /\ Top(c) \in Frame
  <2>1. c \in Context /\ Linked(c)
    BY HeldLinks
  <2>2. c.stack # <<>>
    BY DEF Authorize, SelectUnit, InCallbackOf
  <2> QED
    BY <2>1, <2>2, TopFields
<1>2. \E h : /\ Update([c EXCEPT !.stack = [c.stack EXCEPT ![n] = h]])
             /\ \A r : Runs(Top(c), r) => Runs(h, r)
  <2>1. CASE Authorize(k)
    <3> DEFINE h == [Top(c) EXCEPT !.authorized = TRUE]
    <3>1. [c EXCEPT !.stack[n].authorized = TRUE]
            = [c EXCEPT !.stack = [c.stack EXCEPT ![n] = h]]
      BY DEF Top
    <3>2. \A r : Runs(Top(c), r) => Runs(h, r)
      BY <1>1 DEF Runs, Frame
    <3> QED
      BY <2>1, <3>1, <3>2 DEF Authorize
  <2>2. CASE \E u \in Units : SelectUnit(k, u)
    <3>1. PICK u \in Units : SelectUnit(k, u)
      BY <2>2
    <3> DEFINE h == [Top(c) EXCEPT !.active = u]
    <3>2. [c EXCEPT !.stack[n].active = u]
            = [c EXCEPT !.stack = [c.stack EXCEPT ![n] = h]]
      BY DEF Top
    <3>3. \A r : Runs(Top(c), r) => Runs(h, r)
      BY <1>1 DEF Runs, Frame
    <3> QED
      BY <3>1, <3>2, <3>3 DEF SelectUnit
  <2> QED
    BY <2>1, <2>2
<1>3. PICK h : /\ Update([c EXCEPT !.stack = [c.stack EXCEPT ![n] = h]])
               /\ \A r : Runs(Top(c), r) => Runs(h, r)
  BY <1>2
<1> DEFINE d == [c EXCEPT !.stack = [c.stack EXCEPT ![n] = h]]
<1>4. /\ d.parked = c.parked /\ d.replies = c.replies /\ d.blocked = c.blocked
      /\ d.pending = c.pending /\ d.stack = [c.stack EXCEPT ![n] = h]
  BY <1>1 DEF Context
<1>5. Update(d)
  BY <1>3
<1> HIDE DEF c, d
<1>6. Linked(d)
  BY <1>1, <1>3, <1>4, TopChangedLinks
<1> QED
  BY <1>5, <1>6 DEF Linking

LEMMA GenerationsLink ==
  ASSUME TypeOK, LinkInv, LeavesProviders, Compile \/ ResumeCallbackCode
  PROVE  Linking
<1> DEFINE c == ctx[current]
           g == NextGeneration
           n == Len(c.stack)
<1>1. c \in Context /\ Linked(c)
  BY HeldLinks
<1> DEFINE e == [c EXCEPT !.generation = g]
<1>2. /\ e.parked = c.parked /\ e.replies = c.replies /\ e.blocked = c.blocked
      /\ e.pending = c.pending /\ e.stack = c.stack
  BY <1>1 DEF Context
<1>3. CASE Compile
  <2>1. Update(e)
    BY <1>3 DEF Compile
  <2> HIDE DEF e, c
  <2>2. Linked(e)
    BY <1>1, <1>2, LinkedKept DEF Linked
  <2> QED
    BY <2>1, <2>2 DEF Linking
<1>4. CASE ResumeCallbackCode
  <2> DEFINE x == [c EXCEPT !.generation = g, !.stack[n].generation = g]
             d == [x EXCEPT !.stack[n].outer.owner = Replacement(g)]
             f == [Top(c) EXCEPT !.generation = g]
             h == [f EXCEPT !.outer.owner = Replacement(g)]
  <2>1. c.stack # <<>> /\ ~Awaited(c, Top(c).token) /\ Update(d)
    BY <1>4, HostLeaves DEF ResumeCallbackCode, InCallbackOf
  <2>2. /\ x.parked = c.parked /\ x.pending = c.pending /\ x.replies = c.replies
        /\ x.blocked = c.blocked /\ x.stack = [c.stack EXCEPT ![n] = f]
        /\ DOMAIN x = DOMAIN c
    BY <1>1 DEF Context, Top
  <2>3. x.stack[n] = f
    <3>1. c.stack \in Seq(Frame) /\ c.stack # <<>>
      BY <1>1, <2>1, Fields
    <3>2. n \in DOMAIN c.stack
      BY <3>1
    <3> QED
      BY <2>2, <3>2
  <2>4. /\ d.parked = c.parked /\ d.pending = c.pending /\ d.replies = c.replies
        /\ d.blocked = c.blocked /\ d.stack = [x.stack EXCEPT ![n] = h]
    <3>1. DOMAIN c = {"pending", "stack", "replies", "blocked", "parked", "stop",
                      "generation"}
      BY <1>1 DEF Context
    <3>2. d = [x EXCEPT !.stack = [x.stack EXCEPT ![n] = h]]
      BY <2>3
    <3> HIDE DEF x, d, h
    <3> QED
      BY <2>2, <3>1, <3>2
  <2>5. d.stack = [c.stack EXCEPT ![n] = h]
    <3> HIDE DEF x, d, f, h, n
    <3> QED
      BY <2>2, <2>4
  <2>6. \A i \in 1 .. Len(c.replies) : ~Runs(Top(c), c.replies[i])
    BY <1>1, <2>1, Fields DEF Awaited, Runs
  <2> HIDE DEF c, d, x, f, h
  <2>7. Linked(d)
    BY <1>1, <2>1, <2>4, <2>5, <2>6, TopChangedLinks
  <2> QED
    BY <2>1, <2>7 DEF Linking
<1> QED
  BY <1>3, <1>4

(* The frame a suspension of c adds.                                       *)
NewFrame(c, form, home, f) ==
    /\ f.token = NextToken /\ f.form = form /\ f.home = home
    /\ f.generation = IF form = "replacement" THEN c.generation ELSE 0
    /\ f.outer = c.pending

(* What a suspension changes: the stack and the pending call.              *)
LEMMA SuspendedParts ==
  ASSUME NEW c \in Context, NEW form \in {"core", "replacement", "resident"},
         NEW unit, NEW home, NEW m, m = Suspended(c, form, unit, home)
  PROVE  /\ m.parked = c.parked /\ m.replies = c.replies /\ m.blocked = c.blocked
         /\ m.pending = NoCall
         /\ \E f : /\ m.stack = Append(c.stack, f)
                   /\ NewFrame(c, form, home, f)
<1> DEFINE f == [form |-> form, token |-> NextToken, outer |-> c.pending,
                 generation |-> IF form = "replacement" THEN c.generation ELSE 0,
                 home |-> home, active |-> home, outerUnit |-> unit,
                 authorized |-> FALSE]
<1>1. m.stack = Append(c.stack, f)
  BY DEF Suspended, Context
<1>2. /\ m.parked = c.parked /\ m.replies = c.replies /\ m.blocked = c.blocked
      /\ m.pending = NoCall
  BY DEF Suspended, Context
<1>3. NewFrame(c, form, home, f)
  BY DEF NewFrame
<1> HIDE DEF f
<1> QED
  BY <1>1, <1>2, <1>3

LEMMA BeginCallbackLinks ==
  ASSUME TypeOK, LinkInv, NEW form \in {"core", "replacement", "resident"},
         BeginCallback(form)
  PROVE  Linking
<1> DEFINE c == ctx[current]
<1>1. c \in Context /\ Linked(c)
  BY HeldLinks
<1>2. PICK unit, home : /\ ~ProviderOwns(c, c.pending.token)
                        /\ Update(Suspended(c, form, unit, home))
  BY DEF BeginCallback
<1> HIDE DEF c
<1>3. Idle(c.replies) /\ c.blocked = 0
  BY <1>1, <1>2, NoneServes
<1>4. PICK m : m = Suspended(c, form, unit, home)
  OBVIOUS
<1>5. PICK f : m.stack = Append(c.stack, f) /\ NewFrame(c, form, home, f)
  BY <1>1, <1>4, SuspendedParts
<1>6. m.parked = c.parked /\ m.replies = c.replies /\ m.blocked = c.blocked
  BY <1>1, <1>4, SuspendedParts
<1>7. Backed(m.stack, c.replies)
  BY <1>1, <1>5, BegunBacked DEF Linked
<1>8. Linked(m)
  BY <1>1, <1>3, <1>6, <1>7, LinkedKept
<1> QED
  BY <1>2, <1>4, <1>8 DEF Linking

(* A provider's callback runs as its reply says.                           *)
LEMMA BegunLinked ==
  ASSUME TypeOK, TokensAreUnique, LinkInv, NEW c, c = ctx[current], ~Idle(c.replies),
         NEW form \in {"core", "replacement", "resident"}, NEW unit, NEW home,
         NextToken \in Tokens, NEW m, m = Suspended(c, form, unit, home), m \in Context,
         NEW r, r.stage = "running",
         r.owner = LastReply(c).owner, r.token = LastReply(c).token,
         r.callback.token = NextToken, r.callback.form = form, r.callback.home = home,
         r.callback.generation = IF form = "replacement" THEN c.generation ELSE 0
  PROVE  Linked(SetReply(m, r))
<1>1. /\ c \in Context /\ Linked(c) /\ callToken \in Nat /\ Bounded(c, callToken)
  BY HeldLinks, Held
<1>2. /\ m.parked = c.parked /\ m.replies = c.replies /\ m.blocked = c.blocked
      /\ m.pending = NoCall
  BY <1>1, SuspendedParts
<1>3. PICK f : m.stack = Append(c.stack, f) /\ NewFrame(c, form, home, f)
  BY <1>1, SuspendedParts, SMTT(60)
<1>4. /\ c.replies # <<>> /\ c.blocked = 0
      /\ c.pending.token = LastReply(c).token /\ c.pending.owner = LastReply(c).owner
  BY <1>1 DEF Linked, Idle
<1>5. Runs(f, r)
  BY <1>3, <1>4 DEF Runs, NewFrame
<1>6. c.stack \in Seq(Frame) /\ c.replies \in Seq(Reply) /\ Len(c.replies) \in Nat
  <2>1. c.stack \in Seq(Frame) /\ c.replies \in Seq(Reply)
    BY <1>1, Fields
  <2> QED
    BY <2>1
<1>7. f \in Frame
  <2>1. m.stack \in Seq(Frame)
    BY Fields
  <2>2. /\ Len(m.stack) = Len(c.stack) + 1 /\ Len(c.stack) \in Nat
        /\ m.stack[Len(c.stack) + 1] = f
    BY <1>3, <1>6
  <2> HIDE DEF Frame
  <2> QED
    BY <2>1, <2>2
<1>8. \A j \in 1 .. Len(c.stack) : c.stack[j].token < f.token
  <2> SUFFICES ASSUME NEW j \in 1 .. Len(c.stack) PROVE c.stack[j].token < f.token
    OBVIOUS
  <2>1. j \in DOMAIN c.stack /\ c.stack[j] \in Frame
    BY <1>6
  <2>2. c.stack[j].token \in Open(c)
    BY <2>1 DEF Open, OpenIn
  <2>3. c.stack[j].token <= callToken
    BY <1>1, <2>2 DEF Bounded
  <2>4. c.stack[j].token \in Nat
    BY <2>1, FrameFields, Limits DEF Tokens
  <2> QED
    BY <1>1, <1>3, <2>3, <2>4 DEF NextToken, NewFrame
<1> DEFINE Q == [c.replies EXCEPT ![Len(c.replies)] = r]
<1>9. Backed(m.stack, Q)
  <2>1. Backed(c.stack, c.replies)
    BY <1>1 DEF Linked
  <2> QED
    BY <1>3, <1>4, <1>5, <1>6, <1>7, <1>8, <2>1, BackedBegun, ZenonT(60)
<1>10. Q # <<>> /\ Q[Len(Q)] = r
  BY <1>4, <1>6
<1>11. SetReply(m, r) = [m EXCEPT !.replies = Q]
  BY <1>2 DEF SetReply
<1> HIDE DEF Q
<1>12. PICK d : d = SetReply(m, r)
  OBVIOUS
<1>13. /\ d.parked = c.parked /\ d.replies = Q /\ d.blocked = 0
       /\ d.stack = m.stack
  BY <1>2, <1>4, <1>11, <1>12 DEF Context
<1>14. Idle(d.replies)
  BY <1>10, <1>13 DEF Idle
<1>15. Linked(d)
  BY <1>1, <1>9, <1>13, <1>14 DEF Linked
<1> QED
  BY <1>12, <1>15

LEMMA BeginWindowsCallbackLinks ==
  ASSUME TypeOK, TokensAreUnique, LinkInv, BeginWindowsCallback
  PROVE  Linking
<1> DEFINE c == ctx[current]
           x == LastReply(c)
           form == IF x.owner.kind \in {"core", "replacement"} THEN x.owner.kind
                   ELSE "resident"
           unit == IF form = "resident" THEN x.owner.unit ELSE 0
<1>1. c \in Context /\ Linked(c)
  BY HeldLinks
<1>2. c.replies # <<>> /\ x.stage = "ready" /\ x \in Reply
  BY <1>1, LastReplyFields DEF BeginWindowsCallback
<1>3. ~Idle(c.replies)
  BY <1>2 DEF Idle, LastReply
<1>4. form \in {"core", "replacement", "resident"}
  OBVIOUS
<1>5. PICK home \in UnitsOf(form) :
         /\ MaySuspend(c, form, unit)
         /\ Issue
         /\ Update(SetReply(Suspended(c, form, unit, home),
               [x EXCEPT !.stage = "running",
                         !.callback = [token |-> NextToken, form |-> form,
                            generation |-> IF form = "replacement"
                                           THEN c.generation ELSE 0,
                            home |-> home]]))
  BY DEF BeginWindowsCallback
<1> DEFINE b == [token |-> NextToken, form |-> form,
                 generation |-> IF form = "replacement" THEN c.generation ELSE 0,
                 home |-> home]
           r == [x EXCEPT !.stage = "running", !.callback = b]
<1>6. /\ b.token = NextToken /\ b.form = form /\ b.home = home
      /\ b.generation = IF form = "replacement" THEN c.generation ELSE 0
  OBVIOUS
<1>7. Update(SetReply(Suspended(c, form, unit, home), r))
  BY <1>5
<1>8. NextToken \in Tokens
  BY <1>5, IssueType
<1>9. home \in Units \cup {0} /\ unit \in Units \cup {0} /\ c.pending # NoCall
  <2>1. home \in Units \cup {0} /\ c.pending # NoCall
    BY <1>5 DEF UnitsOf, MaySuspend
  <2>2. x.owner \in Owners
    BY <1>2 DEF Reply
  <2>3. unit \in Units \cup {0}
    <3>1. \/ x.owner = Core
          \/ \E g \in 1 .. MaxGeneration : x.owner = Replacement(g)
          \/ \E u \in Units : x.owner = Resident(u)
          \/ \E u \in Units, k \in Tokens : x.owner = InCallback(u, k)
      BY <2>2 DEF Owners
    <3> HIDE DEF x
    <3>2. CASE x.owner = Core
      BY <3>2 DEF Core
    <3>3. CASE \E g \in 1 .. MaxGeneration : x.owner = Replacement(g)
      BY <3>3 DEF Replacement
    <3>4. CASE \E u \in Units : x.owner = Resident(u)
      BY <3>4 DEF Resident
    <3>5. CASE \E u \in Units, k \in Tokens : x.owner = InCallback(u, k)
      BY <3>5 DEF InCallback
    <3> QED
      BY <3>1, <3>2, <3>3, <3>4, <3>5
  <2> QED
    BY <2>1, <2>3
<1> HIDE DEF b
<1>10. /\ r.stage = "running" /\ r.owner = x.owner /\ r.token = x.token
       /\ r.callback = b
  BY <1>2 DEF Reply
<1> HIDE DEF r, form, unit
<1>11. PICK m : m = Suspended(c, form, unit, home)
  OBVIOUS
<1>12. m \in Context
  BY <1>1, <1>4, <1>8, <1>9, <1>11, SuspendedType
<1>13. Linked(SetReply(m, r))
  BY <1>3, <1>4, <1>6, <1>8, <1>10, <1>11, <1>12, BegunLinked
<1> QED
  BY <1>7, <1>11, <1>13 DEF Linking

(* The providers under a module operation all wait.                        *)
LEMMA ParkedLinked ==
  ASSUME NEW c \in Context, Linked(c), Idle(c.replies),
         NEW p, p.stack = c.stack, p.replies = c.replies,
         NEW d, d.parked = Append(c.parked, p), d.stack = <<>>, d.replies = <<>>,
         d.blocked = 0
  PROVE  Linked(d)
<1>1. /\ Len(d.parked) = Len(c.parked) + 1
      /\ \A i \in 1 .. Len(c.parked) : d.parked[i] = c.parked[i]
      /\ d.parked[Len(c.parked) + 1] = p
      /\ Len(c.parked) \in Nat
  <2> DEFINE S == Parked \cup {p}
  <2>1. c.parked \in Seq(Parked)
    BY DEF Context, Parked
  <2>2. c.parked \in Seq(S) /\ p \in S
    BY <2>1
  <2> HIDE DEF S
  <2> QED
    BY <2>2
<1>2. \A i \in 1 .. Len(d.parked) : i \in 1 .. Len(c.parked) \/ i = Len(c.parked) + 1
  BY <1>1
<1>3. Backed(p.stack, p.replies) /\ Idle(p.replies)
  BY DEF Linked
<1>4. ASSUME NEW i \in 1 .. Len(d.parked)
      PROVE  Backed(d.parked[i].stack, d.parked[i].replies) /\ Idle(d.parked[i].replies)
  <2>1. CASE i \in 1 .. Len(c.parked)
    BY <1>1, <2>1 DEF Linked
  <2>2. CASE i = Len(c.parked) + 1
    BY <1>1, <1>3, <2>2
  <2> QED
    BY <1>2, <2>1, <2>2
<1>5. Backed(d.stack, d.replies) /\ Idle(d.replies)
  <2>1. Len(d.replies) = 0
    OBVIOUS
  <2> QED
    BY <2>1 DEF Backed, Ranked, Idle
<1> QED
  BY <1>4, <1>5 DEF Linked

LEMMA UnparkedLinked ==
  ASSUME NEW c \in Context, Linked(c), c.parked # <<>>,
         NEW d, d.parked = SubSeq(c.parked, 1, Len(c.parked) - 1),
         d.stack = c.parked[Len(c.parked)].stack,
         d.replies = c.parked[Len(c.parked)].replies, d.blocked = 0
  PROVE  Linked(d) /\ Idle(d.replies)
<1>1. c.parked \in Seq(Parked)
  BY DEF Context, Parked
<1>2. /\ Len(d.parked) = Len(c.parked) - 1
      /\ \A i \in 1 .. Len(c.parked) - 1 : d.parked[i] = c.parked[i]
  BY <1>1, Below
<1>3. Len(c.parked) \in Nat /\ Len(c.parked) >= 1
  BY <1>1, LastElement
<1>4. Backed(d.stack, d.replies) /\ Idle(d.replies)
  BY <1>3 DEF Linked
<1>5. \A i \in 1 .. Len(d.parked) : i \in 1 .. Len(c.parked) /\ i \in 1 .. Len(c.parked) - 1
  BY <1>2, <1>3
<1>6. \A i \in 1 .. Len(d.parked) :
         /\ Backed(d.parked[i].stack, d.parked[i].replies)
         /\ Idle(d.parked[i].replies)
  BY <1>2, <1>5 DEF Linked
<1> QED
  BY <1>4, <1>6 DEF Linked

LEMMA ModulesLink == ASSUME TypeOK, LinkInv, ParkModule \/ UnparkModule PROVE Linking
<1> DEFINE c == ctx[current]
<1>1. c \in Context /\ Linked(c)
  BY HeldLinks
<1>2. CASE ParkModule
  <2> DEFINE p == [pending |-> c.pending, stack |-> c.stack, replies |-> c.replies,
                   stop |-> c.stop, generation |-> c.generation]
             d == [EmptyContext EXCEPT !.parked = Append(c.parked, p)]
  <2>1. Update(d) /\ ~ProviderOwns(c, c.pending.token)
    BY <1>2 DEF ParkModule
  <2>2. /\ d.parked = Append(c.parked, p) /\ d.stack = <<>> /\ d.replies = <<>>
        /\ d.blocked = 0
    BY DEF EmptyContext
  <2>3. p.stack = c.stack /\ p.replies = c.replies
    OBVIOUS
  <2> HIDE DEF p, d, c
  <2>4. Idle(c.replies)
    BY <1>1, <2>1, NoneServes
  <2>5. Linked(d)
    BY <1>1, <2>2, <2>3, <2>4, ParkedLinked
  <2> QED
    BY <2>1, <2>5 DEF Linking
<1>3. CASE UnparkModule
  <2> DEFINE p == c.parked[Len(c.parked)]
             restored == [pending |-> p.pending, stack |-> p.stack,
                          replies |-> p.replies, blocked |-> 0, stop |-> p.stop,
                          generation |-> p.generation,
                          parked |-> SubSeq(c.parked, 1, Len(c.parked) - 1)]
  <2>1. restored \in Context /\ c.parked # <<>> /\ restored.blocked = 0
    BY <1>1, <1>3, UnparkedType DEF UnparkModule
  <2>2. PICK d \in {restored, Completed(restored)} : Update(d)
    BY <1>3 DEF UnparkModule
  <2>3. Linked(restored) /\ Idle(restored.replies)
    BY <1>1, <2>1, UnparkedLinked
  <2> HIDE DEF restored
  <2>4. Linked(d)
    BY <2>1, <2>2, <2>3, CompletedLinked
  <2> QED
    BY <2>2, <2>4 DEF Linking
<1> QED
  BY <1>2, <1>3

LEMMA ResumeWaitLinks == ASSUME TypeOK, LinkInv, ResumeWait PROVE Linking
<1>1. PICK d \in Advanced(ctx[current]) : Update(d)
  BY DEF ResumeWait
<1>2. ~Idle(ctx[current].replies)
  BY DEF ResumeWait, Idle, LastReply
<1> QED
  BY <1>1, <1>2, HeldLinks, AdvancedLinked DEF Linking

(* Every step keeps the links.                                             *)
LEMMA NextLinks ==
  ASSUME TypeOK, TokensAreUnique, LinkInv, LeavesProviders, [Next]_vars
  PROVE  LinkInv'
<1>1. Linking \/ UNCHANGED ctx
  <2>1. \A k \in 1 .. callToken : k \in Tokens
    BY Limits DEF TypeOK, Tokens
  <2>2. CASE Run
    BY <2>2, RunLinks
  <2>3. CASE \E owner \in Owners : Capture(owner)
    BY <2>3, CaptureLinks
  <2>4. CASE Answer
    <3>1. PICK k \in 1 .. callToken :
            \/ \E owner \in Owners : CompleteCall(owner, k) \/ WindowsCall(owner, k)
            \/ AbandonCall(k)
            \/ FinishCallback(k) \/ AbortCallback(k) \/ FinishWindowsCallback(k)
            \/ Authorize(k)
            \/ \E u \in Units : SelectUnit(k, u)
      BY <2>4 DEF Answer
    <3>2. k \in Tokens /\ Core \in Owners
      BY <2>1 DEF Owners
    <3>3. CASE \/ \E owner \in Owners : CompleteCall(owner, k) \/ WindowsCall(owner, k)
               \/ AbandonCall(k)
      BY <3>2, <3>3, AnswersLink
    <3>4. CASE FinishCallback(k) \/ AbortCallback(k) \/ FinishWindowsCallback(k)
      BY <3>2, <3>4, EndsLink
    <3>5. CASE Authorize(k) \/ \E u \in Units : SelectUnit(k, u)
      BY <3>2, <3>5, ResidentsLink
    <3> QED
      BY <3>1, <3>3, <3>4, <3>5
  <2>5. CASE \E form \in {"core", "replacement", "resident"} : BeginCallback(form)
    BY <2>5, BeginCallbackLinks
  <2>6. CASE BeginWindowsCallback
    BY <2>6, BeginWindowsCallbackLinks
  <2>7. CASE ResumeWait
    BY <2>7, ResumeWaitLinks
  <2>8. CASE ParkModule \/ UnparkModule
    BY <2>8, ModulesLink
  <2>9. CASE Compile \/ ResumeCallbackCode
    BY <2>9, GenerationsLink
  <2>10. CASE \E t \in Threads : Switch(t)
    BY <2>10 DEF Switch
  <2>11. CASE UNCHANGED vars
    BY <2>11 DEF vars
  <2> QED
    BY <2>2, <2>3, <2>4, <2>5, <2>6, <2>7, <2>8, <2>9, <2>10, <2>11 DEF Next
<1>2. CASE Linking
  <2>1. PICK d : ctx' = [ctx EXCEPT ![current] = d] /\ Linked(d)
    BY <1>2 DEF Linking, Update
  <2>2. \A t \in Threads : Linked(ctx'[t])
    BY <2>1 DEF TypeOK, LinkInv
  <2> QED
    BY <2>2 DEF LinkInv, Linked, LastReply
<1>3. CASE UNCHANGED ctx
  BY <1>3 DEF LinkInv, Linked, LastReply
<1> QED
  BY <1>1, <1>2, <1>3

LEMMA InitLinks == Init => LinkInv
<1>1. Linked(EmptyContext)
  <2>1. /\ EmptyContext.stack = <<>> /\ EmptyContext.replies = <<>>
        /\ EmptyContext.parked = <<>> /\ EmptyContext.blocked = 0
    BY DEF EmptyContext
  <2>2. Len(EmptyContext.replies) = 0 /\ Len(EmptyContext.parked) = 0
    BY <2>1
  <2>3. Backed(EmptyContext.stack, EmptyContext.replies) /\ Idle(EmptyContext.replies)
    BY <2>1, <2>2 DEF Backed, Ranked, Idle
  <2> QED
    BY <2>1, <2>2, <2>3 DEF Linked
<1> QED
  BY <1>1 DEF Init, LinkInv

(* The callbacks of replies are on the stack in the order of the replies.  *)
LEMMA BackedMatch ==
  ASSUME NEW e, e.stack \in Seq(Frame), e.replies \in Seq(Reply), Nested(e),
         Backed(e.stack, e.replies),
         ~Idle(e.replies) => /\ e.pending # NoCall
                             /\ e.pending.token = LastReply(e).token
                             /\ e.pending.owner = LastReply(e).owner
  PROVE  RepliesMatch(e)
<1> DEFINE R == e.replies
           s == e.stack
<1>1. /\ DOMAIN R = 1 .. Len(R) /\ DOMAIN s = 1 .. Len(s)
      /\ Len(R) \in Nat /\ Len(s) \in Nat
      /\ \A m \in 1 .. Len(s) : s[m] \in Frame
  OBVIOUS
<1>2. \A m \in 1 .. Len(s) : s[m].token \in Nat /\ s[m].outer.token \in Nat
  <2> SUFFICES ASSUME NEW m \in 1 .. Len(s)
               PROVE  s[m].token \in Nat /\ s[m].outer.token \in Nat
    OBVIOUS
  <2>1. s[m] \in Frame
    BY <1>1
  <2> QED
    BY <2>1, FrameFields, CallFields, Limits DEF Tokens
<1>3. \A j, m \in 1 .. Len(s) : j < m => s[j].token < s[m].token
  <2> SUFFICES ASSUME NEW j \in 1 .. Len(s), NEW m \in 1 .. Len(s), j < m
               PROVE  s[j].token < s[m].token
    OBVIOUS
  <2>1. s[j].token < s[m].outer.token /\ s[m].outer.token < s[m].token
    BY <1>1 DEF Nested
  <2> QED
    BY <1>2, <2>1
<1>4. ASSUME NEW i \in 1 .. Len(R), R[i].stage = "running"
      PROVE  \E j \in DOMAIN s :
               /\ Runs(s[j], R[i])
               /\ \A m \in DOMAIN s :
                    m > j => \A n \in 1 .. i : s[m].token # R[n].callback.token
  <2>1. PICK j \in 1 .. Len(s) : Runs(s[j], R[i])
    BY <1>4 DEF Backed
  <2>2. ASSUME NEW m \in 1 .. Len(s), m > j, NEW n \in 1 .. i
        PROVE  s[m].token # R[n].callback.token
    <3>1. s[j].token < s[m].token /\ s[j].token = R[i].callback.token
      BY <1>1, <1>3, <2>1, <2>2 DEF Runs
    <3>2. CASE n = i
      BY <1>2, <3>1, <3>2
    <3>3. CASE n # i
      <4>1. n \in 1 .. Len(R) /\ n < i
        BY <1>1, <3>3
      <4>2. R[n].stage = "running" /\ R[n].callback.token < R[i].callback.token
        BY <1>4, <4>1 DEF Backed, Ranked
      <4>3. PICK k \in 1 .. Len(s) : Runs(s[k], R[n])
        BY <4>1, <4>2 DEF Backed
      <4>4. s[k].token = R[n].callback.token
        BY <4>3 DEF Runs
      <4> QED
        BY <1>2, <3>1, <4>2, <4>4
    <3> QED
      BY <3>2, <3>3
  <2> QED
    BY <1>1, <2>1, <2>2
<1>5. ASSUME NEW i \in 1 .. Len(R), R[i].stage # "running"
      PROVE  /\ i = Len(R) /\ e.pending # NoCall
             /\ e.pending.token = R[i].token /\ e.pending.owner = R[i].owner
  <2>1. i = Len(R)
    <3>1. Len(R) \in 1 .. Len(R) /\ (i < Len(R) \/ i = Len(R))
      BY <1>1
    <3> QED
      BY <1>5, <3>1 DEF Backed, Ranked
  <2>2. ~Idle(R)
    BY <1>1, <1>5, <2>1 DEF Idle
  <2> QED
    BY <2>1, <2>2 DEF LastReply
<1>6. SUFFICES ASSUME NEW i \in DOMAIN e.replies
               PROVE  LET r == e.replies[i] IN
                      IF r.stage = "running"
                      THEN \E j \in DOMAIN e.stack :
                             /\ e.stack[j].token = r.callback.token
                             /\ e.stack[j].form = r.callback.form
                             /\ e.stack[j].generation = r.callback.generation
                             /\ e.stack[j].home = r.callback.home
                             /\ e.stack[j].outer.token = r.token
                             /\ e.stack[j].outer.owner = r.owner
                             /\ \A m \in DOMAIN e.stack :
                                  m > j => \A n \in 1 .. i :
                                    e.stack[m].token # e.replies[n].callback.token
                      ELSE /\ i = Len(e.replies)
                           /\ e.pending # NoCall
                           /\ e.pending.token = r.token
                           /\ e.pending.owner = r.owner
  BY DEF RepliesMatch
<1>7. CASE R[i].stage = "running"
  <2>1. PICK j \in DOMAIN s :
          /\ Runs(s[j], R[i])
          /\ \A m \in DOMAIN s :
               m > j => \A n \in 1 .. i : s[m].token # R[n].callback.token
    BY <1>1, <1>4, <1>7
  <2> QED
    BY <1>7, <2>1 DEF Runs
<1>8. CASE R[i].stage # "running"
  BY <1>1, <1>5, <1>8
<1> QED
  BY <1>7, <1>8

(* The links, and tokens that are nested, give the property.               *)
LEMMA LinksKeepCalls ==
  ASSUME TypeOK, TokensAreUnique, LinkInv
  PROVE  ProvidersKeepTheirCalls
<1> SUFFICES ASSUME NEW t \in Threads, NEW c, c = ctx[t]
             PROVE  /\ RepliesMatch(c)
                    /\ \A i \in DOMAIN c.parked : RepliesMatch(c.parked[i])
                    /\ c.blocked # 0 => c.pending # NoCall /\ c.pending.token = c.blocked
  BY DEF ProvidersKeepTheirCalls
<1>1. /\ c \in Context /\ Linked(c) /\ Nested(c)
      /\ \A i \in DOMAIN c.parked : Nested(c.parked[i])
  BY DEF TypeOK, LinkInv, TokensAreUnique
<1>2. RepliesMatch(c)
  BY <1>1, Fields, BackedMatch DEF Linked
<1>3. ASSUME NEW i \in DOMAIN c.parked PROVE RepliesMatch(c.parked[i])
  <2>1. PICK p : p = c.parked[i]
    OBVIOUS
  <2>2. p \in Parked /\ i \in 1 .. Len(c.parked)
    BY <1>1, <2>1, Fields
  <2>3. p.stack \in Seq(Frame) /\ p.replies \in Seq(Reply)
    BY <2>2 DEF Parked
  <2>4. Backed(p.stack, p.replies) /\ Idle(p.replies) /\ Nested(p)
    BY <1>1, <2>1, <2>2 DEF Linked
  <2> QED
    BY <2>1, <2>3, <2>4, BackedMatch
<1> QED
  BY <1>1, <1>2, <1>3 DEF Linked

(* As long as the host leaves the callbacks of providers alone, a provider *)
(* that answers later finds its call, and a callback it asked for can be   *)
(* finished: RepliesMatch holds of every thread and every parked part.     *)
THEOREM ProvidersFindTheirCalls ==
  ASSUME LeavesProviders
  PROVE  Spec => []ProvidersKeepTheirCalls
<1>1. TypeOK /\ TokensAreUnique /\ LinkInv /\ [Next]_vars => LinkInv'
  BY NextLinks
<1>2. TypeOK /\ TokensAreUnique /\ LinkInv => ProvidersKeepTheirCalls
  BY LinksKeepCalls
<1> QED
  BY <1>1, <1>2, InitLinks, TypeCorrect, TokensStayUnique, PTL DEF Spec
=============================================================================
