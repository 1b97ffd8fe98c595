------------------------- MODULE PendingCallsProofs -------------------------
(***************************************************************************)
(* Theorems about PendingCalls, for every number of threads and units, and *)
(* every limit.                                                            *)
(***************************************************************************)
EXTENDS PendingCalls, SequenceTheorems, TLAPS

-----------------------------------------------------------------------------
(* Sequences: the last element, and what is below it. *)

LEMMA LastElement == ASSUME NEW S, NEW s \in Seq(S), s # <<>>
                     PROVE  s[Len(s)] \in S /\ Len(s) \in Nat /\ Len(s) >= 1
OBVIOUS

LEMMA Below == ASSUME NEW S, NEW s \in Seq(S), s # <<>>
               PROVE  /\ SubSeq(s, 1, Len(s) - 1) \in Seq(S)
                      /\ Len(SubSeq(s, 1, Len(s) - 1)) = Len(s) - 1
                      /\ \A i \in 1 .. Len(s) - 1 :
                           SubSeq(s, 1, Len(s) - 1)[i] = s[i]
<1> DEFINE n == Len(s) - 1
<1>1. n \in Nat /\ \A i \in 1 .. n : s[i] \in S
  OBVIOUS
<1>2. /\ SubSeq(s, 1, n) \in Seq(S)
      /\ Len(SubSeq(s, 1, n)) = IF 1 <= n THEN n - 1 + 1 ELSE 0
      /\ \A i \in 1 .. n - 1 + 1 : SubSeq(s, 1, n)[i] = s[1 + i - 1]
  <2> HIDE DEF n
  <2> QED
    BY <1>1, SubSeqProperties
<1>3. Len(SubSeq(s, 1, n)) = n
  <2> HIDE DEF n
  <2> QED
    BY <1>1, <1>2
<1>4. \A i \in 1 .. n : SubSeq(s, 1, n)[i] = s[i]
  <2> HIDE DEF n
  <2> QED
    BY <1>1, <1>2
<1> QED
  BY <1>2, <1>3, <1>4

LEMMA ReplaceLast == ASSUME NEW S, NEW s \in Seq(S), s # <<>>, NEW x \in S
                     PROVE  [s EXCEPT ![Len(s)] = x] \in Seq(S)
OBVIOUS

-----------------------------------------------------------------------------
(* The operators on contexts keep their type. *)

Parked == [pending : Call, stack : Seq(Frame), replies : Seq(Reply),
           stop : Stop, generation : 0 .. MaxGeneration]

LEMMA Fields == ASSUME NEW c \in Context
                PROVE  /\ c.pending \in Call \cup {NoCall}
                       /\ c.stack \in Seq(Frame)
                       /\ c.replies \in Seq(Reply)
                       /\ c.blocked \in 0 .. MaxToken
                       /\ c.parked \in Seq(Parked)
                       /\ c.stop \in Stop
                       /\ c.generation \in 0 .. MaxGeneration
BY DEF Context, Parked

LEMMA Limits == /\ MaxToken \in Nat /\ MaxGeneration \in Nat
                /\ 0 \in 0 .. MaxToken /\ 0 \in 0 .. MaxGeneration
<1>1. MaxToken \in Nat /\ MaxGeneration \in Nat
  BY LimitsAssumption
<1> QED
  BY <1>1

LEMMA CompletedType == ASSUME NEW c \in Context
                       PROVE  Completed(c) \in Context
BY DEF Completed, Context, Code, Stop

LEMMA CallFields == ASSUME NEW k \in Call
                    PROVE  k.token \in Tokens /\ k.owner \in Owners /\ k.stop \in Stop
BY DEF Call

LEMMA FrameFields == ASSUME NEW f \in Frame
                     PROVE  /\ f.token \in Tokens
                            /\ f.outer \in Call
                            /\ f.generation \in 0 .. MaxGeneration
                            /\ f.home \in Units \cup {0}
                            /\ f.active \in Units \cup {0}
                            /\ f.outerUnit \in Units \cup {0}
BY DEF Frame

LEMMA ResumedType == ASSUME NEW c \in Context, c.stack # <<>>
                     PROVE  Resumed(c) \in Context
<1>1. Top(c) \in Frame
  BY Fields, LastElement DEF Top
<1>2. Top(c).outer \in Call /\ Top(c).outer.stop \in Stop
  BY <1>1, CallFields, FrameFields
<1>3. SubSeq(c.stack, 1, Len(c.stack) - 1) \in Seq(Frame)
  BY Fields, Below
<1> QED
  BY <1>2, <1>3 DEF Resumed, Context

LEMMA SetReplyType == ASSUME NEW c \in Context, c.replies # <<>>, NEW r \in Reply
                      PROVE  SetReply(c, r) \in Context /\ SetReply(c, r).replies # <<>>
<1>1. [c.replies EXCEPT ![Len(c.replies)] = r] \in Seq(Reply)
  BY Fields, ReplaceLast
<1>2. [c.replies EXCEPT ![Len(c.replies)] = r] # <<>>
  BY Fields
<1> QED
  BY <1>1, <1>2 DEF SetReply, Context

LEMMA StagedType == ASSUME NEW c \in Context, c.replies # <<>>, NEW stage \in Stages
                    PROVE  Staged(c, stage) \in Context /\ Staged(c, stage).replies # <<>>
<1>1. LastReply(c) \in Reply
  BY Fields, LastElement DEF LastReply
<1>2. [LastReply(c) EXCEPT !.stage = stage, !.callback = NotRunning] \in Reply
  BY <1>1 DEF Reply
<1> QED
  BY <1>2, SetReplyType DEF Staged

LEMMA PublishedType == ASSUME NEW c \in Context, c.replies # <<>>
                       PROVE  Published(c) \in Context
<1>1. SubSeq(c.replies, 1, Len(c.replies) - 1) \in Seq(Reply)
  BY Fields, Below
<1>2. [c EXCEPT !.replies = SubSeq(c.replies, 1, Len(c.replies) - 1)] \in Context
  BY <1>1 DEF Context
<1> QED
  BY <1>2, CompletedType DEF Published

LEMMA AdvancedType == ASSUME NEW c \in Context, c.replies # <<>>, NEW d \in Advanced(c)
                      PROVE  d \in Context
BY StagedType, PublishedType DEF Advanced, Stages

LEMMA RetriedType == ASSUME NEW c \in Context, c.replies # <<>>, NEW d \in Retried(c)
                     PROVE  d \in Context
<1>1. d \in Advanced(c) \cup {c, Published(c)}
  BY DEF Retried
<1> QED
  BY <1>1, AdvancedType, PublishedType

LEMMA NewReplyType == ASSUME NEW c \in Context, NEW owner \in Owners, NEW k \in Tokens,
                             NEW stage \in Stages
                      PROVE  NewReply(c, owner, k, stage) \in Context
<1> DEFINE r == [owner |-> owner, token |-> k, stage |-> stage, callback |-> NotRunning]
<1>1. r \in Reply
  BY DEF Reply
<1>2. Append(c.replies, r) \in Seq(Reply)
  <2> HIDE DEF r
  <2> QED
    BY <1>1, Fields
<1> QED
  BY <1>2 DEF NewReply, Context

LEMMA ServicedType == ASSUME NEW c \in Context, NEW owner \in Owners, NEW k \in Tokens,
                             NEW d \in Serviced(c, owner, k)
                      PROVE  d \in Context
<1>1. [c EXCEPT !.blocked = k] \in Context
  BY DEF Context, Tokens
<1>2. \A stage \in Stages : NewReply(c, owner, k, stage) \in Context
  BY NewReplyType
<1>3. \/ d = Completed(c)
      \/ d = [c EXCEPT !.blocked = k]
      \/ d \in {NewReply(c, owner, k, stage) : stage \in {"ready", "wait"}}
  BY DEF Serviced
<1> QED
  BY <1>1, <1>2, <1>3, CompletedType DEF Stages

LEMMA SuspendedType ==
  ASSUME NEW c \in Context, c.pending # NoCall, NextToken \in Tokens,
         NEW form \in {"core", "replacement", "resident"},
         NEW unit \in Units \cup {0}, NEW home \in Units \cup {0}
  PROVE  Suspended(c, form, unit, home) \in Context
<1> DEFINE f == [form |-> form, token |-> NextToken, outer |-> c.pending,
                 generation |-> IF form = "replacement" THEN c.generation ELSE 0,
                 home |-> home, active |-> home, outerUnit |-> unit,
                 authorized |-> FALSE]
<1>1. c.pending \in Call /\ c.generation \in 0 .. MaxGeneration /\ 0 \in 0 .. MaxGeneration
  BY Fields, LimitsAssumption
<1>2. f \in Frame
  BY <1>1 DEF Frame
<1>3. Append(c.stack, f) \in Seq(Frame)
  <2> HIDE DEF f
  <2> QED
    BY <1>2, Fields
<1>4. Code(NextToken) \in Stop
  BY DEF Code, Stop, Tokens
<1> QED
  BY <1>3, <1>4 DEF Suspended, Context

LEMMA TopFields == ASSUME NEW c \in Context, c.stack # <<>>
                   PROVE  /\ Top(c) \in Frame
                          /\ Top(c).token \in Tokens
                          /\ Top(c).outer \in Call
BY Fields, LastElement, FrameFields DEF Top

LEMMA LastReplyFields == ASSUME NEW c \in Context, c.replies # <<>>
                         PROVE  LastReply(c) \in Reply
BY Fields, LastElement DEF LastReply

(* A change of the innermost callback. *)
LEMMA TopChanged == ASSUME NEW c \in Context, c.stack # <<>>, NEW f \in Frame
                    PROVE  [c EXCEPT !.stack = [c.stack EXCEPT ![Len(c.stack)] = f]]
                              \in Context
<1>1. [c.stack EXCEPT ![Len(c.stack)] = f] \in Seq(Frame)
  BY Fields, ReplaceLast
<1> QED
  BY <1>1 DEF Context

LEMMA EmptyType == EmptyContext \in Context
BY LimitsAssumption DEF EmptyContext, Context, Code, Stop

LEMMA UnparkedType ==
  ASSUME NEW c \in Context, c.parked # <<>>, NEW p, p = c.parked[Len(c.parked)]
  PROVE  [pending |-> p.pending, stack |-> p.stack, replies |-> p.replies,
          blocked |-> 0, stop |-> p.stop, generation |-> p.generation,
          parked |-> SubSeq(c.parked, 1, Len(c.parked) - 1)] \in Context
<1>1. p \in Parked
  BY Fields, LastElement
<1>2. SubSeq(c.parked, 1, Len(c.parked) - 1) \in Seq(Parked)
  BY Fields, Below
<1> QED
  <2>1. /\ p.pending \in Call \cup {NoCall} /\ p.stack \in Seq(Frame)
        /\ p.replies \in Seq(Reply) /\ p.stop \in Stop
        /\ p.generation \in 0 .. MaxGeneration
    BY <1>1 DEF Parked
  <2> QED
    BY <1>2, <2>1, Limits DEF Parked, Context

LEMMA ParkedType ==
  ASSUME NEW c \in Context, c.pending # NoCall
  PROVE  [EmptyContext EXCEPT
            !.parked = Append(c.parked,
              [pending |-> c.pending, stack |-> c.stack, replies |-> c.replies,
               stop |-> c.stop, generation |-> c.generation])] \in Context
<1> DEFINE p == [pending |-> c.pending, stack |-> c.stack, replies |-> c.replies,
                 stop |-> c.stop, generation |-> c.generation]
<1>1. p \in Parked
  BY Fields DEF Parked
<1>2. Append(c.parked, p) \in Seq(Parked)
  <2> HIDE DEF p
  <2> QED
    BY <1>1, Fields
<1> QED
  BY <1>2, EmptyType DEF Context, Parked

(* The engine changes the context it holds. *)
LEMMA UpdateType == ASSUME TypeOK, NEW d \in Context, Update(d)
                    PROVE  ctx' \in [Threads -> Context]
BY DEF Update, TypeOK

LEMMA IssueType == ASSUME TypeOK, Issue
                   PROVE  /\ NextToken \in Tokens
                          /\ callToken' = callToken + 1
                          /\ callToken' \in 0 .. MaxToken
BY LimitsAssumption DEF Issue, TypeOK, NextToken, Tokens

-----------------------------------------------------------------------------
(* Type correctness. *)

LEMMA InitType == Init => TypeOK
BY EmptyType, LimitsAssumption DEF Init, TypeOK

LEMMA RunType == ASSUME TypeOK, Run PROVE TypeOK'
<1> DEFINE c == ctx[current]
<1>1. c \in Context
  BY DEF TypeOK
<1>2. \A frame \in 0 .. MaxToken, at \in {"gate", "return"} :
        [c EXCEPT !.stop = [at |-> at, frame |-> frame]] \in Context
  BY <1>1 DEF Context, Stop
<1>3. c.stack # <<>> => Top(c).token \in 0 .. MaxToken
  BY <1>1, TopFields DEF Tokens
<1>4. \A i \in DOMAIN c.stack : c.stack[i].token \in 0 .. MaxToken
  <2>1. \A i \in DOMAIN c.stack : c.stack[i] \in Frame
    BY <1>1, Fields
  <2> QED
    BY <2>1, FrameFields DEF Tokens
<1>5. \E d \in Context : Update(d)
  <2>1. CASE Update([c EXCEPT !.stop = [at |-> "gate",
                       frame |-> IF c.stack = <<>> THEN 0 ELSE Top(c).token]])
    BY <1>2, <1>3, <2>1, Limits
  <2>2. CASE \E i \in DOMAIN c.stack :
               Update([c EXCEPT !.stop = [at |-> "return",
                                          frame |-> c.stack[i].token]])
    BY <1>2, <1>4, <2>2
  <2> QED
    BY <2>1, <2>2 DEF Run
<1> QED
  BY <1>5, UpdateType DEF Run, TypeOK

LEMMA CaptureType == ASSUME TypeOK, NEW owner \in Owners, Capture(owner) PROVE TypeOK'
<1> DEFINE c == ctx[current]
           p == [token |-> NextToken, owner |-> owner, stop |-> c.stop]
<1>1. c \in Context
  BY DEF TypeOK
<1>2. p \in Call
  BY <1>1, Fields, IssueType DEF Capture, Call
<1>3. [c EXCEPT !.pending = p] \in Context
  BY <1>1, <1>2 DEF Context
<1> QED
  BY <1>3, UpdateType, IssueType DEF Capture, TypeOK

(* The actions that change nothing but the context the engine holds. *)
LEMMA OnlyContext == ASSUME TypeOK, NEW d \in Context, Update(d),
                            UNCHANGED <<current, callToken, issuer>>
                     PROVE  TypeOK'
BY UpdateType DEF TypeOK

LEMMA AnswerTypes ==
  ASSUME TypeOK, NEW k \in Tokens, NEW owner \in Owners,
         \/ CompleteCall(owner, k) \/ AbandonCall(k)
         \/ FinishCallback(k) \/ AbortCallback(k)
  PROVE  TypeOK'
<1> DEFINE c == ctx[current]
<1>1. c \in Context
  BY DEF TypeOK
<1>2. CASE CompleteCall(owner, k)
  BY <1>1, <1>2, CompletedType, OnlyContext DEF CompleteCall
<1>3. CASE AbandonCall(k)
  <2>1. [c EXCEPT !.pending = NoCall] \in Context
    BY <1>1 DEF Context
  <2> QED
    BY <1>3, <2>1, OnlyContext DEF AbandonCall
<1>4. CASE FinishCallback(k)
  BY <1>1, <1>4, ResumedType, OnlyContext DEF FinishCallback, HasReturned
<1>5. CASE AbortCallback(k)
  BY <1>1, <1>5, ResumedType, OnlyContext DEF AbortCallback
<1> QED
  BY <1>2, <1>3, <1>4, <1>5

LEMMA WindowsCallType ==
  ASSUME TypeOK, NEW k \in Tokens, NEW owner \in Owners, WindowsCall(owner, k)
  PROVE  TypeOK'
<1> DEFINE c == ctx[current]
<1>1. c \in Context
  BY DEF TypeOK
<1>2. [c EXCEPT !.blocked = 0] \in Context
  BY <1>1, Limits DEF Context
<1>3. CASE Serves(c, owner, k) /\ \E d \in Retried(c) : d # c /\ Update(d)
  BY <1>1, <1>3, RetriedType, OnlyContext DEF Serves, WindowsCall
<1>4. CASE Update(Completed([c EXCEPT !.blocked = 0]))
  BY <1>2, <1>4, CompletedType, OnlyContext DEF WindowsCall
<1>5. CASE \E d \in Serviced(c, owner, k) : Update(d)
  BY <1>1, <1>5, ServicedType, OnlyContext DEF WindowsCall
<1> QED
  BY <1>3, <1>4, <1>5 DEF WindowsCall

LEMMA FinishWindowsCallbackType ==
  ASSUME TypeOK, NEW k \in Tokens, FinishWindowsCallback(k) PROVE TypeOK'
<1> DEFINE c == ctx[current]
           received == Staged(Resumed(c), "received")
<1>1. c \in Context /\ c.stack # <<>> /\ c.replies # <<>>
  BY DEF TypeOK, FinishWindowsCallback, HasReturned
<1>2. Resumed(c) \in Context /\ Resumed(c).replies = c.replies
  BY <1>1, ResumedType DEF Resumed, Context
<1>3. received \in Context /\ received.replies # <<>>
  BY <1>1, <1>2, StagedType DEF Stages
<1>4. \A d \in {received} \cup Retried(received) : d \in Context
  BY <1>3, RetriedType
<1>5. \E d \in {received} \cup Retried(received) : Update(d)
  BY DEF FinishWindowsCallback
<1> QED
  BY <1>4, <1>5, OnlyContext DEF FinishWindowsCallback

LEMMA AuthorizeType == ASSUME TypeOK, NEW k \in Tokens, Authorize(k) PROVE TypeOK'
<1> DEFINE c == ctx[current]
           f == [Top(c) EXCEPT !.authorized = TRUE]
           d == [c EXCEPT !.stack[Len(c.stack)].authorized = TRUE]
<1>1. c \in Context /\ c.stack # <<>>
  BY DEF TypeOK, Authorize, InCallbackOf
<1>2. f \in Frame
  <2>1. Top(c) \in Frame
    BY <1>1, TopFields
  <2>2. ASSUME NEW g \in Frame PROVE [g EXCEPT !.authorized = TRUE] \in Frame
    <3>1. TRUE \in BOOLEAN
      OBVIOUS
    <3> QED
      BY <3>1, Zenon DEF Frame
  <2> QED
    BY <2>1, <2>2
<1>3. d = [c EXCEPT !.stack = [c.stack EXCEPT ![Len(c.stack)] = f]]
  BY DEF Top
<1>4. d \in Context
  BY <1>1, <1>2, <1>3, TopChanged
<1> QED
  BY <1>4, OnlyContext DEF Authorize

LEMMA SelectUnitType ==
  ASSUME TypeOK, NEW k \in Tokens, NEW u \in Units, SelectUnit(k, u) PROVE TypeOK'
<1> DEFINE c == ctx[current]
           f == [Top(c) EXCEPT !.active = u]
           d == [c EXCEPT !.stack[Len(c.stack)].active = u]
<1>1. c \in Context /\ c.stack # <<>>
  BY DEF TypeOK, SelectUnit, InCallbackOf
<1>2. f \in Frame
  BY <1>1, TopFields DEF Frame
<1>3. d = [c EXCEPT !.stack = [c.stack EXCEPT ![Len(c.stack)] = f]]
  BY DEF Top
<1>4. d \in Context
  BY <1>1, <1>2, <1>3, TopChanged
<1> QED
  BY <1>4, OnlyContext DEF SelectUnit

LEMMA BeginCallbackType ==
  ASSUME TypeOK, NEW form \in {"core", "replacement", "resident"}, BeginCallback(form)
  PROVE  TypeOK'
<1> DEFINE c == ctx[current]
<1>1. c \in Context
  BY DEF TypeOK
<1>2. PICK unit \in UnitsOf(form), home \in UnitsOf(form) :
        /\ MaySuspend(c, form, unit)
        /\ Issue
        /\ Update(Suspended(c, form, unit, home))
        /\ UNCHANGED <<current, issuer>>
  BY DEF BeginCallback
<1>3. unit \in Units \cup {0} /\ home \in Units \cup {0}
  BY DEF UnitsOf
<1>4. Suspended(c, form, unit, home) \in Context
  BY <1>1, <1>2, <1>3, IssueType, SuspendedType DEF MaySuspend
<1> QED
  BY <1>2, <1>4, UpdateType, IssueType DEF TypeOK

LEMMA ResumeWaitType == ASSUME TypeOK, ResumeWait PROVE TypeOK'
<1> DEFINE c == ctx[current]
<1>1. c \in Context /\ c.replies # <<>>
  BY DEF TypeOK, ResumeWait
<1>2. \E d \in Advanced(c) : Update(d)
  BY DEF ResumeWait
<1> QED
  BY <1>1, <1>2, AdvancedType, OnlyContext DEF ResumeWait

LEMMA ModuleTypes == ASSUME TypeOK, ParkModule \/ UnparkModule PROVE TypeOK'
<1> DEFINE c == ctx[current]
<1>1. c \in Context
  BY DEF TypeOK
<1>2. CASE ParkModule
  BY <1>1, <1>2, ParkedType, OnlyContext DEF ParkModule
<1>3. CASE UnparkModule
  <2> DEFINE p == c.parked[Len(c.parked)]
             restored == [pending |-> p.pending, stack |-> p.stack,
                          replies |-> p.replies, blocked |-> 0, stop |-> p.stop,
                          generation |-> p.generation,
                          parked |-> SubSeq(c.parked, 1, Len(c.parked) - 1)]
  <2>1. restored \in Context
    BY <1>1, <1>3, UnparkedType DEF UnparkModule
  <2>2. \E d \in {restored, Completed(restored)} : Update(d)
    BY <1>3 DEF UnparkModule
  <2> QED
    BY <1>3, <2>1, <2>2, CompletedType, OnlyContext DEF UnparkModule
<1> QED
  BY <1>2, <1>3

LEMMA BeginWindowsCallbackType == ASSUME TypeOK, BeginWindowsCallback PROVE TypeOK'
<1> DEFINE c == ctx[current]
           r == LastReply(c)
           form == IF r.owner.kind \in {"core", "replacement"} THEN r.owner.kind
                   ELSE "resident"
           unit == IF form = "resident" THEN r.owner.unit ELSE 0
           running(home) ==
             [r EXCEPT !.stage = "running",
                       !.callback = [token |-> NextToken, form |-> form,
                          generation |-> IF form = "replacement"
                                         THEN c.generation ELSE 0,
                          home |-> home]]
<1>1. c \in Context /\ c.replies # <<>> /\ r \in Reply
  BY LastReplyFields DEF TypeOK, BeginWindowsCallback
<1>2. r.owner \in Owners
  BY <1>1 DEF Reply
<1>3. form \in {"core", "replacement", "resident"} /\ unit \in Units \cup {0}
  <2>1. \/ r.owner = Core
        \/ \E g \in 1 .. MaxGeneration : r.owner = Replacement(g)
        \/ \E u \in Units : r.owner = Resident(u)
        \/ \E u \in Units, k \in Tokens : r.owner = InCallback(u, k)
    BY <1>2 DEF Owners
  <2> HIDE DEF r
  <2>2. CASE r.owner = Core
    BY <2>2 DEF Core
  <2>3. CASE \E g \in 1 .. MaxGeneration : r.owner = Replacement(g)
    BY <2>3 DEF Replacement
  <2>4. CASE \E u \in Units : r.owner = Resident(u)
    BY <2>4 DEF Resident
  <2>5. CASE \E u \in Units, k \in Tokens : r.owner = InCallback(u, k)
    BY <2>5 DEF InCallback
  <2> QED
    BY <2>1, <2>2, <2>3, <2>4, <2>5
<1>4. PICK home \in UnitsOf(form) :
        /\ MaySuspend(c, form, unit)
        /\ Issue
        /\ Update(SetReply(Suspended(c, form, unit, home), running(home)))
  BY DEF BeginWindowsCallback
<1>5. home \in Units \cup {0}
  BY <1>4 DEF UnitsOf
<1>6. /\ Suspended(c, form, unit, home) \in Context
      /\ Suspended(c, form, unit, home).replies = c.replies
  <2> HIDE DEF form, unit
  <2>1. NextToken \in Tokens /\ c.pending # NoCall
    BY <1>4, IssueType DEF MaySuspend
  <2>2. Suspended(c, form, unit, home) \in Context
    BY <1>1, <1>3, <1>5, <2>1, SuspendedType
  <2> QED
    BY <1>1, <2>2 DEF Suspended, Context
<1>7. running(home) \in Reply
  <2>1. c.generation \in 0 .. MaxGeneration /\ 0 \in 0 .. MaxGeneration
    BY <1>1, Fields, LimitsAssumption
  <2> HIDE DEF form
  <2>2. [token |-> NextToken, form |-> form,
         generation |-> IF form = "replacement" THEN c.generation ELSE 0,
         home |-> home] \in Running
    BY <2>1, <1>3, <1>4, <1>5, IssueType DEF Running
  <2> HIDE DEF r
  <2> QED
    BY <1>1, <2>2 DEF Reply, Stages
<1>8. SetReply(Suspended(c, form, unit, home), running(home)) \in Context
  <2> HIDE DEF form, unit, running
  <2> QED
    BY <1>1, <1>6, <1>7, SetReplyType
<1> HIDE DEF form, unit, running
<1> QED
  BY <1>4, <1>8, UpdateType, IssueType DEF BeginWindowsCallback, TypeOK

LEMMA GenerationTypes == ASSUME TypeOK, Compile \/ ResumeCallbackCode PROVE TypeOK'
<1> DEFINE c == ctx[current]
<1>1. c \in Context
  BY DEF TypeOK
<1>2. issuer' = NextGeneration /\ NextGeneration \in 1 .. MaxGeneration
  BY LimitsAssumption DEF Compile, ResumeCallbackCode, NextGeneration, TypeOK
<1>3. [c EXCEPT !.generation = NextGeneration] \in Context
  <2>1. NextGeneration \in 0 .. MaxGeneration
    BY <1>2, Limits
  <2> QED
    BY <1>1, <2>1 DEF Context
<1>4. CASE Compile
  BY <1>2, <1>3, <1>4, UpdateType, LimitsAssumption DEF Compile, TypeOK
<1>5. CASE ResumeCallbackCode
  <2> DEFINE g == NextGeneration
             n == Len(c.stack)
             d == [c EXCEPT !.generation = g]
             e == [d EXCEPT !.stack[n].generation = g]
             f == [Top(c) EXCEPT !.generation = g]
             h == [f EXCEPT !.outer.owner = Replacement(g)]
  <2>1. c.stack # <<>>
    BY <1>5 DEF ResumeCallbackCode, InCallbackOf
  <2>2. Replacement(g) \in Owners
    BY <1>2 DEF Owners
  <2>3. f \in Frame
    <3>1. Top(c) \in Frame /\ g \in 0 .. MaxGeneration
      BY <1>1, <1>2, <2>1, TopFields, Limits
    <3> QED
      BY <3>1 DEF Frame
  <2>4. d.stack = c.stack /\ d \in Context
    BY <1>1, <1>3 DEF Context
  <2>5. e = [d EXCEPT !.stack = [d.stack EXCEPT ![n] = f]]
    BY <2>4 DEF Top
  <2>6. e \in Context /\ e.stack = [c.stack EXCEPT ![n] = f]
    <3>1. [d EXCEPT !.stack = [d.stack EXCEPT ![n] = f]] \in Context
      BY <2>1, <2>3, <2>4, TopChanged
    <3> HIDE DEF f
    <3> QED
      BY <2>4, <2>5, <3>1 DEF Context
  <2>7. Len(e.stack) = n /\ Top(e) = f /\ e.stack # <<>>
    <3> HIDE DEF e, f
    <3> QED
      BY <1>1, <2>1, <2>6, Fields DEF Top
  <2>8. h \in Frame
    <3>1. [f.outer EXCEPT !.owner = Replacement(g)] \in Call
      <4> HIDE DEF f, g
      <4> QED
        BY <2>2, <2>3, FrameFields DEF Call
    <3>2. h = [f EXCEPT !.outer = [f.outer EXCEPT !.owner = Replacement(g)]]
      OBVIOUS
    <3> HIDE DEF f, g, h
    <3> QED
      BY <2>3, <3>1, <3>2 DEF Frame
  <2>9. [e EXCEPT !.stack[n].outer.owner = Replacement(g)]
          = [e EXCEPT !.stack = [e.stack EXCEPT ![n] = h]]
    <3> HIDE DEF e, f, g
    <3>1. e.stack[n] = f
      BY <2>7 DEF Top
    <3> QED
      BY <3>1
  <2>10. [e EXCEPT !.stack = [e.stack EXCEPT ![n] = h]] \in Context
    <3> HIDE DEF e, f, g, h
    <3>1. [e EXCEPT !.stack = [e.stack EXCEPT ![Len(e.stack)] = h]] \in Context
      BY <2>6, <2>7, <2>8, TopChanged
    <3> QED
      BY <2>7, <3>1
  <2>11. Update([e EXCEPT !.stack[n].outer.owner = Replacement(g)])
    BY <1>5 DEF ResumeCallbackCode
  <2>12. ctx' \in [Threads -> Context]
    <3> HIDE DEF e, g, h
    <3> QED
      BY <2>9, <2>10, <2>11, UpdateType
  <2> QED
    BY <1>2, <1>5, <2>12, Limits DEF ResumeCallbackCode, TypeOK
<1> QED
  BY <1>4, <1>5

LEMMA NextType == ASSUME TypeOK, [Next]_vars PROVE TypeOK'
<1>1. \A k \in 1 .. callToken : k \in Tokens
  BY LimitsAssumption DEF TypeOK, Tokens
<1>2. CASE Run
  BY <1>2, RunType
<1>3. CASE \E owner \in Owners : Capture(owner)
  BY <1>3, CaptureType
<1>4. CASE Answer
  <2>1. Core \in Owners
    BY DEF Owners
  <2> QED
    BY <1>1, <1>4, <2>1, AnswerTypes, WindowsCallType, FinishWindowsCallbackType,
       AuthorizeType, SelectUnitType DEF Answer
<1>5. CASE \E form \in {"core", "replacement", "resident"} : BeginCallback(form)
  BY <1>5, BeginCallbackType
<1>6. CASE BeginWindowsCallback
  BY <1>6, BeginWindowsCallbackType
<1>7. CASE ResumeWait
  BY <1>7, ResumeWaitType
<1>8. CASE ParkModule \/ UnparkModule
  BY <1>8, ModuleTypes
<1>9. CASE Compile \/ ResumeCallbackCode
  BY <1>9, GenerationTypes
<1>10. CASE \E t \in Threads : Switch(t)
  BY <1>10 DEF Switch, TypeOK
<1>11. CASE UNCHANGED vars
  BY <1>11 DEF vars, TypeOK
<1> QED
  BY <1>2, <1>3, <1>4, <1>5, <1>6, <1>7, <1>8, <1>9, <1>10, <1>11 DEF Next

(* Every variable keeps the type the code gives it, for any limits. *)
THEOREM TypeCorrect == Spec => []TypeOK
<1>1. TypeOK /\ [Next]_vars => TypeOK'
  BY NextType
<1> QED
  BY <1>1, InitType, PTL DEF Spec

-----------------------------------------------------------------------------
(* What one execution (a context, or a parked part of one) has open.       *)

Execution(e) == e.pending \in Call \cup {NoCall} /\ e.stack \in Seq(Frame)

LEMMA CallTokens == ASSUME NEW k \in Call
                    PROVE  k.token \in Nat /\ k.token > 0 /\ k # NoCall
<1>1. k.token \in 1 .. MaxToken
  BY CallFields DEF Tokens
<1> QED
  BY <1>1, Limits DEF NoCall

LEMMA FrameTokens == ASSUME NEW e, Execution(e), NEW i \in DOMAIN e.stack
                     PROVE  /\ e.stack[i] \in Frame
                            /\ e.stack[i].token \in Nat
                            /\ e.stack[i].outer \in Call
                            /\ e.stack[i].outer.token \in Nat
<1>1. e.stack[i] \in Frame
  BY DEF Execution
<1> QED
  BY <1>1, FrameFields, CallTokens, Limits DEF Tokens

LEMMA OpenMember ==
  ASSUME NEW e, NEW k
  PROVE  k \in OpenIn(e) <=>
           \/ \E i \in DOMAIN e.stack : k = e.stack[i].outer.token
           \/ \E i \in DOMAIN e.stack : k = e.stack[i].token
           \/ e.pending # NoCall /\ k = e.pending.token
BY DEF OpenIn

LEMMA OpenTokens == ASSUME NEW e, Execution(e) PROVE OpenIn(e) \subseteq Nat
BY OpenMember, FrameTokens, CallTokens DEF Execution

(* The stop, the code and the units of an execution do not count. *)
LEMMA SameTokens ==
  ASSUME NEW e, NEW f, f.pending = e.pending, DOMAIN f.stack = DOMAIN e.stack,
         \A i \in DOMAIN e.stack : /\ f.stack[i].token = e.stack[i].token
                                   /\ f.stack[i].outer.token = e.stack[i].outer.token
  PROVE  OpenIn(f) = OpenIn(e) /\ (Nested(e) => Nested(f))
<1>1. \A k : k \in OpenIn(f) <=> k \in OpenIn(e)
  BY OpenMember
<1>2. Nested(e) => Nested(f)
  BY DEF Nested
<1> QED
  BY <1>1, <1>2

LEMMA CallCaptured ==
  ASSUME NEW e, NEW f, Execution(e), Nested(e), NEW n \in Nat,
         \A k \in OpenIn(e) : k <= n,
         e.pending = NoCall, f.pending # NoCall, f.pending.token = n + 1,
         f.stack = e.stack
  PROVE  OpenIn(f) = OpenIn(e) \cup {n + 1} /\ Nested(f)
<1>1. \A k : k \in OpenIn(f) <=> k \in OpenIn(e) \cup {n + 1}
  BY OpenMember
<1>2. ASSUME NEW i \in DOMAIN e.stack PROVE e.stack[i].token < n + 1
  <2>1. e.stack[i].token \in OpenIn(e)
    BY OpenMember
  <2>2. e.stack[i].token \in Nat /\ e.stack[i].token <= n
    BY <2>1, FrameTokens
  <2> QED
    BY <2>2
<1>3. Nested(f)
  BY <1>2 DEF Nested
<1> QED
  BY <1>1, <1>3

LEMMA CallSuspended ==
  ASSUME NEW e, NEW f, Execution(e), Nested(e), NEW n \in Nat,
         \A k \in OpenIn(e) : k <= n,
         NEW x, x.token = n + 1, x.outer = e.pending,
         e.pending # NoCall, f.pending = NoCall, f.stack = Append(e.stack, x)
  PROVE  OpenIn(f) = OpenIn(e) \cup {n + 1} /\ Nested(f)
<1> DEFINE l == Len(e.stack)
<1>1. /\ l \in Nat /\ DOMAIN e.stack = 1 .. l /\ DOMAIN f.stack = 1 .. l + 1
      /\ f.stack[l + 1] = x
      /\ \A i \in 1 .. l : f.stack[i] = e.stack[i]
  BY DEF Execution
<1> HIDE DEF l
<1>2. e.pending.token \in OpenIn(e) /\ e.pending.token \in Nat
  BY OpenMember, CallTokens DEF Execution
<1>3. \A i \in 1 .. l + 1 : i = l + 1 \/ i \in 1 .. l
  BY <1>1
<1>4. l + 1 \in 1 .. l + 1 /\ 1 .. l \subseteq 1 .. l + 1
  BY <1>1
<1>5. ASSUME NEW k PROVE k \in OpenIn(f) <=> k \in OpenIn(e) \cup {n + 1}
  <2>1. k \in OpenIn(e) <=> \/ \E i \in 1 .. l : \/ k = e.stack[i].outer.token
                                                 \/ k = e.stack[i].token
                            \/ k = e.pending.token
    BY <1>1, OpenMember
  <2>2. k \in OpenIn(f) <=> \E i \in 1 .. l + 1 : \/ k = f.stack[i].outer.token
                                                  \/ k = f.stack[i].token
    <3>1. k \in OpenIn(f) <=> \/ \E i \in DOMAIN f.stack : k = f.stack[i].outer.token
                              \/ \E i \in DOMAIN f.stack : k = f.stack[i].token
                              \/ f.pending # NoCall /\ k = f.pending.token
      BY OpenMember
    <3>2. DOMAIN f.stack = 1 .. l + 1
      BY <1>1
    <3> QED
      BY ONLY <3>1, <3>2, f.pending = NoCall
  <2>3. (\E i \in 1 .. l + 1 : k = f.stack[i].outer.token \/ k = f.stack[i].token)
          <=> \/ \E i \in 1 .. l : \/ k = e.stack[i].outer.token
                                   \/ k = e.stack[i].token
              \/ k = x.outer.token \/ k = x.token
    <3>1. ASSUME NEW i \in 1 .. l + 1
          PROVE  f.stack[i] = x \/ (i \in 1 .. l /\ f.stack[i] = e.stack[i])
      BY <1>1, <1>3
    <3>2. ASSUME NEW i \in 1 .. l
          PROVE  i \in 1 .. l + 1 /\ f.stack[i] = e.stack[i]
      <4>1. i \in 1 .. l + 1
        BY <1>4
      <4> QED
        BY <1>1, <4>1
    <3>3. l + 1 \in 1 .. l + 1 /\ f.stack[l + 1] = x
      BY <1>1, <1>4
    <3>4. ASSUME NEW i \in 1 .. l + 1, k = f.stack[i].outer.token \/ k = f.stack[i].token
          PROVE  \/ \E j \in 1 .. l : k = e.stack[j].outer.token \/ k = e.stack[j].token
                 \/ k = x.outer.token \/ k = x.token
      <4>1. CASE f.stack[i] = x
        BY <3>4, <4>1
      <4>2. CASE i \in 1 .. l /\ f.stack[i] = e.stack[i]
        BY <3>4, <4>2
      <4> QED
        BY <3>1, <4>1, <4>2
    <3>5. ASSUME NEW i \in 1 .. l, k = e.stack[i].outer.token \/ k = e.stack[i].token
          PROVE  \E j \in 1 .. l + 1 : k = f.stack[j].outer.token \/ k = f.stack[j].token
      BY <3>2, <3>5
    <3>6. ASSUME k = x.outer.token \/ k = x.token
          PROVE  \E j \in 1 .. l + 1 : k = f.stack[j].outer.token \/ k = f.stack[j].token
      BY <3>3, <3>6
    <3> QED
      BY <3>4, <3>5, <3>6
  <2> QED
    BY <2>1, <2>2, <2>3
<1>6. \A i \in 1 .. l : /\ e.stack[i].outer.token < e.stack[i].token
                        /\ e.stack[i].token < e.pending.token
                        /\ \A j \in 1 .. l :
                             i < j => e.stack[i].token < e.stack[j].outer.token
  BY <1>1 DEF Nested
<1>7. Nested(f)
  <2> SUFFICES ASSUME NEW i \in 1 .. l + 1
               PROVE  /\ f.stack[i].outer.token < f.stack[i].token
                      /\ \A j \in 1 .. l + 1 :
                           i < j => f.stack[i].token < f.stack[j].outer.token
    BY <1>1 DEF Nested
  <2>1. CASE i = l + 1
    BY <1>1, <1>2, <2>1
  <2>2. CASE i \in 1 .. l
    BY <1>1, <1>3, <1>6, <2>2
  <2> QED
    BY <1>3, <2>1, <2>2
<1> QED
  BY <1>5, <1>7

LEMMA CallDropped ==
  ASSUME NEW e, NEW f, Execution(e), Nested(e),
         e.pending # NoCall, f.pending = NoCall, f.stack = e.stack
  PROVE  /\ e.pending.token \in OpenIn(e)
         /\ OpenIn(f) = {k \in OpenIn(e) : k < e.pending.token}
         /\ Nested(f)
<1>1. e.pending.token \in OpenIn(e) /\ e.pending.token \in Nat
  BY OpenMember, CallTokens DEF Execution
<1>2. \A i \in DOMAIN e.stack : /\ e.stack[i].token < e.pending.token
                                /\ e.stack[i].outer.token < e.pending.token
  BY <1>1, FrameTokens DEF Nested
<1>3. \A k : k \in OpenIn(f) <=> k \in OpenIn(e) /\ k < e.pending.token
  BY <1>1, <1>2, OpenMember
<1>4. Nested(f)
  BY DEF Nested
<1> QED
  BY <1>1, <1>3, <1>4

LEMMA CallResumed ==
  ASSUME NEW e, NEW f, Execution(e), Nested(e), e.stack # <<>>,
         NEW x, x = e.stack[Len(e.stack)],
         f.pending = x.outer, f.stack = SubSeq(e.stack, 1, Len(e.stack) - 1)
  PROVE  /\ x.token \in OpenIn(e)
         /\ OpenIn(f) = {k \in OpenIn(e) : k < x.token}
         /\ Nested(f)
         /\ f.pending # NoCall
         /\ x.outer.token < x.token
<1> DEFINE l == Len(e.stack)
<1>1. /\ l \in Nat /\ l >= 1 /\ DOMAIN e.stack = 1 .. l
      /\ DOMAIN f.stack = 1 .. l - 1
      /\ \A i \in 1 .. l - 1 : f.stack[i] = e.stack[i]
  BY Below, LastElement DEF Execution
<1>2. l \in DOMAIN e.stack /\ x = e.stack[l]
  BY <1>1
<1> HIDE DEF l
<1>3. /\ x.token \in Nat /\ x.outer.token \in Nat
      /\ x.outer # NoCall /\ x.outer.token < x.token
  BY <1>2, FrameTokens, CallTokens DEF Nested
<1>4. \A i \in 1 .. l - 1 : /\ e.stack[i].token \in Nat
                            /\ e.stack[i].outer.token \in Nat
                            /\ e.stack[i].outer.token < e.stack[i].token
                            /\ e.stack[i].token < x.outer.token
  <2> TAKE i \in 1 .. l - 1
  <2>1. i \in DOMAIN e.stack /\ i < l
    BY <1>1
  <2> QED
    BY <1>2, <2>1, FrameTokens DEF Nested
<1>5. \A i \in 1 .. l : i = l \/ i \in 1 .. l - 1
  BY <1>1
<1>6. x.token \in OpenIn(e)
  BY <1>2, OpenMember
<1>7. ASSUME NEW k
      PROVE  k \in OpenIn(f) <=>
              \/ \E i \in 1 .. l - 1 : \/ k = e.stack[i].outer.token
                                      \/ k = e.stack[i].token
              \/ k = x.outer.token
  <2>1. k \in OpenIn(f) <=> \/ \E i \in 1 .. l - 1 : \/ k = f.stack[i].outer.token
                                                     \/ k = f.stack[i].token
                            \/ k = f.pending.token
    BY <1>1, <1>3, OpenMember
  <2> QED
    BY <1>1, <2>1
<1>8. \A k : k \in OpenIn(e) <=>
              \/ \E i \in 1 .. l - 1 : \/ k = e.stack[i].outer.token
                                      \/ k = e.stack[i].token
              \/ k = x.outer.token
              \/ k = x.token
              \/ e.pending # NoCall /\ k = e.pending.token
  BY <1>1, <1>2, <1>5, OpenMember
<1>9. e.pending # NoCall => e.pending.token \in Nat /\ x.token < e.pending.token
  BY <1>2, CallTokens DEF Nested, Execution
<1>10. ASSUME NEW k PROVE k \in OpenIn(f) <=> k \in OpenIn(e) /\ k < x.token
  <2>1. \A i \in 1 .. l - 1 : /\ e.stack[i].outer.token < x.token
                              /\ e.stack[i].token < x.token
    BY <1>3, <1>4
  <2>2. ~(x.token < x.token) /\ (e.pending # NoCall => ~(e.pending.token < x.token))
    BY <1>3, <1>9
  <2> QED
    BY <1>3, <1>7, <1>8, <2>1, <2>2
<1>11. Nested(f)
  BY <1>1, <1>4 DEF Nested
<1> QED
  BY <1>3, <1>6, <1>10, <1>11

-----------------------------------------------------------------------------
(* What a thread has open: its execution, on top of the parked ones.       *)

Under(c) == UNION {OpenIn(c.parked[i]) : i \in DOMAIN c.parked}

Bounded(c, n) == \A k \in Open(c) : k <= n

Ordered(c) ==
    /\ Nested(c)
    /\ \A i \in DOMAIN c.parked :
         /\ Nested(c.parked[i])
         /\ \A k \in OpenIn(c.parked[i]) :
              /\ \A j \in OpenIn(c) : k < j
              /\ \A m \in DOMAIN c.parked :
                   i < m => \A j \in OpenIn(c.parked[m]) : k < j

(* What a step that takes a thread's context from c to d, and the last     *)
(* token from n to m, does to the open calls: a step of CallStack.         *)
Opens(c, n, d, m)  == m = n + 1 /\ Open(d) = Open(c) \cup {n + 1}
Closes(c, n, d, m) == m = n /\ \E k \in Open(c) : Open(d) = {j \in Open(c) : j < k}
Keeps(c, n, d, m)  == m = n /\ Open(d) = Open(c)

Effect(c, n, d, m) ==
    /\ Ordered(d)
    /\ Opens(c, n, d, m) \/ Closes(c, n, d, m) \/ Keeps(c, n, d, m)

LEMMA ContextExecution == ASSUME NEW c \in Context
                          PROVE  /\ Execution(c)
                                 /\ \A i \in DOMAIN c.parked : Execution(c.parked[i])
<1>1. Execution(c)
  BY Fields DEF Execution
<1>2. \A i \in DOMAIN c.parked : c.parked[i] \in Parked
  BY Fields
<1> QED
  BY <1>1, <1>2 DEF Parked, Execution

LEMMA OpenUnder == ASSUME NEW c PROVE Open(c) = OpenIn(c) \cup Under(c)
BY DEF Open, Under

LEMMA OpenNat == ASSUME NEW c \in Context
                 PROVE  /\ OpenIn(c) \subseteq Nat /\ Under(c) \subseteq Nat
                        /\ Open(c) \subseteq Nat
BY ContextExecution, OpenTokens, OpenUnder DEF Under

LEMMA UnderIsOlder == ASSUME NEW c, Ordered(c), NEW k \in Under(c), NEW j \in OpenIn(c)
                      PROVE  k < j
BY DEF Ordered, Under

(* Changes of the execution on top. *)
LEMMA TopKept ==
  ASSUME NEW c, NEW d, Ordered(c), NEW n, d.parked = c.parked,
         Nested(d), OpenIn(d) = OpenIn(c)
  PROVE  Effect(c, n, d, n)
<1>1. Ordered(d)
  BY DEF Ordered
<1>2. Open(d) = Open(c)
  BY OpenUnder DEF Under
<1> QED
  BY <1>1, <1>2 DEF Effect, Keeps

LEMMA TopOpens ==
  ASSUME NEW c \in Context, NEW d, Ordered(c), NEW n \in Nat, Bounded(c, n),
         d.parked = c.parked, Nested(d), OpenIn(d) = OpenIn(c) \cup {n + 1}
  PROVE  Effect(c, n, d, n + 1)
<1>1. \A k \in Under(c) : k < n + 1
  BY OpenUnder, OpenNat DEF Bounded
<1>2. ASSUME NEW i \in DOMAIN c.parked, NEW k \in OpenIn(c.parked[i])
      PROVE  k < n + 1
  BY <1>1 DEF Under
<1>3. Ordered(d)
  BY <1>2 DEF Ordered
<1>4. Open(d) = Open(c) \cup {n + 1}
  BY OpenUnder DEF Under
<1> QED
  BY <1>3, <1>4 DEF Effect, Opens

LEMMA TopCloses ==
  ASSUME NEW c \in Context, NEW d, Ordered(c), NEW n,
         d.parked = c.parked, Nested(d), NEW k \in OpenIn(c),
         OpenIn(d) = {j \in OpenIn(c) : j < k}
  PROVE  Effect(c, n, d, n) /\ Open(d) = {j \in Open(c) : j < k}
<1>1. \A j \in Under(c) : j < k
  BY UnderIsOlder
<1>2. Under(d) = Under(c)
  BY DEF Under
<1>3. Open(d) = {j \in Open(c) : j < k}
  BY <1>1, <1>2, OpenUnder
<1>4. k \in Open(c)
  BY OpenUnder
<1>5. Ordered(d)
  BY DEF Ordered
<1> QED
  BY <1>3, <1>4, <1>5 DEF Effect, Closes

-----------------------------------------------------------------------------
(* The changes that the actions make to a context. *)

LEMMA KeepEffect ==
  ASSUME NEW c, NEW d, Ordered(c), NEW n,
         d.parked = c.parked, d.pending = c.pending, DOMAIN d.stack = DOMAIN c.stack,
         \A i \in DOMAIN c.stack : /\ d.stack[i].token = c.stack[i].token
                                   /\ d.stack[i].outer.token = c.stack[i].outer.token
  PROVE  Effect(c, n, d, n)
BY SameTokens, TopKept DEF Ordered

LEMMA CaptureEffect ==
  ASSUME NEW c \in Context, NEW d, Ordered(c), NEW n \in Nat, Bounded(c, n),
         d.parked = c.parked, d.stack = c.stack,
         c.pending = NoCall, d.pending # NoCall, d.pending.token = n + 1
  PROVE  Effect(c, n, d, n + 1)
<1>1. \A k \in OpenIn(c) : k <= n
  BY OpenUnder DEF Bounded
<1>2. OpenIn(d) = OpenIn(c) \cup {n + 1} /\ Nested(d)
  BY <1>1, ContextExecution, CallCaptured DEF Ordered
<1> QED
  BY <1>2, TopOpens

LEMMA SuspendEffect ==
  ASSUME NEW c \in Context, NEW d, Ordered(c), NEW n \in Nat, Bounded(c, n),
         d.parked = c.parked, NEW x, d.stack = Append(c.stack, x),
         x.token = n + 1, x.outer = c.pending,
         c.pending # NoCall, d.pending = NoCall
  PROVE  Effect(c, n, d, n + 1)
<1>1. \A k \in OpenIn(c) : k <= n
  BY OpenUnder DEF Bounded
<1>2. OpenIn(d) = OpenIn(c) \cup {n + 1} /\ Nested(d)
  BY <1>1, ContextExecution, CallSuspended DEF Ordered
<1> QED
  BY <1>2, TopOpens

LEMMA DropEffect ==
  ASSUME NEW c \in Context, NEW d, Ordered(c), NEW n,
         d.parked = c.parked, d.stack = c.stack,
         c.pending # NoCall, d.pending = NoCall
  PROVE  /\ Effect(c, n, d, n)
         /\ c.pending.token \in Open(c)
         /\ Open(d) = {j \in Open(c) : j < c.pending.token}
<1>1. /\ c.pending.token \in OpenIn(c)
      /\ OpenIn(d) = {k \in OpenIn(c) : k < c.pending.token}
      /\ Nested(d)
  BY ContextExecution, CallDropped DEF Ordered
<1> QED
  BY <1>1, TopCloses, OpenUnder

LEMMA ResumeEffect ==
  ASSUME NEW c \in Context, NEW d, Ordered(c), NEW n, c.stack # <<>>,
         d.parked = c.parked, d.stack = SubSeq(c.stack, 1, Len(c.stack) - 1),
         d.pending = Top(c).outer
  PROVE  /\ Effect(c, n, d, n)
         /\ d.pending # NoCall
         /\ Top(c).token \in Open(c)
         /\ Open(d) = {j \in Open(c) : j < Top(c).token}
         /\ d.pending.token < Top(c).token
<1>1. /\ Top(c).token \in OpenIn(c)
      /\ OpenIn(d) = {k \in OpenIn(c) : k < Top(c).token}
      /\ Nested(d)
      /\ d.pending # NoCall
      /\ d.pending.token < Top(c).token
  BY ContextExecution, CallResumed DEF Ordered, Top
<1> QED
  BY <1>1, TopCloses, OpenUnder

LEMMA SameExecution ==
  ASSUME NEW e, NEW f, f.pending = e.pending, f.stack = e.stack
  PROVE  OpenIn(f) = OpenIn(e) /\ (Nested(e) <=> Nested(f))
BY DEF OpenIn, Nested

LEMMA NothingOpen == ASSUME NEW e, e.pending = NoCall, e.stack = <<>>
                     PROVE  OpenIn(e) = {} /\ Nested(e)
BY DEF OpenIn, Nested

LEMMA ParkEffect ==
  ASSUME NEW c \in Context, NEW d, Ordered(c), NEW n, NEW p,
         p.pending = c.pending, p.stack = c.stack,
         d.parked = Append(c.parked, p), d.pending = NoCall, d.stack = <<>>
  PROVE  Effect(c, n, d, n)
<1> DEFINE l == Len(c.parked)
<1>1. /\ l \in Nat /\ DOMAIN c.parked = 1 .. l /\ DOMAIN d.parked = 1 .. l + 1
      /\ d.parked[l + 1] = p
      /\ \A i \in 1 .. l : d.parked[i] = c.parked[i]
  BY Fields
<1> HIDE DEF l
<1>2. \A i \in 1 .. l + 1 : i = l + 1 \/ (i \in 1 .. l /\ i < l + 1)
  BY <1>1
<1>3. l + 1 \in 1 .. l + 1 /\ \A i \in 1 .. l : i \in 1 .. l + 1
  BY <1>1
<1>4. OpenIn(d) = {} /\ Nested(d)
  BY NothingOpen
<1>5. OpenIn(d.parked[l + 1]) = OpenIn(c) /\ Nested(d.parked[l + 1])
  BY <1>1, SameExecution DEF Ordered
<1>6. \A i \in 1 .. l : /\ Nested(c.parked[i])
                        /\ \A k \in OpenIn(c.parked[i]) :
                             /\ \A j \in OpenIn(c) : k < j
                             /\ \A m \in 1 .. l :
                                  i < m => \A j \in OpenIn(c.parked[m]) : k < j
  BY <1>1 DEF Ordered
<1>7. Ordered(d)
  <2> SUFFICES ASSUME NEW i \in 1 .. l + 1
               PROVE  /\ Nested(d.parked[i])
                      /\ \A k \in OpenIn(d.parked[i]) :
                           \A m \in 1 .. l + 1 :
                             i < m => \A j \in OpenIn(d.parked[m]) : k < j
    BY <1>1, <1>4 DEF Ordered
  <2>1. CASE i = l + 1
    BY <1>1, <1>5, <2>1
  <2>2. CASE i \in 1 .. l
    <3>1. Nested(d.parked[i])
      BY <1>1, <1>6, <2>2
    <3>2. ASSUME NEW k \in OpenIn(d.parked[i]), NEW m \in 1 .. l + 1, i < m,
                 NEW j \in OpenIn(d.parked[m])
          PROVE  k < j
      <4>1. k \in OpenIn(c.parked[i])
        BY <1>1, <2>2
      <4>2. CASE m = l + 1
        BY <1>5, <1>6, <2>2, <4>1, <4>2
      <4>3. CASE m \in 1 .. l
        BY <1>1, <1>6, <2>2, <3>2, <4>1, <4>3
      <4> QED
        BY <1>2, <4>2, <4>3
    <3> QED
      BY <3>1, <3>2
  <2> QED
    BY <1>2, <2>1, <2>2
<1>8. Under(d) = Under(c) \cup OpenIn(c)
  <2>1. ASSUME NEW k, k \in Under(d) PROVE k \in Under(c) \cup OpenIn(c)
    <3>1. PICK i \in 1 .. l + 1 : k \in OpenIn(d.parked[i])
      BY <1>1, <2>1 DEF Under
    <3> QED
      BY <1>1, <1>2, <1>5, <3>1 DEF Under
  <2>2. ASSUME NEW k, k \in Under(c) \cup OpenIn(c) PROVE k \in Under(d)
    <3>1. CASE k \in OpenIn(c)
      BY <1>1, <1>3, <1>5, <3>1 DEF Under
    <3>2. CASE k \in Under(c)
      <4>1. PICK i \in 1 .. l : k \in OpenIn(c.parked[i])
        BY <1>1, <3>2 DEF Under
      <4> QED
        BY <1>1, <1>3, <4>1 DEF Under
    <3> QED
      BY <2>2, <3>1, <3>2
  <2> QED
    BY <2>1, <2>2
<1>9. Open(d) = Open(c)
  BY <1>4, <1>8, OpenUnder
<1> QED
  BY <1>7, <1>9 DEF Effect, Keeps

LEMMA UnparkEffect ==
  ASSUME NEW c \in Context, NEW d, Ordered(c), NEW n, c.parked # <<>>,
         NEW p, p = c.parked[Len(c.parked)],
         c.pending = NoCall, c.stack = <<>>,
         d.parked = SubSeq(c.parked, 1, Len(c.parked) - 1),
         d.pending = p.pending, d.stack = p.stack
  PROVE  Effect(c, n, d, n) /\ Open(d) = Open(c) /\ Ordered(d)
<1> DEFINE l == Len(c.parked)
<1>1. /\ l \in Nat /\ l >= 1 /\ DOMAIN c.parked = 1 .. l
      /\ DOMAIN d.parked = 1 .. l - 1
      /\ \A i \in 1 .. l - 1 : d.parked[i] = c.parked[i]
  <2>1. c.parked \in Seq(Parked)
    BY Fields
  <2> QED
    BY <2>1, Below, LastElement
<1>2. p = c.parked[l]
  OBVIOUS
<1> HIDE DEF l
<1>3. \A i \in 1 .. l : i = l \/ (i \in 1 .. l - 1 /\ i < l)
  BY <1>1
<1>4. l \in 1 .. l /\ \A i \in 1 .. l - 1 : i \in 1 .. l /\ i < l
  BY <1>1
<1>5. OpenIn(c) = {}
  BY NothingOpen
<1>6. OpenIn(d) = OpenIn(c.parked[l]) /\ Nested(d)
  BY <1>1, <1>2, <1>4, SameExecution DEF Ordered
<1>7. \A i \in 1 .. l : /\ Nested(c.parked[i])
                        /\ \A k \in OpenIn(c.parked[i]) : \A m \in 1 .. l :
                             i < m => \A j \in OpenIn(c.parked[m]) : k < j
  BY <1>1 DEF Ordered
<1>8. Ordered(d)
  <2> SUFFICES ASSUME NEW i \in 1 .. l - 1
               PROVE  /\ Nested(c.parked[i])
                      /\ \A k \in OpenIn(c.parked[i]) :
                           /\ \A j \in OpenIn(d) : k < j
                           /\ \A m \in 1 .. l - 1 :
                                i < m => \A j \in OpenIn(c.parked[m]) : k < j
    BY <1>1, <1>6 DEF Ordered
  <2> QED
    BY <1>4, <1>6, <1>7
<1>9. Under(c) = Under(d) \cup OpenIn(d)
  <2>1. ASSUME NEW k, k \in Under(c) PROVE k \in Under(d) \cup OpenIn(d)
    <3>1. PICK i \in 1 .. l : k \in OpenIn(c.parked[i])
      BY <1>1, <2>1 DEF Under
    <3> QED
      BY <1>1, <1>3, <1>6, <3>1 DEF Under
  <2>2. ASSUME NEW k, k \in Under(d) \cup OpenIn(d) PROVE k \in Under(c)
    <3>1. CASE k \in OpenIn(d)
      BY <1>1, <1>4, <1>6, <3>1 DEF Under
    <3>2. CASE k \in Under(d)
      <4>1. PICK i \in 1 .. l - 1 : k \in OpenIn(c.parked[i])
        BY <1>1, <3>2 DEF Under
      <4> QED
        BY <1>1, <1>4, <4>1 DEF Under
    <3> QED
      BY <2>2, <3>1, <3>2
  <2> QED
    BY <2>1, <2>2
<1>10. Open(d) = Open(c)
  BY <1>5, <1>9, OpenUnder
<1> QED
  BY <1>8, <1>10 DEF Effect, Keeps

(* What an answer does to a context: it keeps the call, or takes it away. *)
Answered(c, d) ==
    /\ d.parked = c.parked
    /\ d.stack = c.stack
    /\ \/ d.pending = c.pending
       \/ c.pending # NoCall /\ d.pending = NoCall

LEMMA AnsweredEffect ==
  ASSUME NEW c \in Context, NEW d, Ordered(c), NEW n, Answered(c, d)
  PROVE  Effect(c, n, d, n)
<1>1. CASE d.pending = c.pending
  BY <1>1, KeepEffect DEF Answered
<1>2. CASE c.pending # NoCall /\ d.pending = NoCall
  BY <1>2, DropEffect DEF Answered
<1> QED
  BY <1>1, <1>2 DEF Answered

LEMMA CompletedAnswers == ASSUME NEW c \in Context, c.pending # NoCall
                          PROVE  Answered(c, Completed(c))
BY DEF Completed, Answered, Context

LEMMA StagedAnswers == ASSUME NEW c \in Context, NEW stage
                       PROVE  Answered(c, Staged(c, stage))
BY DEF Staged, SetReply, Answered, Context

LEMMA PublishedAnswers == ASSUME NEW c \in Context, c.pending # NoCall
                          PROVE  Answered(c, Published(c))
BY DEF Published, Completed, Answered, Context

LEMMA AdvancedAnswers ==
  ASSUME NEW c \in Context, c.pending # NoCall, NEW d \in Advanced(c)
  PROVE  Answered(c, d)
<1>1. Answered(c, c)
  BY DEF Answered
<1> QED
  BY <1>1, StagedAnswers, PublishedAnswers DEF Advanced

LEMMA RetriedAnswers == ASSUME NEW c \in Context, NEW d \in Retried(c)
                        PROVE  Answered(c, d)
<1>1. Answered(c, c)
  BY DEF Answered
<1>2. CASE d = c
  BY <1>1, <1>2
<1>3. CASE d # c
  <2>1. c.pending # NoCall
    BY <1>3 DEF Retried, Answerable
  <2>2. d \in Advanced(c) \cup {Published(c)}
    BY <1>3 DEF Retried
  <2> QED
    BY <2>1, <2>2, AdvancedAnswers, PublishedAnswers
<1> QED
  BY <1>2, <1>3

LEMMA ServicedAnswers ==
  ASSUME NEW c \in Context, c.pending # NoCall, NEW owner, NEW k,
         NEW d \in Serviced(c, owner, k)
  PROVE  Answered(c, d)
<1>1. Answered(c, [c EXCEPT !.blocked = k])
  BY DEF Answered, Context
<1>2. \A stage : Answered(c, NewReply(c, owner, k, stage))
  BY DEF Answered, NewReply, Context
<1>3. \/ d = Completed(c)
      \/ d = [c EXCEPT !.blocked = k]
      \/ \E stage : d = NewReply(c, owner, k, stage)
  BY DEF Serviced
<1> QED
  BY <1>1, <1>2, <1>3, CompletedAnswers

(* The callback ends, and its call may be answered in the same step. *)
LEMMA ResumedEffect ==
  ASSUME NEW c \in Context, NEW d, Ordered(c), NEW n, c.stack # <<>>,
         Answered(Resumed(c), d)
  PROVE  Effect(c, n, d, n)
<1> DEFINE r == Resumed(c)
<1>1. /\ r \in Context
      /\ r.parked = c.parked
      /\ r.stack = SubSeq(c.stack, 1, Len(c.stack) - 1)
      /\ r.pending = Top(c).outer
  BY ResumedType DEF Resumed, Context
<1> HIDE DEF r
<1>2. /\ Effect(c, n, r, n)
      /\ r.pending # NoCall
      /\ Top(c).token \in Open(c)
      /\ Open(r) = {j \in Open(c) : j < Top(c).token}
      /\ r.pending.token < Top(c).token
  BY <1>1, ResumeEffect
<1>3. Ordered(r) /\ Answered(r, d)
  BY <1>2 DEF Effect, r
<1>4. CASE d.pending = r.pending
  <2>1. Ordered(d) /\ Open(d) = Open(r)
    <3>1. OpenIn(d) = OpenIn(r) /\ (Nested(r) <=> Nested(d))
      BY <1>3, <1>4, SameExecution DEF Answered
    <3>2. Ordered(d)
      BY <1>3, <3>1 DEF Answered, Ordered
    <3> QED
      BY <1>3, <3>1, <3>2, OpenUnder DEF Answered, Under
  <2> QED
    BY <1>2, <2>1 DEF Effect, Closes
<1>5. CASE d.pending = NoCall
  <2>1. /\ Effect(r, n, d, n)
        /\ r.pending.token \in Open(r)
        /\ Open(d) = {j \in Open(r) : j < r.pending.token}
    BY <1>1, <1>2, <1>3, <1>5, DropEffect DEF Answered
  <2>2. Open(c) \subseteq Nat
    BY OpenNat
  <2>3. r.pending.token \in Open(c)
    BY <1>2, <2>1
  <2>4. Open(d) = {j \in Open(c) : j < r.pending.token}
    <3>1. \A j \in Open(c) : j < r.pending.token => j < Top(c).token
      BY <1>2, <2>2, <2>3
    <3> QED
      BY <1>2, <2>1, <3>1
  <2> QED
    BY <2>1, <2>3, <2>4 DEF Effect, Closes
<1> QED
  BY <1>3, <1>4, <1>5 DEF Answered

-----------------------------------------------------------------------------
(* Every action moves the context the engine holds by one such effect.     *)

Moved == \E d : Update(d) /\ Effect(ctx[current], callToken, d, callToken')

LEMMA Held == ASSUME TypeOK, TokensAreUnique
              PROVE  /\ ctx[current] \in Context /\ callToken \in Nat
                     /\ Ordered(ctx[current])
                     /\ Bounded(ctx[current], callToken)
BY Limits DEF TypeOK, TokensAreUnique, Ordered, Bounded

(* One answer in the context the engine holds. *)
LEMMA AnswerMoves == ASSUME TypeOK, TokensAreUnique, UNCHANGED callToken,
                            NEW d, Answered(ctx[current], d), Update(d)
                     PROVE  Moved
BY Held, AnsweredEffect DEF Moved

LEMMA RunMoves == ASSUME TypeOK, TokensAreUnique, Run PROVE Moved
<1> DEFINE c == ctx[current]
<1>1. PICK s : Update([c EXCEPT !.stop = s])
  BY DEF Run
<1>2. Answered(c, [c EXCEPT !.stop = s])
  BY Held DEF Answered, Context
<1> QED
  BY <1>1, <1>2, AnswerMoves DEF Run

LEMMA CaptureMoves == ASSUME TypeOK, TokensAreUnique, NEW owner \in Owners, Capture(owner)
                      PROVE  Moved
<1> DEFINE c == ctx[current]
           p == [token |-> NextToken, owner |-> owner, stop |-> c.stop]
           d == [c EXCEPT !.pending = p]
<1>1. c \in Context /\ callToken \in Nat /\ Ordered(c) /\ Bounded(c, callToken)
  BY Held
<1>2. callToken' = callToken + 1 /\ NextToken = callToken + 1
  BY IssueType DEF Capture, NextToken
<1>3. c.pending = NoCall /\ Update(d)
  BY DEF Capture, MayCapture
<1>4. p.token = callToken + 1 /\ p # NoCall
  BY <1>1, <1>2 DEF NoCall
<1>5. d.pending = p /\ d.stack = c.stack /\ d.parked = c.parked
  <2> HIDE DEF p
  <2> QED
    BY <1>1 DEF Context
<1>6. Effect(c, callToken, d, callToken + 1)
  <2> HIDE DEF c, d, p
  <2> QED
    BY <1>1, <1>3, <1>4, <1>5, CaptureEffect
<1> QED
  BY <1>2, <1>3, <1>6 DEF Moved

LEMMA AnswersMove ==
  ASSUME TypeOK, TokensAreUnique, NEW k \in Tokens, NEW owner,
         CompleteCall(owner, k) \/ AbandonCall(k) \/ WindowsCall(owner, k)
  PROVE  Moved
<1> DEFINE c == ctx[current]
<1>1. c \in Context
  BY Held
<1>2. CASE CompleteCall(owner, k)
  BY <1>1, <1>2, CompletedAnswers, AnswerMoves DEF CompleteCall, Answerable
<1>3. CASE AbandonCall(k)
  <2>1. Answered(c, [c EXCEPT !.pending = NoCall])
    BY <1>1, <1>3 DEF AbandonCall, Answered, Context
  <2> QED
    BY <1>3, <2>1, AnswerMoves DEF AbandonCall
<1>4. CASE WindowsCall(owner, k)
  <2>1. c.pending # NoCall /\ UNCHANGED callToken
    BY <1>4 DEF WindowsCall, Answerable
  <2>2. CASE \E d \in Retried(c) : Update(d)
    BY <1>1, <2>1, <2>2, RetriedAnswers, AnswerMoves
  <2>3. CASE Update(Completed([c EXCEPT !.blocked = 0]))
    <3> DEFINE b == [c EXCEPT !.blocked = 0]
    <3>1. b \in Context /\ b.parked = c.parked /\ b.stack = c.stack
          /\ b.pending = c.pending
      BY <1>1, Limits DEF Context
    <3>2. Answered(b, Completed(b))
      <4> HIDE DEF b
      <4> QED
        BY <2>1, <3>1, CompletedAnswers
    <3>3. Answered(c, Completed(b))
      <4> HIDE DEF b
      <4> QED
        BY <3>1, <3>2 DEF Answered
    <3> QED
      BY <2>1, <2>3, <3>3, AnswerMoves
  <2>4. CASE \E d \in Serviced(c, owner, k) : Update(d)
    BY <1>1, <2>1, <2>4, ServicedAnswers, AnswerMoves
  <2> QED
    BY <1>4, <2>2, <2>3, <2>4 DEF WindowsCall
<1> QED
  BY <1>2, <1>3, <1>4

LEMMA EndsMove ==
  ASSUME TypeOK, TokensAreUnique, NEW k \in Tokens,
         FinishCallback(k) \/ AbortCallback(k) \/ FinishWindowsCallback(k)
  PROVE  Moved
<1> DEFINE c == ctx[current]
           r == Resumed(c)
<1>1. c \in Context /\ Ordered(c)
  BY Held
<1>2. c.stack # <<>> /\ UNCHANGED callToken
  BY DEF FinishCallback, AbortCallback, FinishWindowsCallback, HasReturned
<1>3. r \in Context
  BY <1>1, <1>2, ResumedType
<1>4. \E d : Update(d) /\ Answered(r, d)
  <2>1. CASE FinishCallback(k) \/ AbortCallback(k)
    <3>1. Update(r)
      BY <2>1 DEF FinishCallback, AbortCallback
    <3>2. Answered(r, r)
      BY DEF Answered
    <3> QED
      BY <3>1, <3>2
  <2>2. CASE FinishWindowsCallback(k)
    <3> DEFINE s == Staged(r, "received")
    <3>1. PICK d \in {s} \cup Retried(s) : Update(d)
      BY <2>2 DEF FinishWindowsCallback
    <3>2. Answered(r, s)
      BY <1>3, StagedAnswers
    <3>3. s \in Context
      <4>1. r.replies # <<>>
        BY <1>1, <2>2 DEF FinishWindowsCallback, Resumed, Context
      <4> QED
        BY <1>3, <4>1, StagedType DEF Stages
    <3>4. d = s \/ Answered(s, d)
      BY <3>1, <3>3, RetriedAnswers
    <3>5. s.pending = r.pending
      BY <1>3 DEF Staged, SetReply, Context
    <3>6. Answered(r, d)
      <4> HIDE DEF r, s
      <4> QED
        BY <3>2, <3>4, <3>5 DEF Answered
    <3> QED
      BY <3>1, <3>6
  <2> QED
    BY <2>1, <2>2
<1> QED
  BY <1>1, <1>2, <1>4, ResumedEffect DEF Moved

(* A change of the innermost callback that leaves its tokens. *)
LEMMA TopChangedMoves ==
  ASSUME TypeOK, TokensAreUnique, UNCHANGED callToken,
         NEW c, c = ctx[current], c.stack # <<>>, NEW d, Update(d), NEW f,
         d.parked = c.parked, d.pending = c.pending,
         d.stack = [c.stack EXCEPT ![Len(c.stack)] = f],
         f.token = Top(c).token, f.outer.token = Top(c).outer.token
  PROVE  Moved
<1>1. c \in Context /\ Ordered(c)
  BY Held
<1>2. DOMAIN d.stack = DOMAIN c.stack
  OBVIOUS
<1>3. ASSUME NEW i \in DOMAIN c.stack
      PROVE  /\ d.stack[i].token = c.stack[i].token
             /\ d.stack[i].outer.token = c.stack[i].outer.token
  BY DEF Top
<1>4. Effect(c, callToken, d, callToken)
  BY <1>1, <1>2, <1>3, KeepEffect
<1> QED
  BY <1>4 DEF Moved

LEMMA ResidentsMove ==
  ASSUME TypeOK, TokensAreUnique, NEW k \in Tokens,
         Authorize(k) \/ \E u \in Units : SelectUnit(k, u)
  PROVE  Moved
<1> DEFINE c == ctx[current]
<1>1. c \in Context /\ c.stack # <<>> /\ UNCHANGED callToken
  BY Held DEF Authorize, SelectUnit, InCallbackOf
<1>2. Top(c) \in Frame
  BY <1>1, TopFields
<1>3. CASE Authorize(k)
  <2> DEFINE f == [Top(c) EXCEPT !.authorized = TRUE]
             d == [c EXCEPT !.stack[Len(c.stack)].authorized = TRUE]
  <2>1. /\ d.parked = c.parked /\ d.pending = c.pending
        /\ d.stack = [c.stack EXCEPT ![Len(c.stack)] = f]
    BY <1>1 DEF Context, Top
  <2>2. f.token = Top(c).token /\ f.outer.token = Top(c).outer.token
    BY <1>2 DEF Frame
  <2>3. Update(d)
    BY <1>3 DEF Authorize
  <2> HIDE DEF d, f
  <2> QED
    BY <1>1, <2>1, <2>2, <2>3, TopChangedMoves
<1>4. CASE \E u \in Units : SelectUnit(k, u)
  <2>0. PICK u \in Units : SelectUnit(k, u)
    BY <1>4
  <2> DEFINE f == [Top(c) EXCEPT !.active = u]
             d == [c EXCEPT !.stack[Len(c.stack)].active = u]
  <2>1. /\ d.parked = c.parked /\ d.pending = c.pending
        /\ d.stack = [c.stack EXCEPT ![Len(c.stack)] = f]
    BY <1>1 DEF Context, Top
  <2>2. f.token = Top(c).token /\ f.outer.token = Top(c).outer.token
    BY <1>2 DEF Frame
  <2>3. Update(d)
    BY <2>0 DEF SelectUnit
  <2> HIDE DEF d, f
  <2> QED
    BY <1>1, <2>1, <2>2, <2>3, TopChangedMoves
<1> QED
  BY <1>3, <1>4

LEMMA GenerationsMove == ASSUME TypeOK, TokensAreUnique, Compile \/ ResumeCallbackCode
                         PROVE  Moved
<1> DEFINE c == ctx[current]
           g == NextGeneration
<1>1. c \in Context /\ UNCHANGED callToken
  BY Held DEF Compile, ResumeCallbackCode
<1>2. CASE Compile
  <2>1. Answered(c, [c EXCEPT !.generation = g])
    BY <1>1 DEF Answered, Context
  <2> QED
    BY <1>1, <1>2, <2>1, AnswerMoves DEF Compile
<1>3. CASE ResumeCallbackCode
  <2> DEFINE n == Len(c.stack)
             e == [c EXCEPT !.generation = g, !.stack[n].generation = g]
             d == [e EXCEPT !.stack[n].outer.owner = Replacement(g)]
             f == [Top(c) EXCEPT !.generation = g]
             h == [f EXCEPT !.outer.owner = Replacement(g)]
  <2>1. c.stack # <<>> /\ Top(c) \in Frame /\ Top(c).outer \in Call
    BY <1>1, <1>3, TopFields DEF ResumeCallbackCode, InCallbackOf
  <2>2. /\ e.parked = c.parked /\ e.pending = c.pending
        /\ e.stack = [c.stack EXCEPT ![n] = f]
        /\ DOMAIN e = DOMAIN c
    BY <1>1 DEF Context, Top
  <2>3. e.stack[n] = f
    BY <1>1, <2>1, <2>2, Fields
  <2>4. /\ d.parked = c.parked /\ d.pending = c.pending
        /\ d.stack = [e.stack EXCEPT ![n] = h]
    <3>1. DOMAIN c = {"pending", "stack", "replies", "blocked", "parked", "stop",
                      "generation"}
      BY <1>1 DEF Context
    <3>2. d = [e EXCEPT !.stack = [e.stack EXCEPT ![n] = h]]
      BY <2>3
    <3> HIDE DEF e, d, h
    <3> QED
      BY <2>2, <3>1, <3>2
  <2>5. d.stack = [c.stack EXCEPT ![n] = h]
    <3> HIDE DEF e, d, f, h, n
    <3> QED
      BY <2>2, <2>4
  <2>6. h.token = Top(c).token /\ h.outer.token = Top(c).outer.token
    BY <2>1 DEF Frame, Call
  <2>7. Update(d)
    BY <1>3 DEF ResumeCallbackCode
  <2> HIDE DEF e, d, f, h
  <2> QED
    BY <1>1, <2>1, <2>4, <2>5, <2>6, <2>7, TopChangedMoves
<1> QED
  BY <1>2, <1>3

(* The change that begins a callback, with the replies of a provider. *)
LEMMA SuspendMoves ==
  ASSUME TypeOK, TokensAreUnique, Issue, NEW c, c = ctx[current],
         NEW form, NEW unit, NEW home, MaySuspend(c, form, unit),
         NEW d, Update(d), d.parked = c.parked, d.pending = NoCall,
         d.stack = Suspended(c, form, unit, home).stack
  PROVE  Moved
<1> DEFINE x == [form |-> form, token |-> NextToken, outer |-> c.pending,
                 generation |-> IF form = "replacement" THEN c.generation ELSE 0,
                 home |-> home, active |-> home, outerUnit |-> unit,
                 authorized |-> FALSE]
<1>1. c \in Context /\ callToken \in Nat /\ Ordered(c) /\ Bounded(c, callToken)
  BY Held
<1>2. c.pending # NoCall
  BY DEF MaySuspend
<1>3. d.stack = Append(c.stack, x)
  BY <1>1 DEF Suspended, Context
<1>4. callToken' = callToken + 1 /\ x.token = callToken + 1 /\ x.outer = c.pending
  BY IssueType DEF NextToken
<1> HIDE DEF x
<1>5. Effect(c, callToken, d, callToken + 1)
  BY <1>1, <1>2, <1>3, <1>4, SuspendEffect
<1> QED
  BY <1>4, <1>5 DEF Moved

LEMMA CallbacksMove ==
  ASSUME TypeOK, TokensAreUnique,
         (\E form : BeginCallback(form)) \/ BeginWindowsCallback
  PROVE  Moved
<1> DEFINE c == ctx[current]
<1>1. c \in Context
  BY Held
<1>2. \A form, unit, home : LET s == Suspended(c, form, unit, home)
                            IN  /\ s.parked = c.parked /\ s.pending = NoCall
                                /\ DOMAIN s = DOMAIN c
  BY <1>1 DEF Suspended, Context
<1>3. CASE \E form : BeginCallback(form)
  <2>1. PICK form, unit, home : /\ MaySuspend(c, form, unit)
                                /\ Issue
                                /\ Update(Suspended(c, form, unit, home))
    BY <1>3 DEF BeginCallback
  <2> QED
    BY <1>2, <2>1, SuspendMoves
<1>4. CASE BeginWindowsCallback
  <2>1. PICK form, unit, home, r :
          /\ MaySuspend(c, form, unit)
          /\ Issue
          /\ Update(SetReply(Suspended(c, form, unit, home), r))
    BY <1>4 DEF BeginWindowsCallback
  <2> DEFINE s == Suspended(c, form, unit, home)
             d == SetReply(s, r)
  <2>2. d.parked = s.parked /\ d.pending = s.pending /\ d.stack = s.stack
    <3>1. DOMAIN c = {"pending", "stack", "replies", "blocked", "parked", "stop",
                      "generation"}
      BY <1>1 DEF Context
    <3>2. DOMAIN s = DOMAIN c
      BY <1>2
    <3> HIDE DEF s
    <3> QED
      BY <3>1, <3>2 DEF SetReply
  <2>3. d.parked = c.parked /\ d.pending = NoCall
    BY <1>2, <2>2
  <2> HIDE DEF d
  <2> QED
    BY <2>1, <2>2, <2>3, SuspendMoves DEF d
<1> QED
  BY <1>3, <1>4

LEMMA ResumeWaitMoves == ASSUME TypeOK, TokensAreUnique, ResumeWait PROVE Moved
<1>1. ctx[current].pending # NoCall
  BY DEF ResumeWait, Answerable
<1> QED
  BY <1>1, Held, AdvancedAnswers, AnswerMoves DEF ResumeWait

LEMMA ModulesMove == ASSUME TypeOK, TokensAreUnique, ParkModule \/ UnparkModule
                     PROVE  Moved
<1> DEFINE c == ctx[current]
<1>1. c \in Context /\ Ordered(c) /\ UNCHANGED callToken
  BY Held DEF ParkModule, UnparkModule
<1>2. CASE ParkModule
  <2> DEFINE p == [pending |-> c.pending, stack |-> c.stack, replies |-> c.replies,
                   stop |-> c.stop, generation |-> c.generation]
             d == [EmptyContext EXCEPT !.parked = Append(c.parked, p)]
  <2>1. p.pending = c.pending /\ p.stack = c.stack
    OBVIOUS
  <2>2. d.parked = Append(c.parked, p) /\ d.pending = NoCall /\ d.stack = <<>>
    BY DEF EmptyContext
  <2>3. Update(d)
    BY <1>2 DEF ParkModule
  <2> HIDE DEF p, d
  <2>4. Effect(c, callToken, d, callToken)
    BY <1>1, <2>1, <2>2, ParkEffect
  <2> QED
    BY <1>1, <2>3, <2>4 DEF Moved
<1>3. CASE UnparkModule
  <2> DEFINE p == c.parked[Len(c.parked)]
             restored == [pending |-> p.pending, stack |-> p.stack,
                          replies |-> p.replies, blocked |-> 0, stop |-> p.stop,
                          generation |-> p.generation,
                          parked |-> SubSeq(c.parked, 1, Len(c.parked) - 1)]
  <2>1. c.parked # <<>> /\ c.pending = NoCall /\ c.stack = <<>>
    BY <1>3 DEF UnparkModule
  <2>2. /\ restored.parked = SubSeq(c.parked, 1, Len(c.parked) - 1)
        /\ restored.pending = p.pending /\ restored.stack = p.stack
    OBVIOUS
  <2>3. restored \in Context
    BY <1>1, <2>1, UnparkedType
  <2>4. restored.pending # NoCall
    <3>1. p \in Parked
      BY <1>1, <2>1, Fields, LastElement
    <3>2. p.pending \in Call
      <4> HIDE DEF p
      <4> QED
        BY <3>1 DEF Parked
    <3> QED
      BY <2>2, <3>2, CallTokens
  <2>5. PICK d \in {restored, Completed(restored)} : Update(d)
    BY <1>3 DEF UnparkModule
  <2> HIDE DEF restored
  <2>6. /\ Effect(c, callToken, restored, callToken)
        /\ Open(restored) = Open(c) /\ Ordered(restored)
    BY <1>1, <2>1, <2>2, UnparkEffect
  <2>7. Effect(c, callToken, Completed(restored), callToken)
    <3>1. Effect(restored, callToken, Completed(restored), callToken)
      BY <2>3, <2>4, <2>6, CompletedAnswers, AnsweredEffect
    <3> QED
      BY <2>6, <3>1 DEF Effect, Opens, Closes, Keeps
  <2> QED
    BY <1>1, <2>5, <2>6, <2>7 DEF Moved
<1> QED
  BY <1>2, <1>3

LEMMA NextMoves ==
  ASSUME TypeOK, TokensAreUnique, [Next]_vars
  PROVE  \/ Moved /\ UNCHANGED current
         \/ UNCHANGED <<ctx, callToken>>
<1>1. \A k \in 1 .. callToken : k \in Tokens
  BY Limits DEF TypeOK, Tokens
<1>2. CASE Run
  BY <1>2, RunMoves DEF Run
<1>3. CASE \E owner \in Owners : Capture(owner)
  BY <1>3, CaptureMoves DEF Capture
<1>4. CASE Answer
  <2>1. PICK k \in 1 .. callToken :
          \/ \E owner \in Owners : CompleteCall(owner, k) \/ WindowsCall(owner, k)
          \/ AbandonCall(k)
          \/ FinishCallback(k) \/ AbortCallback(k) \/ FinishWindowsCallback(k)
          \/ Authorize(k)
          \/ \E u \in Units : SelectUnit(k, u)
    BY <1>4 DEF Answer
  <2>2. k \in Tokens
    BY <1>1
  <2>3. CASE \/ \E owner \in Owners : CompleteCall(owner, k) \/ WindowsCall(owner, k)
             \/ AbandonCall(k)
    BY <2>2, <2>3, AnswersMove DEF CompleteCall, WindowsCall, AbandonCall
  <2>4. CASE FinishCallback(k) \/ AbortCallback(k) \/ FinishWindowsCallback(k)
    BY <2>2, <2>4, EndsMove DEF FinishCallback, AbortCallback, FinishWindowsCallback
  <2>5. CASE Authorize(k) \/ \E u \in Units : SelectUnit(k, u)
    BY <2>2, <2>5, ResidentsMove DEF Authorize, SelectUnit
  <2> QED
    BY <2>1, <2>3, <2>4, <2>5
<1>5. CASE \E form \in {"core", "replacement", "resident"} : BeginCallback(form)
  BY <1>5, CallbacksMove DEF BeginCallback
<1>6. CASE BeginWindowsCallback
  BY <1>6, CallbacksMove DEF BeginWindowsCallback
<1>7. CASE ResumeWait
  BY <1>7, ResumeWaitMoves DEF ResumeWait
<1>8. CASE ParkModule \/ UnparkModule
  BY <1>8, ModulesMove DEF ParkModule, UnparkModule
<1>9. CASE Compile \/ ResumeCallbackCode
  BY <1>9, GenerationsMove DEF Compile, ResumeCallbackCode
<1>10. CASE \E t \in Threads : Switch(t)
  BY <1>10 DEF Switch
<1>11. CASE UNCHANGED vars
  BY <1>11 DEF vars
<1> QED
  BY <1>2, <1>3, <1>4, <1>5, <1>6, <1>7, <1>8, <1>9, <1>10, <1>11 DEF Next

-----------------------------------------------------------------------------
(* TokensAreUnique, for contexts f and a last token n. *)
Unique(f, n) ==
    \A t \in Threads :
       /\ Bounded(f[t], n)
       /\ Ordered(f[t])
       /\ \A u \in Threads \ {t} : Open(f[t]) \cap Open(f[u]) = {}

LEMMA TokensUnique == TokensAreUnique <=> Unique(ctx, callToken)
BY DEF TokensAreUnique, Unique, Bounded, Ordered

LEMMA TokensUniquePrimed == TokensAreUnique' <=> Unique(ctx', callToken')
BY DEF TokensAreUnique, Unique, Bounded, Ordered, Open, OpenIn, Nested

LEMMA EffectKeepsUnique ==
  ASSUME NEW f \in [Threads -> Context], NEW t \in Threads, NEW n \in Nat,
         Unique(f, n), NEW d, NEW m, Effect(f[t], n, d, m)
  PROVE  Unique([f EXCEPT ![t] = d], m)
<1> DEFINE g == [f EXCEPT ![t] = d]
<1>1. g[t] = d /\ \A u \in Threads \ {t} : g[u] = f[u]
  OBVIOUS
<1>2. n <= m /\ m \in Nat /\ Ordered(d)
  BY DEF Effect, Opens, Closes, Keeps
<1>3. \A u \in Threads : Open(f[u]) \subseteq Nat /\ \A k \in Open(f[u]) : k <= n
  BY OpenNat DEF Unique, Bounded
<1>4. Open(d) \subseteq Open(f[t]) \cup {n + 1}
  BY DEF Effect, Opens, Closes, Keeps
<1>5. n + 1 \in Open(d) => m = n + 1
  <2>1. n + 1 \notin Open(f[t])
    BY <1>3
  <2> QED
    BY <2>1 DEF Effect, Opens, Closes, Keeps
<1>6. \A u \in Threads : Bounded(g[u], m)
  <2>1. Bounded(d, m)
    <3>1. \A k \in Open(d) : k \in Open(f[t]) \/ (k = n + 1 /\ m = n + 1)
      BY <1>4, <1>5
    <3> QED
      BY <1>2, <1>3, <3>1 DEF Bounded
  <2>2. \A u \in Threads : \A k \in Open(f[u]) : k <= m
    BY <1>2, <1>3
  <2> QED
    BY <1>1, <2>1, <2>2 DEF Bounded
<1>7. \A u \in Threads : Ordered(g[u])
  BY <1>1, <1>2 DEF Unique
<1>8. \A u \in Threads \ {t} : Open(d) \cap Open(f[u]) = {}
  <2>1. \A u \in Threads : n + 1 \notin Open(f[u])
    BY <1>3
  <2> QED
    BY <1>4, <2>1 DEF Unique
<1>9. \A u \in Threads : \A v \in Threads \ {u} : Open(g[u]) \cap Open(g[v]) = {}
  BY <1>1, <1>8 DEF Unique
<1> HIDE DEF g
<1>10. Unique(g, m)
  BY <1>6, <1>7, <1>9 DEF Unique
<1> QED
  BY <1>10 DEF g

LEMMA InitUnique == Init => TokensAreUnique
<1> SUFFICES ASSUME Init PROVE Unique(ctx, callToken)
  BY TokensUnique
<1>1. /\ Open(EmptyContext) = {} /\ Nested(EmptyContext)
      /\ DOMAIN EmptyContext.parked = {}
  BY DEF Open, OpenIn, Nested, EmptyContext
<1>2. \A t \in Threads : ctx[t] = EmptyContext
  BY DEF Init
<1>3. \A n : Bounded(EmptyContext, n) /\ Ordered(EmptyContext)
  BY <1>1 DEF Bounded, Ordered
<1> QED
  BY <1>1, <1>2, <1>3 DEF Unique

LEMMA NextUnique == ASSUME TypeOK, TokensAreUnique, [Next]_vars
                    PROVE  TokensAreUnique'
<1>1. CASE Moved
  <2>1. PICK d : /\ ctx' = [ctx EXCEPT ![current] = d]
                 /\ Effect(ctx[current], callToken, d, callToken')
    BY <1>1 DEF Moved, Update
  <2>2. ctx \in [Threads -> Context] /\ current \in Threads /\ callToken \in Nat
    BY Held DEF TypeOK
  <2>3. Unique(ctx', callToken')
    BY <2>1, <2>2, EffectKeepsUnique, TokensUnique
  <2> QED
    BY <2>3, TokensUniquePrimed
<1>2. CASE UNCHANGED <<ctx, callToken>>
  BY <1>2, TokensUnique, TokensUniquePrimed
<1> QED
  BY <1>1, <1>2, NextMoves

(* A token names one open call or callback of one thread, for any number   *)
(* of threads and callbacks, and whatever the host answers.                *)
THEOREM TokensStayUnique == Spec => []TokensAreUnique
<1>1. TypeOK /\ TokensAreUnique /\ [Next]_vars => TokensAreUnique'
  BY NextUnique
<1> QED
  BY <1>1, InitUnique, TypeCorrect, PTL DEF Spec

LEMMA NextCalls == ASSUME TypeOK, TokensAreUnique, [Next]_vars
                   PROVE  [Calls!Next]_(Calls!stack)
<1> DEFINE open == [t \in Threads |-> Open(ctx[t])]
           after == [t \in Threads |-> Open(ctx'[t])]
<1>1. CASE Moved
  <2>1. PICK d : /\ ctx' = [ctx EXCEPT ![current] = d]
                 /\ Effect(ctx[current], callToken, d, callToken')
    BY <1>1 DEF Moved, Update
  <2>2. ctx \in [Threads -> Context] /\ current \in Threads /\ callToken \in Nat
    BY Held DEF TypeOK
  <2>3. /\ open[current] = Open(ctx[current])
        /\ after = [open EXCEPT ![current] = Open(d)]
    BY <2>1, <2>2
  <2>4. CASE Opens(ctx[current], callToken, d, callToken')
    <3>1. after = [open EXCEPT ![current] = open[current] \cup {callToken + 1}]
      BY <2>3, <2>4 DEF Opens
    <3>2. Calls!Begin(current)
      BY <2>4, <3>1 DEF Calls!Begin, Opens, Open, OpenIn
    <3> QED
      BY <2>2, <3>2 DEF Calls!Next
  <2>5. CASE Closes(ctx[current], callToken, d, callToken')
    <3>1. PICK k \in Open(ctx[current]) :
            Open(d) = {j \in Open(ctx[current]) : j < k}
      BY <2>5 DEF Closes
    <3>2. after = [open EXCEPT ![current] = {j \in open[current] : j < k}]
      BY <2>3, <3>1
    <3>3. k \in open[current]
      BY <2>3
    <3>4. Calls!End(current, k)
      BY <2>5, <3>2, <3>3 DEF Calls!End, Closes, Open, OpenIn
    <3> QED
      BY <2>2, <3>3, <3>4 DEF Calls!Next
  <2>6. CASE Keeps(ctx[current], callToken, d, callToken')
    <3>1. after = open
      BY <2>3, <2>6 DEF Keeps
    <3> QED
      BY <2>6, <3>1 DEF Calls!stack, Keeps, Open, OpenIn
  <2> QED
    BY <2>1, <2>4, <2>5, <2>6 DEF Effect
<1>2. CASE UNCHANGED <<ctx, callToken>>
  BY <1>2 DEF Calls!stack, Open, OpenIn
<1> QED
  BY <1>1, <1>2, NextMoves

(* The protocol implements a stack of calls and callbacks in every thread, *)
(* with tokens that are never given twice.                                 *)
THEOREM CallsAreStacked == Spec => CallsAreAStack
<1>1. Init => Calls!Init
  <2>1. Open(EmptyContext) = {}
    BY DEF Open, OpenIn, EmptyContext
  <2> QED
    BY <2>1 DEF Init, Calls!Init
<1>2. TypeOK /\ TokensAreUnique /\ [Next]_vars => [Calls!Next]_(Calls!stack)
  BY NextCalls
<1> QED
  BY <1>1, <1>2, TypeCorrect, TokensStayUnique, PTL
  DEF Spec, CallsAreAStack, Calls!Spec
=============================================================================
