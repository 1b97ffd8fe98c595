---------------------------- MODULE PendingCalls ----------------------------
(***************************************************************************)
(* The protocol between the engine and its host around one guest call      *)
(* (engine/src/process/calls, engine/src/process/windows/callbacks).       *)
(*                                                                         *)
(* The guest stops at a gate and the stop is captured as a pending call    *)
(* with a token.  The host, or a Windows library (a provider), answers it, *)
(* abandons it, or runs a guest callback first: the call is then suspended *)
(* under the callback, in which the guest may make further calls.  Answers *)
(* name a token and an owner and may come late, twice or for a call that   *)
(* is suspended.                                                           *)
(*                                                                         *)
(* Every Windows thread has a context of its own; the engine works on the  *)
(* one of `current` and the other contexts are saved (threads/saved.rs).   *)
(* The counters of tokens and of generations are shared by all of them.    *)
(***************************************************************************)
EXTENDS Integers, FiniteSets, Sequences

CONSTANTS
    Threads,
    Units,            \* ids of resident units
    MaxToken,         \* u32::MAX
    MaxDepth,         \* MAX_CALLBACK_DEPTH
    MaxReplies,       \* MAX_REPLIES
    MaxGeneration,    \* bound: code generations issued (u32 in the code)
    MaxParked,        \* bound: module operations open in a thread
    Host              \* thread -> what the host does in it, see Does

ASSUME LimitsAssumption ==
    {MaxToken, MaxDepth, MaxReplies, MaxGeneration, MaxParked} \subseteq Nat
ASSUME ThreadsAssumption == Threads # {}

(* The host's operations that a run may leave out in some thread.          *)
(*   "core", "replacement", "resident"  execute guest code in this way     *)
(*   "callback"      begin callbacks of its own                            *)
(*   "park"          load modules, whose initializers run in between       *)
(*   "finish_core"   finish or abort callbacks of providers run by the core*)
(*   "migrate"       give callbacks of providers new code                  *)
(*   "abort_served"  abort a callback while a provider serves a call in it *)
VARIABLES
    ctx,              \* thread -> context
    current,          \* the thread whose context the engine holds
    callToken,        \* last token issued, to calls and to callbacks
    issuer            \* last code generation issued (generation_issuer)

vars == <<ctx, current, callToken, issuer>>

Does(operation) == operation \in Host[current]

-----------------------------------------------------------------------------
(* PendingOwner: who captured the call and must answer it. *)

Core           == [kind |-> "core"]
Replacement(g) == [kind |-> "replacement", generation |-> g]
Resident(u)    == [kind |-> "resident", unit |-> u]
InCallback(u, k) == [kind |-> "callback", unit |-> u, token |-> k]

Tokens == 1 .. MaxToken
Owners == {Core} \cup {Replacement(g) : g \in 1 .. MaxGeneration}
            \cup {Resident(u) : u \in Units}
            \cup {InCallback(u, k) : u \in Units, k \in Tokens}

(* The arena, reduced to where the guest is stopped: running code, at a    *)
(* gate that makes a call, or at the return gate of the callback `frame`   *)
(* with its stack pointer.  The host does not write there itself.          *)
Stop == [at : {"code", "gate", "return"}, frame : 0 .. MaxToken]
Code(frame) == [at |-> "code", frame |-> frame]

Call   == [token : Tokens, owner : Owners, stop : Stop]
NoCall == [token |-> 0]

(* SuspendedCallback.  `home` and `active` are units of a resident one,    *)
(* `generation` is 0 for the core; parents are the elements before it.     *)
Frame == [form : {"core", "replacement", "resident"}, token : Tokens,
          outer : Call, generation : 0 .. MaxGeneration, home : Units \cup {0},
          active : Units \cup {0}, outerUnit : Units \cup {0},
          authorized : BOOLEAN]

(* WindowsReply32.  Stage "running" stands for Core, Resident and          *)
(* Replacement, with the callback's token, form, generation and unit.      *)
Stages == {"ready", "running", "received", "complete", "wait"}
Running == [token : Tokens, form : {"core", "replacement", "resident"},
            generation : 0 .. MaxGeneration, home : Units \cup {0}]
NotRunning == [token |-> 0]
Reply == [owner : Owners, token : Tokens, stage : Stages,
          callback : Running \cup {NotRunning}]

(* `blocked` is the token held by a provider that answers without          *)
(* callbacks (synchronization, files, fonts, registry).                    *)
EmptyContext == [pending |-> NoCall, stack |-> <<>>, replies |-> <<>>,
                 blocked |-> 0, parked |-> <<>>, stop |-> Code(0),
                 generation |-> 0]

Init ==
    /\ ctx = [t \in Threads |-> EmptyContext]
    /\ current \in Threads
    /\ callToken = 0
    /\ issuer = 0

-----------------------------------------------------------------------------
(* Reading a context. *)

Top(c)       == c.stack[Len(c.stack)]
InCallbackOf(c, form) == c.stack # <<>> /\ Top(c).form = form
LastReply(c) == c.replies[Len(c.replies)]
SetReply(c, r) == [c EXCEPT !.replies[Len(c.replies)] = r]

OuterTokens(c) == {c.stack[i].outer.token : i \in DOMAIN c.stack}

(* windows_provider_owns_token and windows_provider_owns_callback_token:   *)
(* the second does not look at callbacks that the core runs.               *)
ProviderOwns(c, k) == \/ \E i \in DOMAIN c.replies : c.replies[i].token = k
                      \/ c.blocked = k
ProviderOwnsCallback(c, k) ==
    \E i \in DOMAIN c.replies : /\ c.replies[i].callback.token = k
                                /\ c.replies[i].callback.form # "core"

(* checked_pending_call: the answer names the pending call of the current  *)
(* context, its owner, and the guest is stopped as it was at the capture.  *)
Answerable(c, owner, k) ==
    /\ k \notin OuterTokens(c)
    /\ c.pending # NoCall
    /\ c.pending.token = k
    /\ c.pending.owner = owner
    /\ c.stop = c.pending.stop

(* callback.depth() and modules.parked_callback_depth() *)
Depth(c) == Len(c.stack)
              + Cardinality(UNION {{<<i, j>> : j \in DOMAIN c.parked[i].stack} :
                                      i \in DOMAIN c.parked})
ReplyCount(c) == Len(c.replies)
              + Cardinality(UNION {{<<i, j>> : j \in DOMAIN c.parked[i].replies} :
                                      i \in DOMAIN c.parked})

Update(c) == ctx' = [ctx EXCEPT ![current] = c]

-----------------------------------------------------------------------------
(* Guest code. *)

(* The owners that may capture a stop now (capture_core_windows_call,      *)
(* capture_call, capture_resident_call, capture_resident_callback_call).   *)
MayCapture(c, owner) ==
    /\ c.pending = NoCall
    /\ Does(IF owner.kind = "callback" THEN "resident" ELSE owner.kind)
    /\ CASE owner.kind = "core" -> TRUE
         [] owner.kind = "replacement" -> /\ owner.generation = c.generation
                                          /\ ~InCallbackOf(c, "resident")
         [] owner.kind = "resident" -> c.stack = <<>>
         [] owner.kind = "callback" -> /\ InCallbackOf(c, "resident")
                                       /\ Top(c).token = owner.token
                                       /\ Top(c).authorized
                                       /\ Top(c).active = owner.unit

(* guard, guard_core_entry, guard_resident: the code that may be entered. *)
MayRun(c) ==
    /\ c.pending = NoCall
    /\ \/ Does("core") /\ (c.stack = <<>> \/ InCallbackOf(c, "core"))
       \/ c.generation # 0 /\ ~InCallbackOf(c, "resident")
       \/ Does("resident") /\ c.stack = <<>>
       \/ InCallbackOf(c, "resident") /\ Top(c).authorized

(* The guest runs until it calls or returns.  It may return from a callback *)
(* further out than the one it is in (longjmp).                             *)
Run ==
    LET c == ctx[current]
        inner == IF c.stack = <<>> THEN 0 ELSE Top(c).token
    IN  /\ MayRun(c)
        /\ c.stop.at = "code"
        /\ \/ Update([c EXCEPT !.stop = [at |-> "gate", frame |-> inner]])
           \/ \E i \in DOMAIN c.stack :
                Update([c EXCEPT !.stop = [at |-> "return",
                                           frame |-> c.stack[i].token]])
        /\ UNCHANGED <<current, callToken, issuer>>

(* Mutant: the token after the newest one that is still in use here. *)
NextTokenHere ==
    LET c == ctx[current]
        used == {0} \cup OuterTokens(c)
                    \cup {c.stack[i].token : i \in DOMAIN c.stack}
    IN  1 + CHOOSE k \in used : \A j \in used : j <= k

(* self.call_token.checked_add(1) *)
NextToken == callToken + 1

(* Mutant: the counter wraps. *)
IssueUnchecked == callToken' = NextToken

Issue == /\ callToken < MaxToken
         /\ callToken' = NextToken

(* capture_call_frame *)
Capture(owner) ==
    LET c == ctx[current] IN
    /\ MayCapture(c, owner)
    /\ c.stop.at = "gate"
    /\ Issue
    /\ Update([c EXCEPT !.pending = [token |-> NextToken, owner |-> owner,
                                     stop |-> c.stop]])
    /\ UNCHANGED <<current, issuer>>

-----------------------------------------------------------------------------
(* Answers of the host. *)

(* guard_artifact, guard_resident_unit, active_resident_callback_call_owner *)
OwnerValid(c, owner) ==
    CASE owner.kind = "replacement" -> owner.generation = c.generation
      [] owner.kind = "callback" -> /\ InCallbackOf(c, "resident")
                                    /\ Top(c).token = owner.token
                                    /\ Top(c).authorized
                                    /\ Top(c).active = owner.unit
      [] OTHER -> TRUE

(* publish_prepared_call *)
Completed(c) == [c EXCEPT !.pending = NoCall, !.stop = Code(c.stop.frame)]

(* Mutant: the answer of a host overtakes a provider. *)
CompleteCallServed(owner, k) ==
    LET c == ctx[current] IN
    /\ owner.kind # "core"
    /\ OwnerValid(c, owner)
    /\ Answerable(c, owner, k)
    /\ Update(Completed(c))
    /\ UNCHANGED <<current, callToken, issuer>>

(* complete_call, complete_resident_call, complete_resident_callback_call *)
CompleteCall(owner, k) ==
    LET c == ctx[current] IN
    /\ owner.kind # "core"
    /\ OwnerValid(c, owner)
    /\ Answerable(c, owner, k)
    /\ ~ProviderOwns(c, k)
    /\ Update(Completed(c))
    /\ UNCHANGED <<current, callToken, issuer>>

(* abandon_call: no owner, and no look at the stop. *)
AbandonCall(k) ==
    LET c == ctx[current] IN
    /\ c.pending # NoCall
    /\ c.pending.token = k
    /\ k \notin OuterTokens(c)
    /\ ~ProviderOwns(c, k)
    /\ Update([c EXCEPT !.pending = NoCall])
    /\ UNCHANGED <<current, callToken, issuer>>

-----------------------------------------------------------------------------
(* Callbacks. *)

(* callback_request, begin_provider_callback and its resident twin: the    *)
(* pending call is unchanged and a callback of this form may nest here.    *)
MaySuspend(c, form, unit) ==
    /\ c.pending # NoCall
    /\ c.stop = c.pending.stop
    /\ Depth(c) < MaxDepth
    /\ CASE form = "core" -> /\ c.pending.owner = Core
                             /\ c.stack # <<>> => Top(c).form = "core"
         [] form = "replacement" ->
                /\ c.pending.owner = Replacement(c.generation)
                /\ c.stack # <<>> => /\ Top(c).form = "replacement"
                                     /\ Top(c).generation = c.generation
         [] form = "resident" ->
                IF c.stack = <<>> THEN c.pending.owner = Resident(unit)
                ELSE /\ Top(c).form = "resident" /\ Top(c).authorized
                     /\ Top(c).active = unit
                     /\ c.pending.owner = InCallback(unit, Top(c).token)

(* The call is put under a callback of unit `home`. *)
Suspended(c, form, unit, home) ==
    [c EXCEPT
       !.stack = Append(@, [form |-> form, token |-> NextToken,
                            outer |-> c.pending,
                            generation |-> IF form = "replacement"
                                           THEN c.generation ELSE 0,
                            home |-> home, active |-> home,
                            outerUnit |-> unit, authorized |-> FALSE]),
       !.pending = NoCall,
       !.stop = Code(NextToken)]

(* The units of a callback: those of the call and of the callback when it  *)
(* is resident.                                                            *)
UnitsOf(form) == IF form = "resident" THEN Units ELSE {0}

(* begin_callback, begin_resident_callback: by the host, for its own call. *)
BeginCallback(form) ==
    LET c == ctx[current] IN
    \E unit, home \in UnitsOf(form) :
        /\ Does("callback")
        /\ MaySuspend(c, form, unit)
        /\ form # "resident" => c.stack = <<>>
        /\ ~ProviderOwns(c, c.pending.token)
        /\ Issue
        /\ Update(Suspended(c, form, unit, home))
        /\ UNCHANGED <<current, issuer>>

(* authorize_resident_callback: the guest is still at the entry.  A unit   *)
(* does not call itself back at the outermost level.                       *)
Authorize(k) ==
    LET c == ctx[current] IN
    /\ InCallbackOf(c, "resident")
    /\ Top(c).token = k
    /\ ~Top(c).authorized
    /\ c.pending = NoCall
    /\ Top(c).outerUnit = Top(c).home => Len(c.stack) > 1
    /\ c.stop = Code(k)
    /\ Update([c EXCEPT !.stack[Len(c.stack)].authorized = TRUE])
    /\ UNCHANGED <<current, callToken, issuer>>

(* select_resident_callback_unit *)
SelectUnit(k, target) ==
    LET c == ctx[current] IN
    /\ InCallbackOf(c, "resident")
    /\ Top(c).token = k
    /\ Top(c).authorized
    /\ c.pending = NoCall
    /\ Top(c).outerUnit = target => Len(c.stack) > 1
    /\ c.stop.at = "code"
    /\ Update([c EXCEPT !.stack[Len(c.stack)].active = target])
    /\ UNCHANGED <<current, callToken, issuer>>

(* Mutant: the arena is left as the callback left it. *)
ResumedHere(c) ==
    [c EXCEPT !.stack = SubSeq(@, 1, Len(@) - 1),
              !.pending = Top(c).outer]

(* The callback is over: its call is pending again, stopped as before. *)
Resumed(c) ==
    [c EXCEPT !.stack = SubSeq(@, 1, Len(@) - 1),
              !.pending = Top(c).outer,
              !.stop = Top(c).outer.stop]

(* finish_provider_callback, finish_provider_resident_callback *)
HasReturned(c, k) ==
    /\ c.stack # <<>>
    /\ Top(c).token = k
    /\ c.pending = NoCall
    /\ c.stop = [at |-> "return", frame |-> k]
    /\ Top(c).form = "replacement" => Top(c).generation = c.generation
    /\ Top(c).form = "resident" => Top(c).authorized

(* A provider waits for the callback `k`. *)
Awaited(c, k) == \E i \in DOMAIN c.replies : c.replies[i].callback.token = k

(* finish_callback, finish_resident_callback *)
FinishCallback(k) ==
    LET c == ctx[current] IN
    /\ HasReturned(c, k)
    /\ ~ProviderOwnsCallback(c, k)
    /\ Awaited(c, k) => Does("finish_core")
    /\ Update(Resumed(c))
    /\ UNCHANGED <<current, callToken, issuer>>

(* abort_callback: whatever the guest is doing in it. *)
AbortCallback(k) ==
    LET c == ctx[current] IN
    /\ c.stack # <<>>
    /\ Top(c).token = k
    /\ ~ProviderOwnsCallback(c, k)
    /\ Awaited(c, k) => Does("finish_core")
    /\ c.pending # NoCall /\ ProviderOwns(c, c.pending.token)
         => Does("abort_served")
    /\ Update(Resumed(c))
    /\ UNCHANGED <<current, callToken, issuer>>

-----------------------------------------------------------------------------
(* Answers of the Windows libraries. *)

(* validate_windows_provider_owner *)
ValidOwner(c, owner) ==
    c.stack # <<>> =>
       /\ c.pending # NoCall
       /\ c.pending.owner = owner
       /\ c.pending.token \notin OuterTokens(c)
       /\ CASE Top(c).form = "core" -> owner = Core
            [] Top(c).form = "replacement" ->
                   owner = Replacement(Top(c).generation)
            [] Top(c).form = "resident" ->
                   /\ Top(c).authorized
                   /\ owner = InCallback(Top(c).active, Top(c).token)

(* validate_new_windows_reply: the provider below waits for the innermost  *)
(* callback, and not for another answer.                                   *)
ValidNewReply(c) ==
    c.replies # <<>> => /\ LastReply(c).stage = "running"
                        /\ c.stack # <<>>
                        /\ Top(c).token = LastReply(c).callback.token

Serves(c, owner, k) == /\ c.replies # <<>>
                       /\ LastReply(c).owner = owner
                       /\ LastReply(c).token = k

Staged(c, stage) == SetReply(c, [LastReply(c) EXCEPT !.stage = stage,
                                                     !.callback = NotRunning])

(* publish_windows_reply: the stack of replies and the call go together. *)
Published(c) == Completed([c EXCEPT !.replies = SubSeq(@, 1, Len(@) - 1)])

(* advance_windows_reply, accept_user32_outcome, accept_ole32_loader_outcome *)
(* with what the service may answer: it failed and is tried again, it wants *)
(* another callback, it waits, or its result is (or cannot yet be) published. *)
Advanced(c) == {c, Staged(c, "ready"), Staged(c, "wait"), Staged(c, "complete"),
                Published(c)}

(* retry_windows_callback_reply *)
Retried(c) ==
    IF Answerable(c, LastReply(c).owner, LastReply(c).token)
    THEN CASE LastReply(c).stage = "received" -> Advanced(c)
           [] LastReply(c).stage = "complete" -> {c, Published(c)}
           [] OTHER -> {c}
    ELSE {c}

NewReply(c, owner, k, stage) ==
    [c EXCEPT !.replies = Append(@, [owner |-> owner, token |-> k,
                                     stage |-> stage,
                                     callback |-> NotRunning])]

(* A service that returns at once, one that blocks (prepare_wait and the   *)
(* like), one that wants a callback (park_windows_callback) and a message  *)
(* call, which wants a callback or waits (publish_user32_result).          *)
Serviced(c, owner, k) ==
    {Completed(c)} \cup {[c EXCEPT !.blocked = k]}
      \cup (IF ValidNewReply(c) /\ ReplyCount(c) < MaxReplies - 1
            THEN {NewReply(c, owner, k, "ready")} ELSE {})
      \cup (IF ValidNewReply(c) /\ ReplyCount(c) < MaxReplies
            THEN {NewReply(c, owner, k, stage) : stage \in {"ready", "wait"}}
            ELSE {})

(* complete_core_windows_call, complete_windows_call and its resident twins, *)
(* complete_windows_call_frame, dispatch_windows_call_frame                *)
WindowsCall(owner, k) ==
    LET c == ctx[current] IN
    /\ OwnerValid(c, owner)
    /\ Answerable(c, owner, k)
    /\ \/ /\ Serves(c, owner, k)
          /\ \E d \in Retried(c) : d # c /\ Update(d)
       \/ /\ ~Serves(c, owner, k)
          /\ ValidOwner(c, owner)
          /\ c.blocked = k
          /\ Update(Completed([c EXCEPT !.blocked = 0]))
       \/ /\ ~Serves(c, owner, k)
          /\ ValidOwner(c, owner)
          /\ c.blocked = 0
          /\ \E d \in Serviced(c, owner, k) : Update(d)
    /\ UNCHANGED <<current, callToken, issuer>>

(* begin_windows_callback, begin_windows_resident_callback.  The wrapper   *)
(* never gives a resident unit a callback into itself at the outermost     *)
(* level: it could be neither authorized nor aborted.                      *)
BeginWindowsCallback ==
    LET c == ctx[current]
        r == LastReply(c)
        form == IF r.owner.kind \in {"core", "replacement"} THEN r.owner.kind
                ELSE "resident"
    IN  /\ c.replies # <<>>
        /\ r.stage = "ready"
        /\ Answerable(c, r.owner, r.token)
        /\ \E home \in UnitsOf(form) :
              LET unit == IF form = "resident" THEN r.owner.unit ELSE 0 IN
              /\ form = "resident" /\ c.stack = <<>> => home # unit
              /\ MaySuspend(c, form, unit)
              /\ Issue
              /\ Update(SetReply(Suspended(c, form, unit, home),
                    [r EXCEPT !.stage = "running",
                              !.callback = [token |-> NextToken, form |-> form,
                                 generation |-> IF form = "replacement"
                                                THEN c.generation ELSE 0,
                                 home |-> home]]))
        /\ UNCHANGED <<current, issuer>>

(* finish_windows_callback, finish_windows_resident_callback: the reply    *)
(* names the callback and the way it is run.                               *)
FinishWindowsCallback(k) ==
    LET c == ctx[current]
        r == LastReply(c)
    IN  /\ c.replies # <<>>
        /\ r.stage = "running"
        /\ r.callback.token = k
        /\ HasReturned(c, k)
        /\ Top(c).form = r.callback.form
        /\ Top(c).form = "replacement"
             => Top(c).generation = r.callback.generation
        /\ Top(c).form = "resident" => Top(c).home = r.callback.home
        /\ LET received == Staged(Resumed(c), "received") IN
             \E d \in {received} \cup Retried(received) : Update(d)
        /\ UNCHANGED <<current, callToken, issuer>>

(* resume_user32_wait *)
ResumeWait ==
    LET c == ctx[current] IN
    /\ c.replies # <<>>
    /\ LastReply(c).stage = "wait"
    /\ Answerable(c, LastReply(c).owner, LastReply(c).token)
    /\ \E d \in Advanced(c) : d # c /\ Update(d)
    /\ UNCHANGED <<current, callToken, issuer>>

-----------------------------------------------------------------------------
(* The rest of the engine, as far as it touches the protocol. *)

(* park_module_execution by a call that loads a module: the initializers   *)
(* run with a context of their own, on top of all that is suspended.       *)
ParkModule ==
    LET c == ctx[current] IN
    /\ Does("park")
    /\ Len(c.parked) < MaxParked
    /\ c.pending # NoCall
    /\ Answerable(c, c.pending.owner, c.pending.token)
    /\ OwnerValid(c, c.pending.owner)
    /\ ~ProviderOwns(c, c.pending.token)
    /\ ValidOwner(c, c.pending.owner)
    /\ Update([EmptyContext EXCEPT
         !.parked = Append(c.parked,
            [pending |-> c.pending, stack |-> c.stack, replies |-> c.replies,
             stop |-> c.stop, generation |-> c.generation])])
    /\ UNCHANGED <<current, callToken, issuer>>

(* complete_module_operation, complete_module_windows_initializer: what    *)
(* was parked is back and the call is answered, or kept when that fails.   *)
UnparkModule ==
    LET c == ctx[current]
        p == c.parked[Len(c.parked)]
        restored == [pending |-> p.pending, stack |-> p.stack,
                     replies |-> p.replies, blocked |-> 0, stop |-> p.stop,
                     generation |-> p.generation,
                     parked |-> SubSeq(c.parked, 1, Len(c.parked) - 1)]
    IN  /\ c.parked # <<>>
        /\ c.pending = NoCall /\ c.stack = <<>>
        /\ \E d \in {restored, Completed(restored)} : Update(d)
        /\ UNCHANGED <<current, callToken, issuer>>

NextGeneration == issuer + 1

(* compile_descriptors *)
Compile ==
    LET c == ctx[current] IN
    /\ Does("replacement")
    /\ issuer < MaxGeneration
    /\ c.pending = NoCall
    /\ c.stack = <<>>
    /\ issuer' = NextGeneration
    /\ Update([c EXCEPT !.generation = NextGeneration])
    /\ UNCHANGED <<current, callToken>>

(* resume_callback_code, resume_callback_entries: new code for the callback *)
(* that runs, which also owns the call it returns to.                      *)
ResumeCallbackCode ==
    LET c == ctx[current] IN
    /\ issuer < MaxGeneration
    /\ InCallbackOf(c, "replacement")
    /\ Top(c).generation = c.generation
    /\ Top(c).outer.owner = Replacement(c.generation)
    /\ c.pending = NoCall
    /\ c.stop.at = "code"
    /\ Awaited(c, Top(c).token) => Does("migrate")
    /\ issuer' = NextGeneration
    /\ Update([c EXCEPT !.generation = NextGeneration,
                        !.stack[Len(c.stack)].generation = NextGeneration,
                        !.stack[Len(c.stack)].outer.owner =
                           Replacement(NextGeneration)])
    /\ UNCHANGED <<current, callToken>>

(* take_windows_thread_context, restore_windows_thread_context *)
Switch(t) ==
    /\ t # current
    /\ current' = t
    /\ UNCHANGED <<ctx, callToken, issuer>>

-----------------------------------------------------------------------------
Answer == \E k \in 1 .. callToken :
             \/ \E owner \in Owners : \/ CompleteCall(owner, k)
                                     \/ WindowsCall(owner, k)
             \/ AbandonCall(k)
             \/ FinishCallback(k)
             \/ AbortCallback(k)
             \/ FinishWindowsCallback(k)
             \/ Authorize(k)
             \/ \E u \in Units : SelectUnit(k, u)

Next ==
    \/ Run
    \/ \E owner \in Owners : Capture(owner)
    \/ Answer
    \/ \E form \in {"core", "replacement", "resident"} : BeginCallback(form)
    \/ BeginWindowsCallback
    \/ ResumeWait
    \/ ParkModule
    \/ UnparkModule
    \/ Compile
    \/ ResumeCallbackCode
    \/ \E t \in Threads : Switch(t)

Spec == Init /\ [][Next]_vars

-----------------------------------------------------------------------------
(* Properties. *)

Context == [pending : Call \cup {NoCall}, stack : Seq(Frame),
            replies : Seq(Reply), blocked : 0 .. MaxToken,
            parked : Seq([pending : Call, stack : Seq(Frame),
                          replies : Seq(Reply), stop : Stop,
                          generation : 0 .. MaxGeneration]),
            stop : Stop, generation : 0 .. MaxGeneration]

(* The variables have the types the code gives them. *)
TypeOK ==
    /\ ctx \in [Threads -> Context]
    /\ current \in Threads
    /\ callToken \in 0 .. MaxToken
    /\ issuer \in 0 .. MaxGeneration

(* What is open in an execution (a context or a parked part of one): the   *)
(* calls under the callbacks, the callbacks and the pending call.          *)
OpenIn(e) ==
    {e.stack[i].outer.token : i \in DOMAIN e.stack}
      \cup {e.stack[i].token : i \in DOMAIN e.stack}
      \cup (IF e.pending = NoCall THEN {} ELSE {e.pending.token})

Open(c) == OpenIn(c) \cup UNION {OpenIn(c.parked[i]) : i \in DOMAIN c.parked}

(* Calls and callbacks are opened and closed in a last-in, first-out order: *)
(* a callback is younger than the call under it and older than what runs in *)
(* it, and parked executions are older than those on top of them.          *)
Nested(e) ==
    /\ \A i \in DOMAIN e.stack :
         /\ e.stack[i].outer.token < e.stack[i].token
         /\ \A j \in DOMAIN e.stack :
              i < j => e.stack[i].token < e.stack[j].outer.token
         /\ e.pending # NoCall => e.stack[i].token < e.pending.token

(* Whatever the host answers, late, twice or for a thread that is not      *)
(* current, a token names one open call or callback of one thread          *)
(* (call_token is shared by all threads and survives a switch).            *)
TokensAreUnique ==
    \A t \in Threads :
       LET c == ctx[t] IN
       /\ \A k \in Open(c) : k <= callToken
       /\ \A u \in Threads \ {t} : Open(c) \cap Open(ctx[u]) = {}
       /\ Nested(c)
       /\ \A i \in DOMAIN c.parked :
            /\ Nested(c.parked[i])
            /\ \A k \in OpenIn(c.parked[i]) :
                 /\ \A j \in OpenIn(c) : k < j
                 /\ \A m \in DOMAIN c.parked :
                      i < m => \A j \in OpenIn(c.parked[m]) : k < j

(* The replies of an execution belong, in order, to the call under the     *)
(* callback each of them waits for, run as the frame says, and the last to *)
(* the pending call when it waits for no callback.  Otherwise it could     *)
(* never be finished, and restore's assertion on windows_replies fails.    *)
RepliesMatch(e) ==
    \A i \in DOMAIN e.replies :
       LET r == e.replies[i] IN
       IF r.stage = "running"
       THEN \E j \in DOMAIN e.stack :
              /\ e.stack[j].token = r.callback.token
              /\ e.stack[j].form = r.callback.form
              /\ e.stack[j].generation = r.callback.generation
              /\ e.stack[j].home = r.callback.home
              /\ e.stack[j].outer.token = r.token
              /\ e.stack[j].outer.owner = r.owner
              /\ \A m \in DOMAIN e.stack :
                   m > j => \A n \in 1 .. i :
                              e.stack[m].token # e.replies[n].callback.token
       ELSE /\ i = Len(e.replies)
            /\ e.pending # NoCall
            /\ e.pending.token = r.token
            /\ e.pending.owner = r.owner

(* A provider that answers a call later still finds it, and a callback it  *)
(* asked for can be finished, in the running threads and in those that     *)
(* load a module.                                                          *)
ProvidersKeepTheirCalls ==
    \A t \in Threads :
       LET c == ctx[t] IN
       /\ RepliesMatch(c)
       /\ \A i \in DOMAIN c.parked : RepliesMatch(c.parked[i])
       /\ c.blocked # 0 => c.pending # NoCall /\ c.pending.token = c.blocked

(* A call that has become pending again after callbacks, loads and         *)
(* switches finds the guest stopped as it was at the capture, and can be   *)
(* answered.                                                               *)
ResumedCallsAreAnswerable ==
    \A t \in Threads :
       ctx[t].pending # NoCall => ctx[t].stop = ctx[t].pending.stop

(* The calls and callbacks of a thread form a stack, and tokens are never  *)
(* given again: an answer that comes late, twice or for a suspended call   *)
(* can only end the call it was meant for, with what runs in it.           *)
Calls == INSTANCE CallStack WITH
           open <- [t \in Threads |-> Open(ctx[t])],
           issued <- callToken

CallsAreAStack == Calls!Spec

=============================================================================
