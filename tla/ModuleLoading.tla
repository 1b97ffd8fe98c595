---------------------------- MODULE ModuleLoading ----------------------------
(***************************************************************************)
(* Loading and unloading of guest modules (process/loading/modules): the   *)
(* set of loaded modules with its dependency edges and references, the     *)
(* stack of module operations of every guest thread, each of which runs    *)
(* the initializers of its modules (TLS callbacks and DllMain) in guest    *)
(* code one after the other, and the loader lock.  An initializer is guest *)
(* code: it may load, resolve and reference modules itself, which stacks a *)
(* nested operation on the one that called it.                             *)
(*                                                                         *)
(* A module is its name.  Every module has at most one TLS callback, and   *)
(* its exports hold at most one forwarder.  Which bytes a load needs, and  *)
(* whether the host delivers them, is the environment's choice.            *)
(***************************************************************************)
EXTENDS Integers, Sequences, SequencesExt

CONSTANTS
  Threads,        \* guest threads
  Primary,        \* the thread that starts the process
  NoThread,       \* no owner of the loader lock
  Modules,        \* names the catalog can provide
  Main,           \* the executable
  Imports,        \* module -> the modules its import table binds to
  Forward,        \* partial: module -> the module its forwarder names
  Entries,        \* DLLs with an entry point (DllMain)
  TlsModules,     \* modules with a TLS callback
  Calls,          \* the requests the program makes
  MaxExplicit,    \* bound: explicit references of one module (code: u32)
  MaxOperations   \* bound: nested operations of one thread (code: memory)

ASSUME ModulesAssumption ==
  /\ IsFiniteSet(Modules)
  /\ Primary \in Threads
  /\ NoThread \notin Threads
  /\ Main \in Modules
  /\ Imports \in [Modules -> SUBSET Modules]
  /\ DOMAIN Forward \subseteq Modules
  /\ \A m \in DOMAIN Forward : Forward[m] \in Modules \ {m}
  /\ Entries \subseteq Modules \ {Main}
  /\ TlsModules \subseteq Modules
  /\ MaxExplicit \in Nat
  /\ MaxOperations \in Nat \ {0}

VARIABLES
  modules,      \* ModuleProcess32: loaded set, edges, references, attached
  operations,   \* thread -> its stack of ModuleOperation (moves with it)
  owner,        \* loader_owner
  depth,        \* loader_depth
  waiting,      \* thread -> waiting_request: a call parked on the lock
  source,       \* thread -> source: a load waiting for bytes
  notice,       \* thread -> lifecycle: attach or detach notifications of a thread
  exited,       \* the process exit was published
  late          \* history: modules referenced after their unload was planned

vars == <<modules, operations, owner, depth, waiting, source, notice, exited, late>>

-----------------------------------------------------------------------------
(* Steps, operations and requests. *)

Step(call, module, attach) ==
  [call |-> call, module |-> module, attach |-> attach]

Steps == [call : {"tls", "main", "attached"}, module : Modules, attach : BOOLEAN]
NoStep == Step("none", Main, FALSE)

Operations ==
  [purpose : {"load", "unload", "rollback", "shutdown"},
   root : Modules,
   ids : SUBSET Modules,              \* new_ids of a load, ids of the others
   initial : BOOLEAN,
   export : BOOLEAN,                  \* LoadCompletion::Export
   edges : SUBSET (Modules \X Modules),
   steps : Seq(Steps),
   active : Steps \cup {NoStep}]

Request(call, module) == [call |-> call, module |-> module]
Requests == [call : {"load", "image", "export", "free", "exit"}, module : Modules]
NoRequest == Request("none", Main)

ASSUME CallsAssumption == Calls \subseteq Requests

NoNotice == [open |-> FALSE, calls |-> <<>>, active |-> FALSE]

-----------------------------------------------------------------------------
(* The module set s: a record of loaded, dependencies, explicit, pinned,   *)
(* attached (a sequence: the order of attachment) and uninitialized.       *)

NoModules ==
  [loaded |-> {}, dependencies |-> [m \in Modules |-> {}],
   explicit |-> [m \in Modules |-> 0], pinned |-> {}, attached |-> <<>>,
   uninitialized |-> {}]

\* The members of the list s that are in S, in their order.
Among(s, S) ==
  LET upTo[n \in 0..Len(s)] ==
        IF n = 0 THEN <<>>
        ELSE IF s[n] \in S THEN Append(upTo[n - 1], s[n]) ELSE upTo[n - 1]
  IN upTo[Len(s)]

Attached(s, m) == \E i \in DOMAIN s.attached : s.attached[i] = m

\* The modules reached from roots along next: the least closed superset.
Closure(roots, next) ==
  {m \in Modules : \A S \in SUBSET Modules :
     (roots \subseteq S /\ \A x \in S : next[x] \subseteq S) => m \in S}

\* Modules a plan adds: the targets not loaded yet and what they import.
Additions(s, targets) ==
  Closure(targets, [m \in Modules |-> IF m \in s.loaded THEN {} ELSE Imports[m]])
    \ s.loaded

\* Orders that put a module after the ones it imports, import cycles apart.
\* The depth-first order of the code is one of them for every import graph
\* (MCModuleLoading checks it).
InitializationOrders(new, imports) ==
  LET Earlier == [m \in Modules |-> imports[m] \cap new] IN
  {order \in [1..Cardinality(new) -> new] :
     /\ \A m \in new : \E i \in DOMAIN order : order[i] = m
     /\ \A i, j \in DOMAIN order :
          i < j /\ order[j] \in Earlier[order[i]] => order[i] \in Closure({order[j]}, Earlier)}

\* Modules that nothing references once one reference to root is released.
UnreachableAfterRelease(s, root) ==
  LET Held == {m \in s.loaded : m \in s.pinned \/ s.explicit[m] > (IF m = root THEN 1 ELSE 0)} IN
  s.loaded \ Closure(Held, s.dependencies)

\* Mutant: a rollback looks at pins only, and takes referenced modules too.
RollbackIdsPinned(s, op) ==
  LET Kept == [m \in Modules |-> {d \in s.dependencies[m] : <<m, d>> \notin op.edges}]
  IN IF op.initial THEN s.loaded
     ELSE {m \in op.ids \cap s.loaded : m \notin Closure(s.pinned, Kept)}

\* Modules a failed load takes with it: its additions, except the ones a
\* reference reaches by an edge the load did not introduce.
RollbackIds(s, op) ==
  LET Held == {m \in s.loaded : m \in s.pinned \/ s.explicit[m] # 0}
      Kept == [m \in Modules |-> {d \in s.dependencies[m] : <<m, d>> \notin op.edges}]
  IN IF op.initial THEN s.loaded
     ELSE {m \in op.ids \cap s.loaded : m \notin Closure(Held, Kept)}

\* ModuleInUse: a module that stays depends on one that goes.
Unloadable(s, ids, edges) ==
  \A m \in s.loaded \ ids : \A d \in s.dependencies[m] \cap ids : <<m, d>> \in edges

Without(s, ids, edges) ==
  [s EXCEPT
     !.loaded = @ \ ids,
     !.dependencies = [m \in Modules |->
        IF m \in ids THEN {} ELSE {d \in @[m] : <<m, d>> \notin edges}],
     !.explicit = [m \in Modules |-> IF m \in ids THEN 0 ELSE @[m]],
     !.pinned = @ \ ids,
     !.attached = Among(@, Modules \ ids),
     !.uninitialized = @ \ ids]

Installed(s, new, edges, image) ==
  [s EXCEPT
     !.loaded = @ \cup new,
     !.dependencies = [m \in Modules |->
        IF m \in new THEN (IF image THEN {} ELSE Imports[m] \ {m})
        ELSE @[m] \cup {d \in Modules : <<m, d>> \in edges}],
     !.uninitialized = IF image THEN @ \cup new ELSE @]

-----------------------------------------------------------------------------
(* Initializer steps. *)

LoadSteps(order) ==
  [i \in 1..3 * Len(order) |->
     LET m == order[(i + 2) \div 3] IN
     CASE i % 3 = 1 -> Step("tls", m, TRUE)
       [] i % 3 = 2 -> Step("main", m, TRUE)
       [] i % 3 = 0 -> Step("attached", m, TRUE)]

\* Mutant: modules are detached in the order they were attached.
DetachStepsForward(s, ids) ==
  LET leaving == Among(s.attached, ids) IN
  [i \in 1..2 * Len(leaving) |->
     Step(IF i % 2 = 1 THEN "tls" ELSE "main", leaving[(i + 1) \div 2], FALSE)]

\* Detach calls in the reverse order of attachment.
DetachSteps(s, ids) ==
  LET leaving == Reverse(Among(s.attached, ids)) IN
  [i \in 1..2 * Len(leaving) |->
     Step(IF i % 2 = 1 THEN "tls" ELSE "main", leaving[(i + 1) \div 2], FALSE)]

RunsCode(step) ==
  \/ step.call = "tls" /\ step.module \in TlsModules
  \/ step.call = "main" /\ step.module \in Entries

\* Steps before the next call: "attached" steps take effect, the others
\* concern modules without a callback.
Skipped(op) ==
  LET calls == {i \in DOMAIN op.steps : RunsCode(op.steps[i])}
      last == IF calls = {} THEN Len(op.steps)
              ELSE (CHOOSE i \in calls : \A j \in calls : i <= j) - 1
  IN SubSeq(op.steps, 1, last)

NewlyAttached(s, op) ==
  LET marks == Among(Skipped(op), {step \in Steps :
                 step.call = "attached" /\ ~Attached(s, step.module)}) IN
  [s EXCEPT !.attached = @ \o [i \in DOMAIN marks |-> marks[i].module]]

-----------------------------------------------------------------------------
(* Completion of an operation whose steps are exhausted. *)

\* Mutant: an unload is committed under the dependents it gained meanwhile.
CanCompleteAlways(s, op) == TRUE

CanComplete(s, op) ==
  op.purpose \in {"unload", "rollback"} => Unloadable(s, op.ids, op.edges)

Completed(s, op) ==
  CASE op.purpose = "load" /\ op.initial -> [s EXCEPT !.pinned = @ \cup {op.root}]
    [] op.purpose = "load" /\ ~op.initial ->
         IF op.export THEN s ELSE [s EXCEPT !.explicit[op.root] = @ + 1]
    [] op.purpose = "shutdown" -> [s EXCEPT !.attached = <<>>]
    [] op.purpose = "rollback" ->
         IF op.initial THEN NoModules ELSE Without(s, op.ids, op.edges)
    [] op.purpose = "unload" ->
         LET rest == Without(s, op.ids, {}) IN
         IF op.root \in op.ids THEN rest ELSE [rest EXCEPT !.explicit[op.root] = @ - 1]

Completes(op) == Len(Skipped(op)) = Len(op.steps)

\* The loader lock after the work that outer levels of t leave.
Held(t, levels) ==
  /\ owner' = IF levels = 0 THEN NoThread ELSE t
  /\ depth' = levels

\* Run op on top of stack until its next call, or complete it and release
\* the loader.  When the commit is refused the operation stays, without an
\* active initializer: every retry of finish_module_initializer fails again.
Advance(t, s, op, stack, levels) ==
  LET ready == NewlyAttached(s, op)
      rest == SubSeq(op.steps, Len(Skipped(op)) + 1, Len(op.steps))
      parked == [op EXCEPT !.steps = IF rest = <<>> THEN <<>> ELSE Tail(rest),
                           !.active = IF rest = <<>> THEN NoStep ELSE Head(rest)]
      done == Completes(op) /\ CanComplete(ready, op)
  IN /\ modules' = IF done THEN Completed(ready, op) ELSE ready
     /\ operations' = [operations EXCEPT ![t] = IF done THEN stack ELSE Append(stack, parked)]
     /\ exited' = (exited \/ (done /\ op.purpose = "shutdown"))
     /\ modules'.explicit[op.root] <= MaxExplicit
     /\ late' = late \cap modules'.loaded
     /\ Held(t, IF done THEN levels ELSE levels + 1)

-----------------------------------------------------------------------------
(* What a thread can do. *)

Acquirable(t) == owner \in {t, NoThread}

\* The initial load completed: from here on there are secondary threads.
Started ==
  /\ Main \in modules.loaded
  /\ \A i \in DOMAIN operations[Primary] : ~operations[Primary][i].initial

\* Guest code of t runs: the program's, an initializer's or a notification's.
Guest(t) ==
  /\ ~exited
  /\ IF t = Primary THEN Main \in modules.loaded ELSE Started
  /\ source[t] = NoRequest /\ waiting[t] = NoRequest
  /\ operations[t] # <<>> => Last(operations[t]).active # NoStep
  /\ operations[t] = <<>> /\ notice[t].open => notice[t].active

\* The modules an operation in progress is about to unload.
Doomed ==
  UNION {UNION {operations[t][i].ids :
                  i \in {k \in DOMAIN operations[t] :
                          operations[t][k].purpose \in {"unload", "rollback"}}} :
           t \in Threads}

\* GetModuleHandleEx and LdrAddRefDll: a reference, or a pin, without the lock.
AddReference(t, m, pin) ==
  /\ Guest(t)
  /\ m \in modules.loaded
  /\ modules.explicit[m] < MaxExplicit
  /\ modules' = IF pin THEN [modules EXCEPT !.pinned = @ \cup {m}]
                ELSE [modules EXCEPT !.explicit[m] = @ + 1]
  /\ late' = late \cup ({m} \cap Doomed)
  /\ UNCHANGED <<operations, owner, depth, waiting, source, notice, exited>>

-----------------------------------------------------------------------------
(* Requests, executed under the loader lock. *)

Target(r) == IF r.call = "export" THEN Forward[r.module] ELSE r.module

\* Install the plan of a request whose bytes are all present.
Install(t, r, levels) ==
  LET image == r.call = "image"
      new == IF image THEN {r.module} ELSE Additions(modules, {Target(r)})
      edges == IF r.call # "export" \/ Target(r) \in modules.dependencies[r.module] THEN {}
               ELSE {<<r.module, Target(r)>>}
  IN \E order \in IF image THEN {<<>>} ELSE InitializationOrders(new, Imports) :
       /\ Len(operations[t]) < MaxOperations
       /\ Advance(t, Installed(modules, new, edges, image),
            [purpose |-> "load", root |-> r.module, ids |-> new,
             initial |-> r.call = "start", export |-> r.call = "export",
             edges |-> edges, steps |-> LoadSteps(order), active |-> NoStep],
            operations[t], levels)

\* A load whose module is not there yet: it installs at once, or keeps the
\* lock and waits for bytes.
BeginLoad(t, r) ==
  /\ Target(r) \notin modules.loaded
  /\ \/ /\ Install(t, r, depth)
        /\ UNCHANGED source
     \/ /\ source' = [source EXCEPT ![t] = r]
        /\ Held(t, depth + 1)
        /\ UNCHANGED <<modules, operations, exited, late>>

\* LoadLibrary of a loaded module: one more reference, unless it is still
\* being initialized (Busy).
RetainLoaded(t, r) ==
  /\ r.module \in modules.loaded
  /\ Attached(modules, r.module) \/ r.module \in modules.uninitialized
  /\ modules.explicit[r.module] < MaxExplicit
  /\ modules' = [modules EXCEPT !.explicit[r.module] = @ + 1]
  /\ late' = late \cup ({r.module} \cap Doomed)
  /\ UNCHANGED <<operations, owner, depth, source, exited>>

\* GetProcAddress through a forwarder to a loaded module adopts the edge.
AdoptDependency(t, r) ==
  /\ Target(r) \in modules.loaded
  /\ modules' = [modules EXCEPT !.dependencies[r.module] = @ \cup {Target(r)}]
  /\ UNCHANGED <<operations, owner, depth, source, exited, late>>

LoadLibrary(t, r) ==
  /\ r.call \in {"load", "image"}
  /\ BeginLoad(t, r) \/ RetainLoaded(t, r)

GetProcAddress(t, r) ==
  /\ r.call = "export"
  /\ r.module \in modules.loaded \cap DOMAIN Forward
  /\ BeginLoad(t, r) \/ AdoptDependency(t, r)

\* Mutant: FreeLibrary also runs inside an operation.
FreeLibraryNested(t, r) ==
  LET ids == UnreachableAfterRelease(modules, r.module) IN
  /\ r.call = "free"
  /\ Len(operations[t]) < MaxOperations
  /\ r.module \in modules.loaded \ modules.pinned
  /\ modules.explicit[r.module] # 0
  /\ IF ids = {} THEN
        /\ modules' = [modules EXCEPT !.explicit[r.module] = @ - 1]
        /\ UNCHANGED <<operations, owner, depth, exited, late>>
     ELSE Advance(t, modules,
            [purpose |-> "unload", root |-> r.module, ids |-> ids, initial |-> FALSE,
             export |-> FALSE, edges |-> {}, steps |-> DetachSteps(modules, ids),
             active |-> NoStep], operations[t], depth)
  /\ UNCHANGED source

\* Mutant: a reference is released that nobody holds.
FreeLibraryTwice(t, r) ==
  LET ids == UnreachableAfterRelease(modules, r.module) IN
  /\ r.call = "free"
  /\ operations[t] = <<>>
  /\ r.module \in modules.loaded \ modules.pinned
  /\ IF ids = {} THEN
        /\ modules' = [modules EXCEPT !.explicit[r.module] = @ - 1]
        /\ UNCHANGED <<operations, owner, depth, exited, late>>
     ELSE Advance(t, modules,
            [purpose |-> "unload", root |-> r.module, ids |-> ids, initial |-> FALSE,
             export |-> FALSE, edges |-> {}, steps |-> DetachSteps(modules, ids),
             active |-> NoStep], operations[t], depth)
  /\ UNCHANGED source

\* FreeLibrary is Busy inside an operation; the last reference unloads every
\* module it alone kept.
FreeLibrary(t, r) ==
  LET ids == UnreachableAfterRelease(modules, r.module) IN
  /\ r.call = "free"
  /\ operations[t] = <<>>
  /\ r.module \in modules.loaded \ modules.pinned
  /\ modules.explicit[r.module] # 0
  /\ IF ids = {} THEN
        /\ modules' = [modules EXCEPT !.explicit[r.module] = @ - 1]
        /\ UNCHANGED <<operations, owner, depth, exited, late>>
     ELSE Advance(t, modules,
            [purpose |-> "unload", root |-> r.module, ids |-> ids, initial |-> FALSE,
             export |-> FALSE, edges |-> {}, steps |-> DetachSteps(modules, ids),
             active |-> NoStep], operations[t], depth)
  /\ UNCHANGED source

\* ExitProcess, or the end of the last thread.
DetachForExit(t, r) ==
  LET ids == ToSet(modules.attached) IN
  /\ r.call = "exit"
  /\ operations[t] = <<>>
  /\ Advance(t, modules,
       [purpose |-> "shutdown", root |-> Main, ids |-> ids, initial |-> FALSE,
        export |-> FALSE, edges |-> {}, steps |-> DetachSteps(modules, ids),
        active |-> NoStep], operations[t], depth)
  /\ UNCHANGED source

Perform(t, r) ==
  \/ LoadLibrary(t, r)
  \/ GetProcAddress(t, r)
  \/ FreeLibrary(t, r)
  \/ DetachForExit(t, r)

\* start_module_process, on an engine without modules that has run no guest
\* code since it was set up (the arena is in its initial state).
StartProcess ==
  /\ modules.loaded = {} /\ source[Primary] = NoRequest /\ ~exited
  /\ waiting[Primary] = NoRequest /\ Acquirable(Primary)
  /\ BeginLoad(Primary, Request("start", Main))
  /\ UNCHANGED <<waiting, notice>>

\* A guest call that finds the loader free, or held by its own thread.
Call(t, r) ==
  /\ Guest(t) /\ Acquirable(t)
  /\ Perform(t, r)
  /\ UNCHANGED <<waiting, notice>>

\* A guest call that finds the loader held parks its request.
ParkRequest(t, r) ==
  /\ Guest(t) /\ ~Acquirable(t)
  /\ waiting' = [waiting EXCEPT ![t] = r]
  /\ UNCHANGED <<modules, operations, owner, depth, source, notice, exited, late>>

\* retry_module_windows_call: the parked request runs once the lock is free;
\* whatever it asked for may have changed, and then it just fails.
RetryRequest(t) ==
  /\ waiting[t] # NoRequest /\ Acquirable(t) /\ ~exited
  /\ waiting' = [waiting EXCEPT ![t] = NoRequest]
  /\ \/ Perform(t, waiting[t])
     \/ UNCHANGED <<modules, operations, owner, depth, source, exited, late>>
  /\ UNCHANGED notice

\* Mutant: a load that fails while it waits for bytes keeps the lock.
ResumeSourceHeld(t) ==
  /\ source[t] # NoRequest /\ ~exited
  /\ source' = [source EXCEPT ![t] = NoRequest]
  /\ \/ Install(t, source[t], depth - 1)
     \/ UNCHANGED <<modules, operations, owner, depth, exited, late>>
  /\ UNCHANGED <<waiting, notice>>

\* resume_module_source: the bytes arrived, or the load failed.
ResumeSource(t) ==
  /\ source[t] # NoRequest /\ ~exited
  /\ source' = [source EXCEPT ![t] = NoRequest]
  /\ \/ Install(t, source[t], depth - 1)
     \/ /\ Held(t, depth - 1)
        /\ UNCHANGED <<modules, operations, exited, late>>
  /\ UNCHANGED <<waiting, notice>>

-----------------------------------------------------------------------------
(* Initializers. *)

Rollback(s, op) ==
  LET ids == RollbackIds(s, op) IN
  [op EXCEPT !.purpose = "rollback", !.ids = ids, !.steps = DetachSteps(s, ids),
             !.active = NoStep]

\* A failed module is called again, to detach, before the ones it followed.
FailedRollback(s, op) ==
  LET undone == Rollback(s, op)
      failed == op.active.module
  IN IF failed \in undone.ids /\ ~Attached(s, failed)
     THEN [undone EXCEPT !.steps =
             <<Step("tls", failed, FALSE), Step("main", failed, FALSE)>> \o @]
     ELSE undone

\* The running initializer of the innermost operation of t returns.
FinishInitializer(t, success) ==
  LET op == Last(operations[t])
      failed == op.active.call = "main" /\ op.active.attach /\ ~success
      undone == FailedRollback(modules, op)
      attached == IF failed /\ op.active.module \in undone.ids /\ ~Attached(modules, op.active.module)
                  THEN [modules EXCEPT !.attached = Append(@, op.active.module)] ELSE modules
  IN /\ Guest(t) /\ operations[t] # <<>>
     /\ Advance(t, attached, IF failed THEN undone ELSE op, Front(operations[t]), depth - 1)
     /\ UNCHANGED <<waiting, source, notice>>

\* The host gives a load up while one of its initializers runs.
AbortOperation(t) ==
  LET op == Last(operations[t]) IN
  /\ Guest(t) /\ operations[t] # <<>>
  /\ op.purpose = "load"
  /\ Advance(t, modules, Rollback(modules, op), Front(operations[t]), depth - 1)
  /\ UNCHANGED <<waiting, source, notice>>

-----------------------------------------------------------------------------
(* Attach and detach notifications of a thread: the calls are collected    *)
(* once, when the phase begins, under the lock the phase keeps.            *)

Notified == Among(modules.attached, Entries \cup TlsModules)

BeginNotice(t, attach) ==
  /\ ~exited /\ t # Primary /\ Started
  /\ operations[t] = <<>> /\ ~notice[t].open
  /\ source[t] = NoRequest /\ waiting[t] = NoRequest
  /\ Acquirable(t)
  /\ notice' = [notice EXCEPT ![t] = [open |-> TRUE, active |-> FALSE,
       calls |-> IF attach THEN Notified ELSE Reverse(Notified)]]
  /\ Held(t, depth + 1)
  /\ UNCHANGED <<modules, operations, waiting, source, exited, late>>

CallNotice(t) ==
  /\ ~exited
  /\ notice[t].open /\ ~notice[t].active /\ notice[t].calls # <<>>
  /\ notice' = [notice EXCEPT ![t].active = TRUE]
  /\ UNCHANGED <<modules, operations, owner, depth, waiting, source, exited, late>>

ReturnNotice(t) ==
  /\ Guest(t) /\ operations[t] = <<>> /\ notice[t].active
  /\ notice' = [notice EXCEPT ![t].active = FALSE, ![t].calls = Tail(@)]
  /\ UNCHANGED <<modules, operations, owner, depth, waiting, source, exited, late>>

EndNotice(t) ==
  /\ ~exited
  /\ notice[t].open /\ ~notice[t].active /\ notice[t].calls = <<>>
  /\ notice' = [notice EXCEPT ![t] = NoNotice]
  /\ Held(t, depth - 1)
  /\ UNCHANGED <<modules, operations, waiting, source, exited, late>>

-----------------------------------------------------------------------------
Init ==
  /\ modules = NoModules
  /\ operations = [t \in Threads |-> <<>>]
  /\ owner = NoThread /\ depth = 0
  /\ waiting = [t \in Threads |-> NoRequest]
  /\ source = [t \in Threads |-> NoRequest]
  /\ notice = [t \in Threads |-> NoNotice]
  /\ exited = FALSE
  /\ late = {}

Next ==
  \/ StartProcess
  \/ \E t \in Threads :
       \/ \E r \in Calls : Call(t, r) \/ ParkRequest(t, r)
       \/ \E m \in Modules, pin \in BOOLEAN : AddReference(t, m, pin)
       \/ RetryRequest(t)
       \/ ResumeSource(t)
       \/ \E success \in BOOLEAN : FinishInitializer(t, success)
       \/ AbortOperation(t)
       \/ \E attach \in BOOLEAN : BeginNotice(t, attach)
       \/ CallNotice(t)
       \/ ReturnNotice(t)
       \/ EndNotice(t)

Spec == Init /\ [][Next]_vars

-----------------------------------------------------------------------------
(* Properties. *)

TypeOK ==
  /\ modules \in
       [loaded : SUBSET Modules, dependencies : [Modules -> SUBSET Modules],
        explicit : [Modules -> 0..MaxExplicit], pinned : SUBSET Modules,
        attached : Seq(Modules), uninitialized : SUBSET Modules]
  /\ operations \in [Threads -> Seq(Operations)]
  /\ \A t \in Threads : Len(operations[t]) <= MaxOperations
  /\ owner \in Threads \cup {NoThread}
  /\ depth \in Nat
  /\ waiting \in [Threads -> Requests \cup {NoRequest}]
  /\ source \in [Threads -> [call : {"load", "image", "export", "start"}, module : Modules]
                              \cup {NoRequest}]
  /\ notice \in [Threads -> [open : BOOLEAN, calls : Seq(Modules), active : BOOLEAN]]
  /\ exited \in BOOLEAN
  /\ late \in SUBSET Modules

\* Levels of the lock that the work of t accounts for.
Levels(t) ==
  Len(operations[t]) + (IF source[t] # NoRequest THEN 1 ELSE 0)
                     + (IF notice[t].open THEN 1 ELSE 0)

\* The lock is held by the one thread with loader work, exactly as deep as
\* that work is nested: it is released once for every acquisition, whichever
\* way an operation, a wait for bytes or a notification ends.
LoaderLockExact ==
  /\ \A t \in Threads : Levels(t) # 0 => owner = t
  /\ depth = IF owner = NoThread THEN 0 ELSE Levels(owner)
  /\ owner # NoThread => depth # 0

\* A loaded module never depends on one that is gone, whatever nested loads,
\* failed loads and unloads overlap: the rollback of a load takes back the
\* edges it introduced, and no unload is committed under a dependent.
DependenciesAreLoaded ==
  \A m \in Modules : modules.dependencies[m] # {} =>
    m \in modules.loaded /\ modules.dependencies[m] \subseteq modules.loaded

\* An initializer that runs, or is still to run, is in a loaded module: no
\* nested operation unmaps a module under an operation in progress.
InitializersAreLoaded ==
  \A t \in Threads : \A i \in DOMAIN operations[t] :
    LET op == operations[t][i] IN
    /\ op.active # NoStep => op.active.module \in modules.loaded
    /\ \A j \in DOMAIN op.steps : op.steps[j].module \in modules.loaded

\* Every module is attached at most once, while it is loaded, and detached
\* before the modules that were attached before it.
DetachesInReverse ==
  /\ \A i, j \in DOMAIN modules.attached :
       /\ modules.attached[i] \in modules.loaded
       /\ i # j => modules.attached[i] # modules.attached[j]
  /\ \A t \in Threads : \A k \in DOMAIN operations[t] :
       LET steps == operations[t][k].steps
           at(m) == CHOOSE i \in DOMAIN modules.attached : modules.attached[i] = m
       IN \A i, j \in DOMAIN steps :
            i < j /\ ~steps[i].attach /\ ~steps[j].attach =>
              at(steps[i].module) >= at(steps[j].module)

\* A module leaves the process only when nothing references it: no pin, and
\* no reference but the one being released.  References taken after the
\* unload was planned are apart, see NestedReferencesSurvive.
Leaves(m) ==
  /\ m \in modules.loaded \ modules'.loaded
  /\ Main \in modules'.loaded

\* The only operation in progress, if any, releases a reference to m.
Released(m) ==
  \A t \in Threads : operations[t] # <<>> =>
    Last(operations[t]).purpose = "unload" /\ Last(operations[t]).root = m

ReferencesKeepModules ==
  [][\A m \in Modules : Leaves(m) /\ m \notin late =>
       /\ m \notin modules.pinned
       /\ modules.explicit[m] <= 1
       /\ modules.explicit[m] = 1 => Released(m)]_vars

\* A reference a callback takes survives the operation that called it, as the
\* test nested_explicit_reference_survives_the_outer_failed_attach says.
NestedReferencesSurvive ==
  [][\A m \in Modules : Leaves(m) => m \notin late]_vars
=============================================================================
