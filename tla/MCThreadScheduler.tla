------------------------- MODULE MCThreadScheduler -------------------------
(* Small instances of ThreadScheduler for TLC. *)
EXTENDS ThreadScheduler, TLC

AllCalls == {"CreateThread", "SuspendThread", "SetThreadPriority", "SwitchToThread",
             "Block", "LoadLibrary", "ExitThread", "TerminateThread"}

(* What moves the processor from thread to thread. *)
TurnCalls == {"CreateThread", "SetThreadPriority", "SwitchToThread", "Block",
              "LoadLibrary", "ExitThread"}

(* A detach callback that makes a call which blocks. *)
DetachCalls == {"CreateThread", "SetThreadPriority", "BlockInDetach", "ExitThread"}
=============================================================================
