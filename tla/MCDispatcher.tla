---------------------------- MODULE MCDispatcher ----------------------------
(* Small instances of Dispatcher for TLC: one set of calls per concern.    *)
EXTENDS Dispatcher, TLC

ThreadSymmetry == Permutations(Threads)

SignalCalls == {"CreateEvent", "CreateSemaphore", "CloseHandle", "SetEvent",
                "ResetEvent", "PulseEvent", "ReleaseSemaphore", "WaitAny", "WaitAll",
                "SignalObjectAndWait", "DuplicateHandle"}
TimerCalls == {"CreateWaitableTimer", "SetWaitableTimer", "CancelWaitableTimer",
               "TimerCallback", "WaitAny", "Alertable"}

TimeoutCalls == {"CreateEvent", "SetEvent", "CreateMutex", "ReleaseMutex", "OpenThread",
                 "CloseHandle", "WaitAny", "Sleep", "Alertable", "QueueUserAPC",
                 "TerminateThread", "CancelWait"}
ClosedHandleCalls == {"CreateEvent", "CloseHandle"} \cup TimerCalls

Infinite == {Never}
Timed    == {0, 1, Never}
Soon     == {0, 1}
None     == {}
=============================================================================
