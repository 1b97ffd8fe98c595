----------------------------- MODULE CallStack ------------------------------
(***************************************************************************)
(* What the protocol around a guest call promises about tokens: a token    *)
(* opens a call or a callback in one thread once and for all, and closing  *)
(* it closes whatever was opened later in that thread.                     *)
(***************************************************************************)
EXTENDS Naturals

CONSTANT Threads

VARIABLES
    open,             \* thread -> tokens of its open calls and callbacks
    issued            \* last token issued

stack == <<open, issued>>

Init ==
    /\ open = [t \in Threads |-> {}]
    /\ issued = 0

(* A call is captured, or a callback begun. *)
Begin(t) ==
    /\ issued' = issued + 1
    /\ open' = [open EXCEPT ![t] = @ \cup {issued + 1}]

(* The call or callback k is over. *)
End(t, k) ==
    /\ k \in open[t]
    /\ open' = [open EXCEPT ![t] = {j \in @ : j < k}]
    /\ UNCHANGED issued

Next == \E t \in Threads : Begin(t) \/ \E k \in open[t] : End(t, k)

Spec == Init /\ [][Next]_stack

=============================================================================
