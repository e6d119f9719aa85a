------------------------------ MODULE TaskQueue ------------------------------
(***************************************************************************)
(* What the dispatcher promises its callers, without threads, locks or     *)
(* condition variables: tasks are handled one at a time in the order they  *)
(* were accepted, none is invented, repeated or skipped, and every task    *)
(* accepted before the terminating task is handled.  Module Dispatcher is  *)
(* shown to implement this specification.                                  *)
(***************************************************************************)
EXTENDS Naturals, Sequences

CONSTANTS Tasks, TermTask

VARIABLES accepted,   \* every task ever accepted, in the order of acceptance
          handled     \* every task executed or dropped as expired, in order

qvars == <<accepted, handled>>

Members(s) == {s[i] : i \in DOMAIN s}

Init == accepted = <<>> /\ handled = <<>>

\* A task is accepted at most once.
Accept(k) ==
    /\ k \notin Members(accepted)
    /\ accepted' = Append(accepted, k)
    /\ UNCHANGED handled

\* The oldest task that has not been handled is handled.
Handle ==
    /\ Len(handled) < Len(accepted)
    /\ handled' = Append(handled, accepted[Len(handled) + 1])
    /\ UNCHANGED accepted

\* Up to and including the terminating task, handling is an obligation.
MustHandle == TermTask \notin Members(handled) /\ Handle

Next == Handle \/ \E k \in Tasks \cup {TermTask} : Accept(k)

SafeSpec == Init /\ [][Next]_qvars

Spec == SafeSpec /\ WF_qvars(MustHandle)
=============================================================================
