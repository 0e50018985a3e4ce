--------------------------- MODULE CardLifecycle ---------------------------
(***************************************************************************)
(* What the notification engine promises of each element (spec.md, "State *)
(* machine for a single element"): it is mounted, a dismiss trigger starts *)
(* its exit, and the exit ends with its removal.  The phases only move     *)
(* forward, and a dismissing element is always removed in the end.         *)
(***************************************************************************)
CONSTANT Elements

VARIABLE phase

Phases == {"uninitialized", "mounted", "dismissing", "removed"}

Init == phase = [e \in Elements |-> "uninitialized"]

\* mount(element): the lifecycle wiring is attached.
Mount(e) ==
    /\ phase[e] = "uninitialized"
    /\ phase' = [phase EXCEPT ![e] = "mounted"]

\* The first dismiss trigger (click, Escape, a timer) starts the exit.
Dismiss(e) ==
    /\ phase[e] = "mounted"
    /\ phase' = [phase EXCEPT ![e] = "dismissing"]

\* The exit transition has elapsed: the element is detached.
Remove(e) ==
    /\ phase[e] = "dismissing"
    /\ phase' = [phase EXCEPT ![e] = "removed"]

Next == \E e \in Elements : Mount(e) \/ Dismiss(e) \/ Remove(e)

\* The safety part: phases move forward one at a time.
SafetySpec == Init /\ [][Next]_phase

\* A dismissal always completes.
Spec == SafetySpec /\ \A e \in Elements : WF_phase(Remove(e))

TypeOK == phase \in [Elements -> Phases]

=============================================================================
