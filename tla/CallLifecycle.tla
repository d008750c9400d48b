---------------------------- MODULE CallLifecycle ----------------------------
(***************************************************************************)
(* What the order protocol promises about one hall call, with no message   *)
(* in it: a call is made at one elevator, the others learn of it, once     *)
(* everyone knows it it is due, it is served, everyone hears that, and     *)
(* only then does anyone forget it.  There is one way out: a served call   *)
(* may get tangled, when an elevator that has heard of the service takes   *)
(* an old broadcast of its own for news.  Then nothing is promised before  *)
(* everyone has forgotten the call and the button is pressed again.        *)
(* CallRefinement says how far the OrderManagers keep this promise.        *)
(***************************************************************************)

CONSTANT Node

VARIABLES
    stage,   \* how far the call has come
    knows,   \* the nodes that hold the call, in whatever state
    done     \* those of them that know it has been served

vars == <<stage, knows, done>>

TypeOK ==
    /\ stage \in {"none", "open", "due", "served", "tangled"}
    /\ knows \in SUBSET Node
    /\ done \in SUBSET knows

Init == stage = "none" /\ knows = {} /\ done = {}

\* A call that everyone knows may become due in the step that makes it known.
MaybeDue == stage' = "open" \/ (knows' = Node /\ stage' = "due")

\* A passenger presses; the previous call must be forgotten everywhere.
Press(n) ==
    /\ stage = "none" \/ (stage \in {"served", "tangled"} /\ knows = {})
    /\ knows' = {n}
    /\ MaybeDue
    /\ UNCHANGED done

Learn(n) ==
    /\ stage = "open" /\ n \notin knows
    /\ knows' = knows \cup {n}
    /\ MaybeDue
    /\ UNCHANGED done

Confirm ==
    /\ stage = "open" /\ knows = Node
    /\ stage' = "due"
    /\ UNCHANGED <<knows, done>>

\* An elevator serves the call, or hears that it has been served.
Serve(n) ==
    /\ stage \in {"due", "served"}
    /\ n \in knows \ done
    /\ stage' = "served"
    /\ done' = done \cup {n}
    /\ UNCHANGED knows

\* A node forgets the call only when everybody else who still holds it knows that
\* it has been served; it may hear of that in the same step.
Forget(n) ==
    /\ stage \in {"due", "served"}
    /\ n \in knows /\ knows \ {n} \subseteq done
    /\ stage' = "served"
    /\ knows' = knows \ {n}
    /\ done' = done \ {n}

\* A node that had forgotten the served call takes it up again, or one that knows
\* it is done forgets it without regard to the others.
Echo(n) ==
    /\ stage = "served" /\ stage' = "tangled"
    /\ \/ n \notin knows /\ knows' = knows \cup {n} /\ UNCHANGED done
       \/ n \in done /\ knows' = knows \ {n} /\ done' = done \ {n}

\* A tangled call may be done to anything until everyone has forgotten it.
Untangle == stage = "tangled" /\ UNCHANGED stage

Next ==
    \/ \E n \in Node : Press(n) \/ Learn(n) \/ Serve(n) \/ Forget(n) \/ Echo(n)
    \/ Confirm
    \/ Untangle

Spec == Init /\ [][Next]_vars
=============================================================================
