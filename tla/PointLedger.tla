---------------------------- MODULE PointLedger ----------------------------
(***************************************************************************)
(* What the storage wrapper promises, with no buffer, no tasks and no      *)
(* backends: every point it accepts is pending until it is delivered to    *)
(* some backend or shed, a point is shed only when more points are pending *)
(* than the capacity, every shed point is counted, and nothing is accepted *)
(* once the ledger is closed.  BatchingStorage implements this ledger when *)
(* its backends report what they stored and no task is cancelled.          *)
(***************************************************************************)
EXTENDS Naturals, FiniteSets

CONSTANT Capacity  \* how many points may be pending before any is shed

VARIABLES
    accepted,   \* number of points accepted; point p is the p-th of them
    pending,    \* accepted points with no outcome yet
    delivered,  \* points some backend holds
    shed,       \* points given up to bound the memory used
    shedCount,  \* the counter that reports them
    closed      \* nothing is accepted any more

ledgerVars == <<accepted, pending, delivered, shed, shedCount, closed>>

Init ==
    /\ accepted = 0
    /\ pending = {}
    /\ delivered = {}
    /\ shed = {}
    /\ shedCount = 0
    /\ closed = FALSE

\* Give up the points of S, which are pending out of the points of P.
Shed(P, S) ==
    /\ S \subseteq P
    /\ S # {} => Cardinality(P) > Capacity
    /\ pending' = P \ S
    /\ shed' = shed \cup S
    /\ shedCount' = shedCount + Cardinality(S)

\* Accept the next k points, shedding some if that exceeds the capacity.
Accept(k, S) ==
    /\ ~closed
    /\ accepted' = accepted + k
    /\ Shed(pending \cup (accepted + 1 .. accepted + k), S)
    /\ UNCHANGED <<delivered, closed>>

\* Every backend refused: the points stay pending, within the capacity.
Retry(S) ==
    /\ Shed(pending, S)
    /\ UNCHANGED <<accepted, delivered, closed>>

Deliver(D) ==
    /\ D \subseteq pending
    /\ delivered' = delivered \cup D
    /\ pending' = pending \ D
    /\ UNCHANGED <<accepted, shed, shedCount, closed>>

Close ==
    /\ closed' = TRUE
    /\ UNCHANGED <<accepted, pending, delivered, shed, shedCount>>

\* The points a step accepts are told by the counter, those it settles by the
\* sets: no bound on either is part of the promise.
Next ==
    \/ Accept(accepted' - accepted, shed' \ shed)
    \/ Retry(shed' \ shed)
    \/ Deliver(delivered' \ delivered)
    \/ Close

Spec == Init /\ [][Next]_ledgerVars
=============================================================================
