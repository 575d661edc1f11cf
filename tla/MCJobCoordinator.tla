--------------------------- MODULE MCJobCoordinator ---------------------------
(***************************************************************************)
(* Instances of JobCoordinator for TLC.                                    *)
(***************************************************************************)
EXTENDS JobCoordinator, TLC

\* An unsatisfiable formula, and one with a single model.
NoModels == {}
OneModel == {[v \in 1..NumVars |-> TRUE]}

\* Every session declares every slot, can prove, and was sent by the directory
\* or came on its own.
HelloOf(assigned) ==
    [session: Session, slots: {Slot}, prover: {TRUE}, assigned: {assigned}]
Volunteers == HelloOf(FALSE)
Assigned == HelloOf(TRUE)

\* Proof work must wait for a session that can do it.
MixedProvers == {h \in [session: Session, slots: {Slot}, prover: BOOLEAN, assigned: {FALSE}] :
                    h.prover <=> h.session = CHOOSE s \in Session : TRUE}

\* A session may come back with fewer slots than it had.
AnySlots == [session: Session, slots: SUBSET Slot \ {{}}, prover: {TRUE}, assigned: {FALSE}]

SessionSymmetry == Permutations(Session)
=============================================================================
