-------------------------- MODULE MCAdministration --------------------------
(* A small instance of Administration for TLC.                              *)
EXTENDS Administration, TLC

SetCapacity(n, drained) == [kind |-> "set-capacity", capacity |-> n, drain |-> drained]
Plain(kind) == [kind |-> kind, capacity |-> 1, drain |-> FALSE]

MCCommand == {SetCapacity(2, TRUE), SetCapacity(1, TRUE), SetCapacity(2, FALSE),
              SetCapacity(3, TRUE), Plain("drain"), Plain("resume"), Plain("status")}

Symmetry == Permutations(Operator)
=============================================================================
