------------------------ MODULE MCMultiprocExecutor ------------------------
(* Small instances of MultiprocExecutor for TLC. *)
EXTENDS MultiprocExecutor

(* execute_model, execute_dummy_batch, and a utility call with and without  *)
(* a timeout                                                               *)
MCModel == [all |-> FALSE, timed |-> TRUE, model |-> TRUE]
MCDummyBatch == [all |-> FALSE, timed |-> FALSE, model |-> FALSE]
MCUtility == [all |-> TRUE, timed |-> FALSE, model |-> FALSE]
MCTimedUtility == [all |-> TRUE, timed |-> TRUE, model |-> FALSE]

MCKinds == {MCModel, MCDummyBatch, MCUtility, MCTimedUtility}
MCUtilities == {MCUtility}
=============================================================================
