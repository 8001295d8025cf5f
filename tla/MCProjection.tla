---------------------------- MODULE MCProjection ----------------------------
(***************************************************************************)
(* Values for the model checking of Projection.                            *)
(***************************************************************************)
EXTENDS Projection

CONSTANTS w1, w2, o1

OneWorker     == {w1}
TwoWorkers    == {w1, w2}
NoRebuilder   == {}
OneRebuilder  == {o1}
=============================================================================
