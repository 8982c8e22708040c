------------------------------ MODULE MCCloudRun ------------------------------
(***************************************************************************)
(* Two slices of one test, a delivery for each, and a third that is the    *)
(* first slice delivered again.  queueRun is refused one slice, or all; of *)
(* all, the first or none is queued regardless.                            *)
(***************************************************************************)
EXTENDS CloudRun

CONSTANTS i1, i2, e1, e2, e3, t1, t2

Carries == [e \in Exec |-> IF e = e2 THEN i2 ELSE i1]

SliceOfTest == [t \in Test |-> IF t = t2 THEN i2 ELSE i1]
Refusing == {[lost |-> {i1}, gone |-> {i1}], [lost |-> {i1, i2}, gone |-> {i2}],
             [lost |-> {i1, i2}, gone |-> {i1, i2}]}
===============================================================================
