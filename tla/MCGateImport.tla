---------------------------- MODULE MCGateImport ----------------------------
(* Two runs of one second, a checklist of three rows, and a csv that is    *)
(* graded, half graded, reordered, cut, repeated, extended or altered.     *)
EXTENDS GateImport

Row(r, m) == [id |-> r, sound |-> TRUE, mark |-> m]

MCCsvs ==
    {<<Row("a1", "y"), Row("a2", m), Row("u1", n)>> : m \in Marks, n \in {"y", "n"}}
    \cup {<<Row("u1", "y"), Row("a1", "y"), Row("a2", "y")>>,
          <<Row("a1", "y"), Row("a2", "y")>>,
          <<Row("a1", "y"), Row("u1", "y")>>,
          <<Row("a1", "y"), Row("a1", "y"), Row("a2", "y"), Row("u1", "y")>>,
          <<Row("a1", "y"), Row("a2", "y"), Row("u1", "y"), Row("x1", "y")>>,
          <<[Row("a1", "y") EXCEPT !.sound = FALSE], Row("a2", "y"), Row("u1", "y")>>,
          << >>}
=============================================================================
