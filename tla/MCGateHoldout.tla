--------------------------- MODULE MCGateHoldout ---------------------------
(* TLC instance of GateHoldout: two pairs, and drafts that are one edit away *)
(* from a sound set: a text that was asked before, an expected chunk that    *)
(* does not exist, an answer too many.                                       *)
EXTENDS GateHoldout

Drafted(pair, text, language, answerable) ==
    [pair |-> pair, text |-> text, language |-> language, answerable |-> answerable,
     expected |-> IF answerable THEN {"c1"} ELSE {}]

Sound == << Drafted("p1", "a", "en", TRUE),  Drafted("p1", "b", "es", TRUE),
            Drafted("p2", "c", "en", FALSE), Drafted("p2", "d", "es", FALSE) >>

MCDrafts == {[Sound EXCEPT ![1].text = "s"],
             [Sound EXCEPT ![2].expected = {NoChunk}],
             [Sound EXCEPT ![3] = Drafted("p2", "c", "en", TRUE)]}
=============================================================================
