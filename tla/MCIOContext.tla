---------------------------- MODULE MCIOContext ----------------------------
(* Values for model checking IOContext.                                    *)
EXTENDS IOContext

CONSTANTS h1, h2, h3, c1, c2

OneHandler == {h1}
TwoHandlers == {h1, h2}
ThreeHandlers == {h1, h2, h3}
NoHandlers == {}
OneCaller == {c1}
TwoCallers == {c1, c2}
=============================================================================
