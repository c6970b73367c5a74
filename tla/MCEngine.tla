------------------------------- MODULE MCEngine -------------------------------
EXTENDS EngineProps
CONSTANTS t, d, w1, b1
SomeForbidden == {<<t, 1>>, <<d, 1>>, <<d, Spans + 1>>}
=============================================================================
