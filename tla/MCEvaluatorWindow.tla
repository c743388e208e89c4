--------------------------- MODULE MCEvaluatorWindow ---------------------------
\* EvaluatorWindow for TLC: the third reading was measured first, and is far off.
EXTENDS EvaluatorWindow

MCSamples == <<[at |-> 2, value |-> 0], [at |-> 3, value |-> 1], [at |-> 1, value |-> 9]>>
=============================================================================
