----------------------------- MODULE MCItemSync -----------------------------
EXTENDS ItemSync

CONSTANTS n1, n2, e1, t1, i1
=============================================================================
