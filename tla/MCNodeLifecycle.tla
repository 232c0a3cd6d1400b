-------------------------- MODULE MCNodeLifecycle --------------------------
EXTENDS NodeLifecycle

CONSTANTS p1, p2, q1
=============================================================================
