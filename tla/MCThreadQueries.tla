-------------------------- MODULE MCThreadQueries --------------------------
EXTENDS ThreadQueries
CONSTANTS a1, a2
=============================================================================
