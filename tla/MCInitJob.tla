------------------------------ MODULE MCInitJob ------------------------------
EXTENDS InitJob
=============================================================================
