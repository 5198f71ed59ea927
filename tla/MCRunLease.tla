----------------------------- MODULE MCRunLease -----------------------------
EXTENDS RunLease
=============================================================================
