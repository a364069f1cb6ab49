----------------------------- MODULE MCJobTable -----------------------------
EXTENDS JobTable
=============================================================================
