----------------------------- MODULE MCRelease -----------------------------
EXTENDS Release
=============================================================================
