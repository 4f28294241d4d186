----------------------------- MODULE MCRelease ------------------------------
EXTENDS Release, TLC
=============================================================================
