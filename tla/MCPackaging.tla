---------------------------- MODULE MCPackaging -----------------------------
EXTENDS Packaging
=============================================================================
