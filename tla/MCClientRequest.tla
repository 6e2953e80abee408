-------------------------- MODULE MCClientRequest --------------------------
EXTENDS ClientRequest
=============================================================================
