------------------------------ MODULE MCBackends ------------------------------
EXTENDS Backends
=============================================================================
