------------------------------- MODULE MCLogship -------------------------------
EXTENDS Logship
=============================================================================
