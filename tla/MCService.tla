------------------------------ MODULE MCService -------------------------------
EXTENDS Service
=============================================================================
