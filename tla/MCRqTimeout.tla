---------------------------- MODULE MCRqTimeout ----------------------------
EXTENDS RqTimeout
=============================================================================
