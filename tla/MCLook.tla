------------------------------- MODULE MCLook -------------------------------
\* Look needs no definitions of its own: MCLook.cfg and MCLookStarve.cfg give
\* the constants their values.
EXTENDS Look
=============================================================================
