--------------------------- MODULE MCSessionView ---------------------------
EXTENDS SessionView
=============================================================================
