--------------------------- MODULE MCRollingReplan ---------------------------
EXTENDS RollingReplan
=============================================================================
