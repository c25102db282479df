------------------------- MODULE MCConnectionLifecycle -------------------------
EXTENDS ConnectionLifecycle
=============================================================================
