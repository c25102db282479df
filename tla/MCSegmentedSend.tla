--------------------------- MODULE MCSegmentedSend ---------------------------
EXTENDS SegmentedSend
===============================================================================
