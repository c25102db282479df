--------------------------- MODULE MCLightRequests ---------------------------
EXTENDS LightRequests
===============================================================================
