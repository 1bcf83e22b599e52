--------------------------- MODULE MCPimHandshake ---------------------------
EXTENDS PimHandshake
=============================================================================
