----------------------------- MODULE MCPimQueue -----------------------------
EXTENDS PimQueue
=============================================================================
