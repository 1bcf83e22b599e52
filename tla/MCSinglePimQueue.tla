-------------------------- MODULE MCSinglePimQueue --------------------------
EXTENDS SinglePimQueue
=============================================================================
