----------------------------- MODULE MCNdpList ------------------------------
EXTENDS NdpList
=============================================================================
