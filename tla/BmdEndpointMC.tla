--------------------------- MODULE BmdEndpointMC ---------------------------
EXTENDS BmdEndpoint
=============================================================================
