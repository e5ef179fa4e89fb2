--------------------------- MODULE MCEndpointLink ---------------------------
\* Two sends of Home Assistant through the endpoint.
EXTENDS EndpointLink
=============================================================================
