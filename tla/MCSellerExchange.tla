------------------------- MODULE MCSellerExchange -------------------------
EXTENDS SellerExchange

CONSTANTS s1

\* Two peers on one host, on different ports.
MCPeers == {[host |-> "h", port |-> 1], [host |-> "h", port |-> 2]}
=============================================================================
