-------------------------- MODULE MCBuyerExchange --------------------------
EXTENDS BuyerExchange
CONSTANTS s1, p1, c1, c2
=============================================================================
