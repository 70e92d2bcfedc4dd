-------------------------- MODULE MCLPushDelivery --------------------------
EXTENDS LPushDelivery
CONSTANTS k1, k2
MCTo     == <<k1, k2, k1, k1>>
MCToFive == <<k1, k2, k1, k1, k2>>
=============================================================================
