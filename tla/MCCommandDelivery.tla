------------------------- MODULE MCCommandDelivery -------------------------
EXTENDS CommandDelivery
=============================================================================
