--------------------------- MODULE MCTokenBucket ---------------------------
EXTENDS TokenBucketClients

MCUnlimited == -1
MCRates == {MCUnlimited, 0, 2, 3}
MCUnitBytes == {0, 1, 2, 4}
=============================================================================
