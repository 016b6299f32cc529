------------------------------ MODULE MCRateLimit ------------------------------
EXTENDS RateLimiter
MCNeeds == {1, 2}
=============================================================================
