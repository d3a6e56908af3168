----------------------------- MODULE MCTDigest -----------------------------
EXTENDS TDigest

CONSTANTS A, B

MCDigests == {A, B}
MCValues == {1, 2, 3}
=============================================================================
