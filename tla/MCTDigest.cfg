CONSTANTS
    A = A
    B = B
    NaN = NaN
    Digests <- MCDigests
    Values <- MCValues
    Compression = 8
    MaxAdds = 4
    MaxMerges = 2
SPECIFICATION Spec
INVARIANT TDigestTypeOK
INVARIANT MassConserved
INVARIANT CentroidsSorted
INVARIANT PercentileCorrect
