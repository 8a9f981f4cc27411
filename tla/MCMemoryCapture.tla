--------------------------- MODULE MCMemoryCapture ---------------------------
EXTENDS MemoryCaptureInv, TLC

CONSTANTS r1, r2

Interchangeable == Permutations(Ram)

=============================================================================
