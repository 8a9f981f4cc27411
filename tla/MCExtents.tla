------------------------------ MODULE MCExtents ------------------------------
EXTENDS Extents
=============================================================================
