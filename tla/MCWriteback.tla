----------------------------- MODULE MCWriteback -----------------------------
EXTENDS Writeback
=============================================================================
