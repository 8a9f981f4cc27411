---------------------------- MODULE MCBlockDevice ----------------------------
EXTENDS BlockDevice
=============================================================================
