---------------------------- MODULE MCMasterCells ----------------------------
EXTENDS MasterCells
==============================================================================
