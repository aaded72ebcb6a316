---------------------------- MODULE MCPodsUpdate ----------------------------
EXTENDS PodsUpdate

MCUnset == Unset
=============================================================================
