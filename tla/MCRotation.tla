----------------------------- MODULE MCRotation -----------------------------
EXTENDS Rotation
=============================================================================
