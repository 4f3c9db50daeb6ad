---------------------------- MODULE MCZutilWrite ----------------------------
EXTENDS ZutilWrite
=============================================================================
