---------------------------- MODULE MCConfStore ----------------------------
EXTENDS ConfStore
============================================================================
