----------------------------- MODULE MCBootstrap -----------------------------
EXTENDS Bootstrap
CONSTANTS i1, i2
MCInstances == {i1, i2}
=============================================================================
