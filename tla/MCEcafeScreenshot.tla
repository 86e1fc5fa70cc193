-------------------------- MODULE MCEcafeScreenshot --------------------------
EXTENDS EcafeScreenshot

CONSTANTS m1, m2, w1
=============================================================================
