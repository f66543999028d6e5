------------------------------ MODULE MCSoftirq ------------------------------
EXTENDS CmSoftirq
CONSTANTS c1, c2, k1, k2
=============================================================================
