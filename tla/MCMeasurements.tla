--------------------------- MODULE MCMeasurements ---------------------------
EXTENDS Measurements
\* Three of the six tables: the parent and two that refer to it.
MCOrder == <<"run", "latency", "size">>
=============================================================================
