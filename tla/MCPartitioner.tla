--------------------------- MODULE MCPartitioner ---------------------------
\* Small instances of the Kafka partitioner for TLC.
EXTENDS Partitioner

CONSTANTS k1, k2   \* keys
=============================================================================
