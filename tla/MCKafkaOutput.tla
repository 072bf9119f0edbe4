--------------------------- MODULE MCKafkaOutput ---------------------------
\* Small instances of the Kafka output for TLC.
EXTENDS KafkaOutput
=============================================================================
