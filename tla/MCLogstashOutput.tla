-------------------------- MODULE MCLogstashOutput --------------------------
\* Small instance of the Logstash output for TLC.
EXTENDS LogstashOutput
=============================================================================
