----------------------- MODULE MCElasticsearchOutput -----------------------
\* Small instance of the Elasticsearch output for TLC.
EXTENDS ElasticsearchOutput
=============================================================================
