--------------------------- MODULE MCParsePipeline ---------------------------
EXTENDS ParsePipeline
=============================================================================
