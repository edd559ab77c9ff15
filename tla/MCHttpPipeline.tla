--------------------------- MODULE MCHttpPipeline ---------------------------
EXTENDS HttpPipeline
=============================================================================
