----------------------------- MODULE MCMcpWatch -----------------------------
EXTENDS McpWatch

\* Model-checking instance; the bounds are in the .cfg files.
=============================================================================
