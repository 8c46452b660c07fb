--------------------------- MODULE MCPmsmControl ---------------------------
\* Bounds of the PmsmControl runs are the constants of their configurations.
EXTENDS PmsmControl
=============================================================================
