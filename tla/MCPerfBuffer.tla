----------------------------- MODULE MCPerfBuffer -----------------------------
EXTENDS PerfBuffer

NoExplicit == <<>>
==============================================================================
