----------------------------- MODULE MCPipeline -----------------------------
EXTENDS Pipeline

CONSTANTS t1, t2, t3, t4

NoneOrFirst == {{}, {t1}}
==============================================================================
