---- MODULE MCPgListener ----
EXTENDS PgListener
====
