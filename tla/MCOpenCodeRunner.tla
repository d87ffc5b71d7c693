--------------------------- MODULE MCOpenCodeRunner ---------------------------
(* Two invocations of one agent, the first of which abortAll may also find.  *)
EXTENDS OpenCodeRunner

CONSTANTS a1, driver, abortAll
=============================================================================
