----------------------------- MODULE MCHttpServer -----------------------------
\* Small instances of HttpServer for TLC.
EXTENDS HttpServer

CONSTANTS p1, p2, p3, g1, g2

\* Two POSTs with bodies of one or two chunks, one that is empty.
Sizes == [p \in Posts |-> IF p = p1 THEN 2 ELSE IF p = p2 THEN 1 ELSE 0]
===============================================================================
