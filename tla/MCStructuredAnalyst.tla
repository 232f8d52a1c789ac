-------------------------- MODULE MCStructuredAnalyst --------------------------
\* Small instances of StructuredAnalyst for TLC.
EXTENDS StructuredAnalyst

CONSTANTS t1, t2
================================================================================
