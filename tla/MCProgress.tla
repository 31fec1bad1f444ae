----------------------------- MODULE MCProgress -----------------------------
\* The incremental parser's progress, for TLC.
EXTENDS ParserProgress, Texts
=============================================================================
