------------------------------ MODULE MCParser ------------------------------
\* The incremental parser's safety, for TLC.
EXTENDS ParserProperties, Texts
=============================================================================
