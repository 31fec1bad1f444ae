------------------------------ MODULE MCWhole ------------------------------
\* The two parsers together, for TLC.
EXTENDS Agreement, Texts
=============================================================================
