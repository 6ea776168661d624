---- MODULE MCMultiNIC ----
\* The number of cards comes from the .cfg files.
EXTENDS MultiNIC
====
