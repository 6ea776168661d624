---- MODULE MCNetTuning ----
\* Keys are model values: bbr and slowstart have conservative defaults, the
\* buffer size has none.
EXTENDS NetTuning
====
