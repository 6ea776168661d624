---- MODULE MCBenchmarkRun ----
\* The bounds come from the .cfg files.
EXTENDS BenchmarkRun
====
