---- MODULE MCProgressListener ----
\* Objects and threads are model values of the .cfg file.  They are
\* interchangeable, but no symmetry is declared: the run checks a refinement
\* mapping and liveness.
EXTENDS ProgressListener
====
