---- MODULE MCTransferRun ----
\* The sizes of a run come from the .cfg file.
EXTENDS TransferRun
====
