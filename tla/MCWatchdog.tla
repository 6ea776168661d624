---- MODULE MCWatchdog ----
\* Half and Delay come from the .cfg files.
EXTENDS Watchdog
====
