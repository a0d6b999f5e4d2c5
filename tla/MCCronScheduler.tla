---- MODULE MCCronScheduler ----
\* Small instances of CronScheduler.
EXTENDS CronScheduler
====
