-------------------------- MODULE MCCronScheduler --------------------------
(* The wake job, a job parked for approval, one message.                    *)
EXTENDS CronScheduler

=============================================================================
