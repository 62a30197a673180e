----------------------------- MODULE MCMailQueue ------------------------------
(* Small instances of MailQueue for TLC. *)
EXTENDS MailQueue

CONSTANTS m1, m2, sweeper, request
=============================================================================
