----------------------------- MODULE MCMailbox -----------------------------
(* Instances of Mailbox for TLC.  The posters are not taken to be symmetric:
   the run checks a liveness property.                                     *)
EXTENDS Mailbox
=============================================================================
