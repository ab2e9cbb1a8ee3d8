-------------------------- MODULE MCWebhookDispatcher --------------------------
(***************************************************************************)
(* The instance of WebhookDispatcher for TLC.  Batch is 1 there, below the *)
(* number of rows that can be due, so that the limit of a tick binds.  The *)
(* run has a temporal property and uses no symmetry.                       *)
(***************************************************************************)
EXTENDS WebhookDispatcher
===============================================================================
