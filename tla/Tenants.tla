------------------------------- MODULE Tenants -------------------------------
(***************************************************************************)
(* What the parts of the service that act for an agency share: the agencies *)
(* (db.py, table agencies) and the requests that are served at a time.      *)
(***************************************************************************)
CONSTANTS
  Agency,
  Request,       \* bound: requests in progress at a time
  None

=============================================================================
