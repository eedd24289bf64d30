----------------------------- MODULE MCAccounts -----------------------------
(* A finite instance of Accounts: see MCAccounts_archive.cfg. *)
EXTENDS Accounts
=============================================================================
