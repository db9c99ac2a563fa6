---------------------------- MODULE MCQuotaStore ----------------------------
(* Users whose quota is changed by a few amounts, with and without batching. *)
EXTENDS QuotaStore

WithAndWithout == BOOLEAN
=============================================================================
