--------------------------- MODULE MCOAuthPending ---------------------------
(* Instance of the pending logins: as many contexts as can be in use at once. *)
EXTENDS OAuthPending

MCCtxs == 1..(Cardinality(Logins) + Cardinality(Polls))
=============================================================================
