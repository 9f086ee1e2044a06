---------------------------- MODULE MC_OAuthToken ----------------------------
(***************************************************************************)
(* Two bootstraps, so that the credentials of OAuthToken can be replaced;  *)
(* a roll after the second refresh; two attempts, so that one              *)
(* can time out beside the next.  The endpoint refuses in a way the code   *)
(* recognises (Named), or not (Unnamed).                                   *)
(***************************************************************************)
EXTENDS OAuthToken

Named == {[status |-> 400, error |-> "invalid_grant"],
          [status |-> 401, error |-> "invalid_client"]}

\* One that answers a client it does not know (any more) with status 400.
Unnamed == {[status |-> 400, error |-> "invalid_client"]}
=============================================================================
