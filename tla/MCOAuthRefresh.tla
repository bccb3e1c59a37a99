---------------------------- MODULE MCOAuthRefresh ----------------------------
(* Two processes with a refresh cycle each; one serves requests, the other an *)
(* administrator.                                                             *)
EXTENDS OAuthRefresh, TLC

CONSTANTS b1, b2, r1, a1, p1, p2

MCProcessOf == b1 :> p1 @@ r1 :> p1 @@ b2 :> p2 @@ a1 :> p2

=============================================================================
