----------------------------- MODULE MCAuthCache -----------------------------
(* Two processes with one request each. *)
EXTENDS AuthCache, TLC

CONSTANTS i1, i2, r1, r2

MCHome == r1 :> i1 @@ r2 :> i2

=============================================================================
