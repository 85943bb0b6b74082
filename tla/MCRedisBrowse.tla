---------------------------- MODULE MCRedisBrowse ----------------------------
(* Instances of RedisBrowse for TLC: two users and a session. *)
EXTENDS RedisBrowse

CONSTANTS u1, u2, s1, user, session

MCKeys == {u1, u2, s1}
MCPrefix == (u1 :> user) @@ (u2 :> user) @@ (s1 :> session)
MCBucket == (u1 :> 0) @@ (u2 :> 1) @@ (s1 :> 1)
MCExpiries == {-1, 5}
MCPersistent == {-1}

=============================================================================
