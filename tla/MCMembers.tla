----------------------------- MODULE MCMembers -----------------------------
(* A store with its owner and another user, each with a home address that  *)
(* the other may link as well.  The other user owns another store.         *)
EXTENDS Members, TLC

MCUsers == {"u1", "u2"}
MCAddresses == {"a1", "a2"}
MCHome == [u \in MCUsers |-> IF u = "u1" THEN "a1" ELSE "a2"]
MCElsewhere == {<<"u2", "MERCHANT_OWNER">>}
MCIds == Permutations(Invitations) \cup Permutations(Events)
=============================================================================
