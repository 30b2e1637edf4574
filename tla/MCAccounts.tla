----------------------------- MODULE MCAccounts -----------------------------
(* A small instance of Accounts: two users, two addresses and one OAuth    *)
(* subject.  Signatures are verified on the chain of the fallback row, so  *)
(* that the rows sign-ins make meet.                                       *)
EXTENDS Accounts

CONSTANTS a1, a2, g1

MCOAuthWallet == [s \in Subjects |-> a1]
=============================================================================
