---------------------------- MODULE MCMailboxes -----------------------------
(* Instances of Mailboxes for TLC.                                         *)
EXTENDS Mailboxes, TLC

FullGrant == [refresh |-> TRUE, expires |-> TRUE]
BareGrant == [refresh |-> FALSE, expires |-> FALSE]
FullOrBare == {FullGrant, BareGrant}
OnlyFull == {FullGrant}
ProviderSymmetry == Permutations(Requests) \cup Permutations(Providers)
=============================================================================
