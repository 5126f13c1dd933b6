--------------------------- MODULE MCProvisioning ---------------------------
(* Instances of Provisioning for TLC. *)
EXTENDS Provisioning

DefaultAccount == [user |-> "thao123", pass |-> "123456789", ctrl |-> "LOCAL"]
HomeOnline == [user |-> "home", pass |-> "secret", ctrl |-> "ONLINE"]
HomeOther  == [user |-> "home", pass |-> "typo", ctrl |-> "OTHER"]

TwoAccounts == {HomeOnline, HomeOther}

=============================================================================
