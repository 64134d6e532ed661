----------------------------- MODULE MCAccounts -----------------------------
(* An instance of Accounts for TLC.                                        *)
EXTENDS Accounts

CONSTANTS phone, tablet

TwoDevices == {phone, tablet}
=============================================================================
