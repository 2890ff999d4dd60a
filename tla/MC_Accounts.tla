----------------------------- MODULE MC_Accounts -----------------------------
(***************************************************************************)
(* Two users, whose names are those at their providers, and the names they *)
(* may ask for: a new one, one the regular expression does not match, and  *)
(* the one the other user is, or will be, registered with.                 *)
(***************************************************************************)
EXTENDS Accounts, TLC

CONSTANTS Ann, Bob, AnnName, BobName, NewName, BadName

TwoUsers   == {Ann, Bob}
TwoProviders == Ann :> "github" @@ Bob :> "twitter"
TwoDefault == Ann :> AnnName @@ Bob :> BobName
TwoWanted  == {NewName, BadName, BobName}
TwoValid   == {BobName, NewName}  \* Ann's has a hyphen
TwoNames   == {AnnName, BobName, NewName, BadName}
\* Nobody asks for a name that is given at registration.
FreshWanted == {NewName}

Symmetric == Permutations(Workers)
=============================================================================
