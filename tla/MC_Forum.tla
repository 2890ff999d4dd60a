------------------------------ MODULE MC_Forum -------------------------------
(***************************************************************************)
(* Two users, each of whom may take the name of the other, who may keep it *)
(* or have left it: a name is nobody's, one account's or both accounts'; a *)
(* text without mentions and one that mentions both names, of which one    *)
(* account is told twice if it changes its name in between.                *)
(***************************************************************************)
EXTENDS Forum, TLC

CONSTANTS Ann, Bob, AnnName, BobName

TwoUsers == {Ann, Bob}
TwoNames == {AnnName, BobName}
TwoSignedIn == Ann :> AnnName @@ Bob :> BobName
TwoTexts == {<<>>, <<AnnName, BobName>>}
Topic(c, k) == [by |-> AnnName, text |-> <<>>, category |-> c, last |-> k, replies |-> <<>>]
ThreeTopics == <<Topic(1, 1), Topic(2, 2), Topic(1, 3)>>

Symmetric == Permutations(Workers)
=============================================================================
