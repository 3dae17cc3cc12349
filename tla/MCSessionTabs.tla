------------------------------ MODULE MCSessionTabs ------------------------------
(* SessionTabs for TLC: tabs, and sessions of a kind, are interchangeable. *)
EXTENDS SessionTabs, TLC

IdSymmetry == Permutations(Tabs) \cup Permutations(Sessions \ Doubles)

=================================================================================
