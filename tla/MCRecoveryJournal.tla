-------------------------- MODULE MCRecoveryJournal --------------------------
(* Instances of RecoveryJournal: references w1, w2 and lifetimes h1, h2.     *)
EXTENDS RecoveryJournal

CONSTANTS w1, w2, h1, h2

SmallWindows == {w1, w2}
SmallHandles == {h1, h2}
OneWindow == {w1}
OnlyFirst == {h1}
Nobody == {}
Everybody == {h1, h2}
=============================================================================
