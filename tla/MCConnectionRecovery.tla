------------------------ MODULE MCConnectionRecovery ------------------------
(* Instances of ConnectionRecovery for TLC. *)
EXTENDS ConnectionRecovery, TLC

CONSTANTS hmip, url, t1, t2

OneInterface == {hmip}
WithUrl == {hmip, url}
TwoTasks == {t1, t2}
OneTask == {t1}
Symm == Permutations(TwoTasks)
=============================================================================
