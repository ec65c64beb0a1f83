-------------------------- MODULE MCOrderLifecycle --------------------------
(* Model values for OrderLifecycle.                                        *)
EXTENDS OrderLifecycle, TLC

CONSTANTS c1, c2, u, r1, r2, r3, r4

OneCanceller == {c1}
TwoCancellers == {c1, c2}
NoLocking == {}
FirstLocks == {c1}
SecondLocks == {c2}
MCRefreshers == {r1, r2, r3, r4}
=============================================================================
