---------------------------- MODULE MCConnector ----------------------------
(* Connector for TLC: two ordinary connectors and two that throttle each    *)
(* call, one of them with a bucket that never refills.                      *)
EXTENDS Connector

Setting(throttled, capacity, rate, retries, threshold, pages) ==
  [throttled |-> throttled, capacity |-> capacity, rate |-> rate,
   retries |-> retries, threshold |-> threshold, pages |-> pages,
   recovery |-> 1]

AllSettings == {Setting(FALSE, 3, 1, 0, 1, 1), Setting(FALSE, 2, 1, 1, 2, 1),
                Setting(TRUE, 2, 1, 0, 2, 2), Setting(TRUE, 3, 0, 1, 2, 2)}
=============================================================================
