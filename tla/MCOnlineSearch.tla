--------------------------- MODULE MCOnlineSearch ---------------------------
(***************************************************************************)
(* OnlineSearch on a small instance: two searches of one page.              *)
(***************************************************************************)
EXTENDS OnlineSearch

CONSTANTS t1, t2, gui, pool, address

OneCaller == {gui}
OneWaiter == {pool}
TwoThreads == {t1, t2}
OneBase == {address}

=============================================================================
