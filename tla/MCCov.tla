-------------------------------- MODULE MCCov -------------------------------
(* Small instances of Cov for TLC.                                         *)
EXTENDS Cov

CONSTANTS p1, p2, o1, o2

Ask(src, process, object, confirmed, lifetime) ==
    [context |-> [src |-> src, process |-> process, object |-> object],
     confirmed |-> confirmed, lifetime |-> lifetime]

(* p1 and p2 may monitor the same object.  p1 may renew its subscription   *)
(* in another form, and has one for another object, which expires.         *)
MCRequests ==
    {Ask(p1, 1, o1, TRUE, 0), Ask(p1, 1, o1, FALSE, 0),
     Ask(p2, 1, o1, FALSE, 0), Ask(p1, 1, o2, TRUE, 1)}

MCService == {}
=============================================================================
