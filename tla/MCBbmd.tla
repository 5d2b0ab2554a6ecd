------------------------------- MODULE MCBbmd -------------------------------
(* Two subnets with a BBMD and an ordinary device each, and a foreign      *)
(* device on a third.  The BBMDs are listed with unicast masks, or with    *)
(* the masks of directed broadcasts.                                       *)
EXTENDS Bbmd

MCNodes == {"bbmd1", "bbmd2", "dev1", "dev2", "fd"}
MCSubnet == [bbmd1 |-> "net1", dev1 |-> "net1", bbmd2 |-> "net2",
             dev2 |-> "net2", fd |-> "net3"]
MCBBMDs == {"bbmd1", "bbmd2"}
MCHome == [f \in {"fd", "g1", "g2"} |-> "bbmd1"]
MCGuests == <<"g1", "g2">>

Table(unicast) ==
    [n \in MCNodes |->
        {[dest_address |-> b, unicast |-> unicast] :
            b \in IF n \in MCBBMDs THEN MCBBMDs ELSE {n}}]
MCUnicast == Table(TRUE)
MCDirected == Table(FALSE)
=============================================================================
