-------------------------------- MODULE Bbmd --------------------------------
(***************************************************************************)
(* BACnet/IP broadcasts over several IP subnets: the BVLL handlers of      *)
(* basic/bbmd/h_bbmd.c, the foreign device table of datalink/bvlc.c and    *)
(* the renewal of a registration by datalink/dlenv.c.                      *)
(*                                                                         *)
(* Each subnet has a BBMD, which forwards broadcasts to the other BBMDs in *)
(* its broadcast distribution table and to the foreign devices registered  *)
(* with it.  Every node runs the handler of the default build,             *)
(* bvlc_bbmd_enabled_handler; only a BBMD has peers in its table.  One     *)
(* broadcast is sent in a behaviour: forwarding changes no table, so that  *)
(* two broadcasts do not meet.                                             *)
(*                                                                         *)
(* UDP may lose registrations and reorder datagrams.  The IP stack may or  *)
(* may not return a broadcast to its sender: Linux does, and bip_receive   *)
(* does not look.                                                          *)
(* NAT handling, which is off until it is asked for, the messages that     *)
(* read the tables and the results that answer requests are left out.      *)
(***************************************************************************)
EXTENDS Integers, Sequences, Functions, Bags

CONSTANTS
    Nodes,              \* B/IP addresses of the devices
    Subnet,             \* node -> IP subnet, also its broadcast address
    BBMDs,
    BBMD_Table,         \* node -> entries [dest_address, unicast]
    Foreign,            \* nodes that register as foreign devices
    Guests,             \* short-lived clients, in the order in which they
                        \* come: they register once and exit
    BBMD_Address,       \* either -> the BBMD it registers with
    MAX_FD_ENTRIES,
    BBMD_TTL_Seconds,
    GRACE,              \* 30 seconds
    UINT16_MAX,
    MaxFaults           \* bound: datagrams lost, restarts and deletions

ASSUME BbmdConstants ==
    /\ BBMDs \subseteq Nodes /\ Foreign \subseteq Nodes \ BBMDs
    /\ Guests \in Seq(Range(Guests)) /\ Range(Guests) \cap Nodes = {}
    /\ BBMD_Address \in [Foreign \cup Range(Guests) -> BBMDs]
    /\ MAX_FD_ENTRIES \in Nat /\ UINT16_MAX \in Nat
    /\ BBMD_TTL_Seconds \in 1 .. UINT16_MAX /\ GRACE \in Nat

VARIABLES
    FD_Table,           \* BBMD -> its foreign device table
    BBMD_Timer_Seconds, \* foreign device -> seconds until it renews
    wire,               \* bag of datagrams under way
    due,                \* nodes whose maintenance of this second is due
    loopback,           \* whether a sender gets its own broadcast
    visitors,           \* guests that have registered
    faults,             \* losses, restarts and deletions so far
    sender,             \* history: who sent the broadcast, "none" before and
                        \* "over" after it
    heard,              \* history: node -> copies given to its network layer
    owed,               \* history: nodes that have a claim to a copy
    granted             \* history: devices accepted and not put out since

tables == <<FD_Table, BBMD_Timer_Seconds, due>>
history == <<sender, heard, owed>>
vars == <<tables, wire, loopback, visitors, faults, history, granted>>

Slots == 1 .. MAX_FD_ENTRIES

(* The address left in an entry that is not valid is never read.           *)
EmptySlot == [valid |-> FALSE, dest_address |-> "none",
              ttl_seconds_remaining |-> 0]

Datagram(from, to, function, src) ==
    [from |-> from, to |-> to, function |-> function, src |-> src]

(* bip_send_mpdu: one copy for each node that the address reaches.         *)
Reached(n, address) ==
    IF address \in Nodes
    THEN {address}
    ELSE {m \in Nodes : Subnet[m] = address /\ (m = n => loopback)}

bip_send_mpdu(n, address, function, src) ==
    SetToBag({Datagram(n, m, function, src) : m \in Reached(n, address)})

bip_get_broadcast_addr(n) == Subnet[n]

(***************************************************************************)
(* The tables                                                              *)
(***************************************************************************)
bvlc_broadcast_distribution_table_entry_forward_address(e) ==
    IF e.unicast THEN e.dest_address ELSE Subnet[e.dest_address]

bbmd_bdt_member_mask_is_unicast(n, address) ==
    \E e \in BBMD_Table[n] :
        e.dest_address # n /\ e.dest_address = address /\ e.unicast

Live(n) ==
    IF n \notin BBMDs THEN {}
    ELSE {i \in Slots : /\ FD_Table[n][i].valid
                        /\ FD_Table[n][i].ttl_seconds_remaining # 0}

Registered(f) ==
    \E i \in Live(BBMD_Address[f]) :
        FD_Table[BBMD_Address[f]][i].dest_address = f

bvlc_foreign_device_table_maintenance_timer(entry) ==
    CASE ~entry.valid \/ entry.ttl_seconds_remaining = 0 -> entry
      [] entry.valid /\ entry.ttl_seconds_remaining = 1 -> EmptySlot
      [] OTHER -> [entry EXCEPT !.ttl_seconds_remaining = @ - 1]

Holding(table, address) ==
    {i \in Slots : table[i].valid /\ table[i].dest_address = address}

First(S) == {i \in S : \A j \in S : i <= j}

LeaseWithoutGrace == BBMD_TTL_Seconds

Lease ==
    IF BBMD_TTL_Seconds < UINT16_MAX - GRACE THEN BBMD_TTL_Seconds + GRACE
    ELSE UINT16_MAX

Accepted(address) ==
    [valid |-> TRUE, dest_address |-> address, ttl_seconds_remaining |-> Lease]

SlotForFreeFirst(table, address) ==
    First({i \in Slots : ~table[i].valid \/ table[i].dest_address = address})

(* The slots that a registration writes: the device's own, or the first    *)
(* one free, or none when the table is full.                               *)
SlotFor(table, address) ==
    IF Holding(table, address) # {} THEN First(Holding(table, address))
    ELSE First({i \in Slots : ~table[i].valid})

bvlc_foreign_device_table_entry_add(table, address) ==
    [i \in Slots |-> IF i \in SlotFor(table, address)
                     THEN Accepted(address) ELSE table[i]]

bvlc_foreign_device_table_entry_delete(table, address) ==
    [i \in Slots |->
        IF i \in First(Holding(table, address)) THEN EmptySlot ELSE table[i]]

(***************************************************************************)
(* Forwarding: what a node sends on for a broadcast that began at src      *)
(***************************************************************************)
bbmd_forward_npdu(n, src) ==
    bip_send_mpdu(n, bip_get_broadcast_addr(n), "forwarded", src)

bbmd_bdt_forward_npduToAll(n, src) ==
    BagUnion({bip_send_mpdu(n, e.dest_address, "forwarded", src) :
                  e \in BBMD_Table[n]})

(* The entries are skipped by the address they forward to: to self and     *)
(* back to the origin.                                                     *)
bbmd_bdt_forward_npdu(n, src) ==
    LET Addresses ==
            {bvlc_broadcast_distribution_table_entry_forward_address(e) :
                e \in BBMD_Table[n]} \ {n, src}
    IN  BagUnion({bip_send_mpdu(n, a, "forwarded", src) : a \in Addresses})

(* What is sent to a guest, which has exited, is not put on the wire.      *)
bbmd_fdt_forward_npdu(n, src) ==
    LET Sent == {i \in Live(n) : /\ FD_Table[n][i].dest_address \in Nodes
                                 /\ FD_Table[n][i].dest_address \notin {n, src}}
    IN  BagOfAll(LAMBDA i :
            Datagram(n, FD_Table[n][i].dest_address, "forwarded", src),
            SetToBag(Sent))

Hears(n) ==
    /\ heard' = [heard EXCEPT ![n] = @ + 1]
    /\ owed' = owed \ {n}
    /\ UNCHANGED sender

Drops == UNCHANGED history

(***************************************************************************)
(* bvlc_bbmd_enabled_handler: datagram d arrives at d.to                   *)
(***************************************************************************)
Arrives(d, function) == BagIn(d, wire) /\ d.function = function

Goes(d, sent) == wire' = (wire (-) SetToBag({d})) (+) sent

OriginalBroadcast(d) ==
    LET n == d.to
    IN  /\ Arrives(d, "original")
        /\ IF d.from = n THEN Goes(d, EmptyBag) /\ Drops
           ELSE /\ Goes(d, bbmd_fdt_forward_npdu(n, d.from)
                             (+) bbmd_bdt_forward_npdu(n, d.from))
                /\ Hears(n)
        /\ UNCHANGED <<tables, loopback, visitors, faults, granted>>

RebroadcastNone(n, d) == EmptyBag

RebroadcastAlways(n, d) ==
    IF n \in BBMDs
    THEN bip_send_mpdu(n, bip_get_broadcast_addr(n), "forwarded", d.src)
    ELSE EmptyBag

Rebroadcast(n, d) ==
    IF bbmd_bdt_member_mask_is_unicast(n, d.from)
    THEN bip_send_mpdu(n, bip_get_broadcast_addr(n), "forwarded", d.src)
    ELSE EmptyBag

ForwardedNpdu(d) ==
    LET n == d.to
    IN  /\ Arrives(d, "forwarded")
        /\ IF d.src = n THEN Goes(d, EmptyBag) /\ Drops
           ELSE /\ Goes(d, Rebroadcast(n, d) (+) bbmd_fdt_forward_npdu(n, d.src))
                /\ Hears(n)
        /\ UNCHANGED <<tables, loopback, visitors, faults, granted>>

(* The sender need not be in the table, and the NPDU is not for the BBMD   *)
(* itself: it hears only the copy that its own broadcast brings back.      *)
DistributeBroadcast(d) ==
    LET n == d.to
    IN  /\ Arrives(d, "distribute")
        /\ Goes(d, bbmd_forward_npdu(n, d.from)
                     (+) bbmd_fdt_forward_npdu(n, d.from)
                     (+) bbmd_bdt_forward_npdu(n, d.from))
        /\ Drops
        /\ UNCHANGED <<tables, loopback, visitors, faults, granted>>

AddEntry(n, address) ==
    /\ FD_Table' = [FD_Table EXCEPT
           ![n] = bvlc_foreign_device_table_entry_add(@, address)]
    /\ granted' = IF SlotFor(FD_Table[n], address) # {}
                  THEN granted \cup ({address} \cap Foreign) ELSE granted

RegisterForeignDevice(d) ==
    /\ Arrives(d, "register")
    /\ AddEntry(d.to, d.from)
    /\ Goes(d, EmptyBag)
    /\ UNCHANGED <<BBMD_Timer_Seconds, due, loopback, visitors, faults, history>>

(* The registration of a guest, whose sending has no other effect.         *)
GuestRegisters ==
    /\ visitors < Len(Guests) /\ visitors' = visitors + 1
    /\ LET g == Guests[visitors'] IN AddEntry(BBMD_Address[g], g)
    /\ UNCHANGED <<BBMD_Timer_Seconds, wire, due, loopback, faults, history>>

Fault == faults < MaxFaults /\ faults' = faults + 1

(* A device that leaves the table loses its claim to the broadcast.        *)
PutOut(S) ==
    /\ granted' = granted \ S
    /\ owed' = owed \ S
    /\ UNCHANGED <<BBMD_Timer_Seconds, wire, due, loopback, visitors,
                   sender, heard>>

(* A Delete-Foreign-Device-Table-Entry from an operator's tool.            *)
DeleteForeignDevice(n, f) ==
    /\ Fault
    /\ FD_Table' = [FD_Table EXCEPT
           ![n] = bvlc_foreign_device_table_entry_delete(@, f)]
    /\ PutOut({f})

(* bvlc_init: a BBMD restarts.  The foreign device table is in RAM, the    *)
(* broadcast distribution table is configured again.                       *)
bvlc_init(n) ==
    /\ Fault
    /\ FD_Table' = [FD_Table EXCEPT ![n] = [i \in Slots |-> EmptySlot]]
    /\ PutOut({f \in Foreign : BBMD_Address[f] = n})

(***************************************************************************)
(* bvlc_send_pdu: a node broadcasts                                        *)
(***************************************************************************)
Claims(n) ==
    {m \in Nodes \ {n} :
        /\ m \in Foreign => Registered(m)
        /\ n \in Foreign /\ m = BBMD_Address[n] => loopback}

bvlc_send_pdu(n) ==
    /\ sender = "none"
    /\ wire' = wire (+)
         (IF n \in Foreign
          THEN bip_send_mpdu(n, BBMD_Address[n], "distribute", n)
          ELSE bip_send_mpdu(n, bip_get_broadcast_addr(n), "original", n)
                 (+) bbmd_fdt_forward_npdu(n, n)
                 (+) bbmd_bdt_forward_npdu(n, n))
    /\ sender' = n
    /\ owed' = Claims(n)
    /\ UNCHANGED <<tables, loopback, visitors, faults, heard, granted>>

(***************************************************************************)
(* Time.  In each second every node runs its maintenance once; that of an  *)
(* empty table does nothing.                                               *)
(***************************************************************************)

(* Assumption on the network: a datagram takes less than a second.  A      *)
(* broadcast is over then, and what was heard of it is forgotten.          *)
Second ==
    /\ due = {} /\ wire = EmptyBag
    /\ due' = {n \in BBMDs : Live(n) # {}} \cup Foreign
    /\ sender' = IF sender = "none" THEN "none" ELSE "over"
    /\ heard' = [n \in Nodes |-> 0]
    /\ UNCHANGED <<FD_Table, BBMD_Timer_Seconds, wire, loopback, visitors,
                   faults, owed, granted>>

bvlc_maintenance_timer(n) ==
    /\ n \in due /\ n \in BBMDs
    /\ FD_Table' = [FD_Table EXCEPT ![n] =
           [i \in Slots |-> bvlc_foreign_device_table_maintenance_timer(@[i])]]
    /\ owed' = owed \ {f \in Foreign : Registered(f) /\ ~Registered(f)'}
    /\ due' = due \ {n}
    /\ UNCHANGED <<BBMD_Timer_Seconds, wire, loopback, visitors, faults,
                   sender, heard, granted>>

bvlc_register_with_bbmd(f, bbmd) == bip_send_mpdu(f, bbmd, "register", f)

dlenv_maintenance_timerOnce(f) ==
    /\ f \in due /\ f \in Foreign
    /\ IF BBMD_Timer_Seconds[f] > 1
       THEN /\ BBMD_Timer_Seconds' = [BBMD_Timer_Seconds EXCEPT ![f] = @ - 1]
            /\ UNCHANGED wire
       ELSE /\ BBMD_Timer_Seconds' = [BBMD_Timer_Seconds EXCEPT ![f] = 0]
            /\ wire' = IF BBMD_Timer_Seconds[f] = 0 THEN wire
                       ELSE wire (+) bvlc_register_with_bbmd(f, BBMD_Address[f])
    /\ due' = due \ {f}
    /\ UNCHANGED <<FD_Table, loopback, visitors, faults, history, granted>>

dlenv_maintenance_timer(f) ==
    /\ f \in due /\ f \in Foreign
    /\ IF BBMD_Timer_Seconds[f] > 1
       THEN /\ BBMD_Timer_Seconds' = [BBMD_Timer_Seconds EXCEPT ![f] = @ - 1]
            /\ UNCHANGED wire
       ELSE /\ BBMD_Timer_Seconds' =
                   [BBMD_Timer_Seconds EXCEPT ![f] = BBMD_TTL_Seconds]
            /\ wire' = wire (+) bvlc_register_with_bbmd(f, BBMD_Address[f])
    /\ due' = due \ {f}
    /\ UNCHANGED <<FD_Table, loopback, visitors, faults, history, granted>>

(* A registration is lost.  A lost copy of a broadcast only takes from     *)
(* what is heard: no property here is about it.                            *)
Lose(d) ==
    /\ Arrives(d, "register")
    /\ Fault
    /\ Goes(d, EmptyBag)
    /\ granted' = granted \ {d.from}
    /\ UNCHANGED <<tables, loopback, visitors, history>>

(* A foreign device sends its first registration when it starts.           *)
Init ==
    /\ FD_Table = [n \in BBMDs |-> [i \in Slots |-> EmptySlot]]
    /\ BBMD_Timer_Seconds = [f \in Foreign |-> BBMD_TTL_Seconds]
    /\ wire = SetToBag({Datagram(f, BBMD_Address[f], "register", f) : f \in Foreign})
    /\ due = {}
    /\ loopback \in BOOLEAN
    /\ visitors = 0
    /\ faults = 0
    /\ sender = "none"
    /\ heard = [n \in Nodes |-> 0]
    /\ owed = {}
    /\ granted = {}

Deliver ==
    \E d \in BagToSet(wire) :
        \/ OriginalBroadcast(d) \/ ForwardedNpdu(d) \/ DistributeBroadcast(d)
        \/ RegisterForeignDevice(d)

Maintenance ==
    \E n \in due : bvlc_maintenance_timer(n) \/ dlenv_maintenance_timer(n)

Next ==
    \/ Deliver
    \/ Maintenance
    \/ Second
    \/ \E n \in Nodes : bvlc_send_pdu(n)
    \/ GuestRegisters
    \/ \E d \in BagToSet(wire) : Lose(d)
    \/ \E n \in BBMDs : bvlc_init(n)
    \/ \E f \in Foreign : DeleteForeignDevice(BBMD_Address[f], f)

(* The network delivers what it does not lose, main loops run and time     *)
(* passes.                                                                 *)
Spec == Init /\ [][Next]_vars
             /\ WF_vars(Deliver) /\ WF_vars(Maintenance) /\ WF_vars(Second)

(***************************************************************************)
(* Properties                                                              *)
(***************************************************************************)

(* A broadcast does not multiply: an ordinary device hears it at most      *)
(* once.  A BBMD and a foreign device hear it at most once, or twice where *)
(* the IP stack returns the BBMD's own Forwarded-NPDU to it: the handler   *)
(* takes that copy for one from a peer and serves the foreign device table *)
(* again.                                                                  *)
NoStorm ==
    \A n \in Nodes :
        heard[n] <= IF loopback /\ n \in BBMDs \cup Foreign THEN 2 ELSE 1

(* "Send it to each IP subnet in its BDT with the exception of its own":   *)
(* no Forwarded-NPDU goes to the subnet on which the broadcast began.      *)
NotBackToItsSubnet ==
    \A d \in BagToSet(wire) :
        d.function = "forwarded" /\ d.to # d.src =>
            Subnet[d.to] # Subnet[d.src]

(* A device has one entry at most, in whichever slots others come and go:  *)
(* otherwise it would hear every broadcast more than once.                 *)
OneEntryEach ==
    \A n \in BBMDs : \A i, j \in Live(n) :
        FD_Table[n][i].dest_address = FD_Table[n][j].dest_address => i = j

(* The grace period covers the delay of a renewal and the order in which   *)
(* the two nodes run their timers: a device that was accepted and whose    *)
(* renewals are not lost is never put out.                                 *)
StaysRegistered == \A f \in granted : Registered(f)

(* A broadcast of which no copy is lost reaches every node that Claims     *)
(* names: the other nodes of every subnet and every foreign device that    *)
(* stays registered; a BBMD that is handed it by a foreign device only     *)
(* where the IP stack returns its own broadcast to it.                     *)
EveryoneHears == owed # {} ~> owed = {}

(* After the last loss, restart, deletion and guest, a foreign device is   *)
(* registered for good, even if the table was full when it first asked.    *)
ComesBack == \A f \in Foreign : <>[]Registered(f)
=============================================================================
