------------------------------ MODULE BbmdProofs -----------------------------
(***************************************************************************)
(* The foreign device tables and the way of a broadcast, for any number of *)
(* subnets, BBMDs, foreign devices, guests, table entries and faults.      *)
(***************************************************************************)
EXTENDS Bbmd, TLAPS, WellFoundedInduction

-----------------------------------------------------------------------------
(* The invariants.                                                         *)

EntryType ==
    [valid : BOOLEAN, dest_address : Foreign \cup Range(Guests) \cup {"none"},
     ttl_seconds_remaining : 0 .. UINT16_MAX]

(* A table holds a device once, and no entry whose time is over.           *)
TableOK(table) ==
    /\ table \in [Slots -> EntryType]
    /\ \A i \in Slots : table[i].valid =>
         /\ table[i].ttl_seconds_remaining # 0
         /\ table[i].dest_address \in Foreign \cup Range(Guests)
    /\ \A i, j \in Slots :
         /\ table[i].valid /\ table[j].valid
         /\ table[i].dest_address = table[j].dest_address
         => i = j

TablesOK ==
    /\ FD_Table \in [BBMDs -> [Slots -> EntryType]]
    /\ \A n \in BBMDs : TableOK(FD_Table[n])
    /\ visitors \in Nat

Registration(f) == Datagram(f, BBMD_Address[f], "register", f)

UnderWay(f) == Registration(f) \in DOMAIN wire

(* A registration under way was sent in this second by a foreign device,   *)
(* to its BBMD, and the timer of the next one has been set.                *)
RegistrationsOK ==
    /\ BBMD_Timer_Seconds \in [Foreign -> 1 .. BBMD_TTL_Seconds]
    /\ granted \subseteq Foreign
    /\ \A d \in DOMAIN wire : d.function = "register" =>
         /\ wire[d] \in Nat \ {0}
         /\ \E f \in Foreign : d = Registration(f)
    /\ \A f \in Foreign : UnderWay(f) =>
         /\ f \notin due
         /\ BBMD_Timer_Seconds[f] = BBMD_TTL_Seconds

Pending(n) == IF n \in due THEN 1 ELSE 0

(* The seconds that an entry must last beyond the maintenance still due:   *)
(* a second more than the device lets pass until it renews.                *)
Needed(f) ==
    IF UnderWay(f) THEN 1 ELSE BBMD_Timer_Seconds[f] - Pending(f) + 1

Lasts(f) ==
    \E i \in Slots :
        LET entry == FD_Table[BBMD_Address[f]][i]
        IN /\ entry.valid /\ entry.dest_address = f
           /\ entry.ttl_seconds_remaining - Pending(BBMD_Address[f]) >= Needed(f)

LeaseInv == TablesOK /\ RegistrationsOK /\ (\A f \in granted : Lasts(f))

-----------------------------------------------------------------------------
(* The tables.                                                             *)

(* The loops over a table stop at the first hit.                           *)
LEMMA FirstOne ==
    ASSUME NEW S, S \subseteq Slots
    PROVE  /\ First(S) \subseteq S
           /\ S # {} => First(S) # {}
           /\ \A i, j \in First(S) : i = j
<1>1. S \subseteq Nat
  BY BbmdConstants DEF Slots
<1>2. S # {} => \E x \in S : \A y \in S : x <= y
  <2>. SUFFICES ASSUME S # {}
                PROVE  \E x \in S : \A y \in S : x <= y
    OBVIOUS
  <2>1. PICK x \in S : \A y \in S : ~ (<<y, x>> \in OpToRel(<, Nat))
    BY <1>1, NatLessThanWellFounded, WFMin
  <2>2. ASSUME NEW y \in S
        PROVE  x <= y
    <3>1. y \in Nat /\ x \in Nat
      BY <1>1
    <3>2. ~ (y < x)
      BY <2>1, <3>1, Zenon DEF OpToRel
    <3>. QED  BY <3>1, <3>2
  <2>. QED  BY <2>2
<1>3. \A i, j \in First(S) : i = j
  BY <1>1 DEF First
<1>. QED  BY <1>2, <1>3 DEF First

LEMMA EmptySlotType == EmptySlot \in EntryType /\ EmptySlot.valid = FALSE
BY BbmdConstants DEF EmptySlot, EntryType

LEMMA LeaseType == Lease \in 1 .. UINT16_MAX
BY BbmdConstants DEF Lease

(* A registration writes one slot, which no other device has.              *)
LEMMA SlotForEffect ==
    ASSUME NEW table, TableOK(table), NEW address
    PROVE  /\ SlotFor(table, address) \subseteq Slots
           /\ \A i, j \in SlotFor(table, address) : i = j
           /\ \A i \in SlotFor(table, address) : \A j \in Slots :
                 table[j].valid /\ table[j].dest_address = address => j = i
           /\ \A i \in SlotFor(table, address) :
                 table[i].valid => table[i].dest_address = address
           /\ Holding(table, address) # {} => SlotFor(table, address) # {}
<1>. DEFINE H == Holding(table, address)
            F == {i \in Slots : ~table[i].valid}
<1>1. H \subseteq Slots /\ F \subseteq Slots
  BY DEF Holding
<1>2. SlotFor(table, address) = IF H # {} THEN First(H) ELSE First(F)
  BY DEF SlotFor
<1>3. \A i, j \in H : i = j
  BY DEF Holding, TableOK
<1>4. \A j \in Slots : j \in H <=> table[j].valid /\ table[j].dest_address = address
  BY DEF Holding
<1>5. \A j \in F : j \in Slots /\ ~table[j].valid
  OBVIOUS
<1>6. /\ First(H) \subseteq H /\ (H # {} => First(H) # {})
      /\ First(F) \subseteq F /\ (\A i, j \in First(F) : i = j)
  <2>. HIDE DEF H, F
  <2>. QED  BY <1>1, FirstOne
<1>. HIDE DEF F, H
<1>7. CASE H # {}
  BY <1>1, <1>2, <1>3, <1>4, <1>6, <1>7 DEF H
<1>8. CASE H = {}
  BY <1>1, <1>2, <1>4, <1>5, <1>6, <1>8 DEF H
<1>. QED  BY <1>7, <1>8

LEMMA EntryAdded ==
    ASSUME NEW table, TableOK(table), NEW address \in Foreign \cup Range(Guests)
    PROVE  LET new == bvlc_foreign_device_table_entry_add(table, address)
           IN /\ TableOK(new)
              /\ \A i \in SlotFor(table, address) :
                    i \in Slots /\ new[i] = Accepted(address)
              /\ \A i \in Slots :
                    table[i].valid /\ table[i].dest_address # address =>
                        new[i] = table[i]
<1>. DEFINE S == SlotFor(table, address)
            new == bvlc_foreign_device_table_entry_add(table, address)
            entry == Accepted(address)
<1>1. /\ S \subseteq Slots /\ (\A i, j \in S : i = j)
      /\ \A i \in S : \A j \in Slots :
           table[j].valid /\ table[j].dest_address = address => j = i
      /\ \A i \in S : table[i].valid => table[i].dest_address = address
  BY SlotForEffect
<1>2. /\ entry \in EntryType /\ entry.valid = TRUE /\ entry.dest_address = address
      /\ entry.ttl_seconds_remaining # 0
  BY LeaseType, BbmdConstants DEF Accepted, EntryType
<1>3. new = [i \in Slots |-> IF i \in S THEN entry ELSE table[i]]
  BY DEF bvlc_foreign_device_table_entry_add
<1>. HIDE DEF S, entry
<1>4. /\ new \in [Slots -> EntryType]
      /\ \A i \in Slots : new[i] = IF i \in S THEN entry ELSE table[i]
  BY <1>2, <1>3 DEF TableOK
<1>. HIDE DEF new
<1>5. TableOK(new)
  BY <1>1, <1>2, <1>4 DEF TableOK
<1>. QED  BY <1>1, <1>4, <1>5 DEF S, entry, new

LEMMA EntryDeleted ==
    ASSUME NEW table, TableOK(table), NEW address
    PROVE  LET new == bvlc_foreign_device_table_entry_delete(table, address)
           IN /\ TableOK(new)
              /\ \A i \in Slots :
                    table[i].dest_address # address => new[i] = table[i]
<1>. DEFINE S == First(Holding(table, address))
            new == bvlc_foreign_device_table_entry_delete(table, address)
<1>1. S \subseteq Holding(table, address)
  BY FirstOne DEF Holding
<1>2. new = [i \in Slots |-> IF i \in S THEN EmptySlot ELSE table[i]]
  BY DEF bvlc_foreign_device_table_entry_delete
<1>. HIDE DEF S
<1>3. /\ new \in [Slots -> EntryType]
      /\ \A i \in Slots : new[i] = IF i \in S THEN EmptySlot ELSE table[i]
  BY <1>2, EmptySlotType DEF TableOK
<1>. HIDE DEF new
<1>4. TableOK(new)
  BY <1>3, EmptySlotType DEF TableOK
<1>. QED  BY <1>1, <1>3, <1>4 DEF Holding, new

(* An entry with more than a second left is a second older.                *)
LEMMA EntryAged ==
    ASSUME NEW table, TableOK(table)
    PROVE  LET new == [i \in Slots |->
                        bvlc_foreign_device_table_maintenance_timer(table[i])]
           IN /\ TableOK(new)
              /\ \A i \in Slots :
                   table[i].valid /\ table[i].ttl_seconds_remaining > 1 =>
                     /\ new[i].valid
                     /\ new[i].dest_address = table[i].dest_address
                     /\ new[i].ttl_seconds_remaining
                            = table[i].ttl_seconds_remaining - 1
<1>1. ASSUME NEW e \in EntryType, e.valid => e.ttl_seconds_remaining # 0
      PROVE  LET new == bvlc_foreign_device_table_maintenance_timer(e)
             IN /\ new \in EntryType
                /\ IF e.valid /\ e.ttl_seconds_remaining > 1
                   THEN /\ new.valid /\ new.dest_address = e.dest_address
                        /\ new.ttl_seconds_remaining = e.ttl_seconds_remaining - 1
                   ELSE ~ new.valid
  <2>1. CASE e.valid /\ e.ttl_seconds_remaining = 1
    BY <2>1, EmptySlotType DEF bvlc_foreign_device_table_maintenance_timer
  <2>2. CASE ~ e.valid
    BY <2>2 DEF bvlc_foreign_device_table_maintenance_timer
  <2>3. CASE e.valid /\ e.ttl_seconds_remaining > 1
    <3>1. bvlc_foreign_device_table_maintenance_timer(e)
              = [e EXCEPT !.ttl_seconds_remaining = @ - 1]
      BY <2>3 DEF bvlc_foreign_device_table_maintenance_timer
    <3>. QED  BY <2>3, <3>1, BbmdConstants DEF EntryType
  <2>. QED  BY <1>1, <2>1, <2>2, <2>3, BbmdConstants DEF EntryType
<1>. DEFINE new == [i \in Slots |->
                        bvlc_foreign_device_table_maintenance_timer(table[i])]
<1>2. /\ new \in [Slots -> EntryType]
      /\ \A i \in Slots :
           IF table[i].valid /\ table[i].ttl_seconds_remaining > 1
           THEN /\ new[i].valid /\ new[i].dest_address = table[i].dest_address
                /\ new[i].ttl_seconds_remaining = table[i].ttl_seconds_remaining - 1
           ELSE ~ new[i].valid
  BY <1>1 DEF TableOK
<1>. HIDE DEF new
<1>3. \A i \in Slots : table[i].ttl_seconds_remaining \in Nat
  BY BbmdConstants DEF TableOK, EntryType
<1>4. TableOK(new)
  BY <1>2, <1>3 DEF TableOK
<1>. QED  BY <1>2, <1>4 DEF new

-----------------------------------------------------------------------------
(* The datagrams under way.                                                *)

(* A bag without registrations.                                            *)
NoRegistration(bag) == \A d \in DOMAIN bag : d.function # "register"

(* The registrations that are under way stay so, and there are no others.  *)
SameRegistrations ==
    \A d : d.function = "register" =>
        /\ d \in DOMAIN wire' <=> d \in DOMAIN wire
        /\ d \in DOMAIN wire => wire'[d] = wire[d]

LEMMA MpduSent ==
    ASSUME NEW n, NEW address, NEW function, NEW src,
           NEW d \in DOMAIN bip_send_mpdu(n, address, function, src)
    PROVE  \E m \in Reached(n, address) : d = Datagram(n, m, function, src)
BY DEF bip_send_mpdu, SetToBag

LEMMA DatagramFields ==
    ASSUME NEW n, NEW m, NEW function, NEW src
    PROVE  /\ Datagram(n, m, function, src).from = n
           /\ Datagram(n, m, function, src).to = m
           /\ Datagram(n, m, function, src).function = function
           /\ Datagram(n, m, function, src).src = src
BY DEF Datagram

LEMMA BagSum ==
    ASSUME NEW A, NEW B
    PROVE  DOMAIN (A (+) B) = DOMAIN A \cup DOMAIN B
BY DEF (+)

LEMMA EmptyBagEmpty == DOMAIN EmptyBag = {}
BY DEF EmptyBag, SetToBag

(* What bbmd_bdt_forward_npdu sends.                                       *)
LEMMA PeersSent ==
    ASSUME NEW n, NEW src, NEW d \in DOMAIN bbmd_bdt_forward_npdu(n, src)
    PROVE  \E e \in BBMD_Table[n] :
             LET a == bvlc_broadcast_distribution_table_entry_forward_address(e)
             IN /\ a # n /\ a # src
                /\ \E m \in Reached(n, a) : d = Datagram(n, m, "forwarded", src)
<1>. DEFINE Addresses ==
                {bvlc_broadcast_distribution_table_entry_forward_address(e) :
                    e \in BBMD_Table[n]} \ {n, src}
            Sent == {bip_send_mpdu(n, a, "forwarded", src) : a \in Addresses}
<1>1. bbmd_bdt_forward_npdu(n, src) = BagUnion(Sent)
  BY DEF bbmd_bdt_forward_npdu
<1>. HIDE DEF Sent
<1>2. DOMAIN BagUnion(Sent) = UNION {DOMAIN B : B \in Sent}
  BY DEF BagUnion, BagToSet
<1>3. PICK B \in Sent : d \in DOMAIN B
  BY <1>1, <1>2
<1>4. PICK a \in Addresses : B = bip_send_mpdu(n, a, "forwarded", src)
  BY <1>3 DEF Sent
<1>5. PICK m \in Reached(n, a) : d = Datagram(n, m, "forwarded", src)
  BY <1>3, <1>4, MpduSent
<1>. QED  BY <1>4, <1>5

(* What bbmd_fdt_forward_npdu sends.                                       *)
LEMMA DevicesSent ==
    ASSUME NEW n, NEW src, NEW d \in DOMAIN bbmd_fdt_forward_npdu(n, src)
    PROVE  \E i \in Live(n) :
             /\ FD_Table[n][i].dest_address \in Nodes
             /\ FD_Table[n][i].dest_address \notin {n, src}
             /\ d = Datagram(n, FD_Table[n][i].dest_address, "forwarded", src)
BY DEF bbmd_fdt_forward_npdu, BagOfAll, SetToBag, BagToSet

LEMMA NoneRegisters ==
    ASSUME NEW n, NEW src, NEW address, NEW d
    PROVE  /\ NoRegistration(EmptyBag)
           /\ NoRegistration(bbmd_bdt_forward_npdu(n, src))
           /\ NoRegistration(bbmd_fdt_forward_npdu(n, src))
           /\ NoRegistration(bbmd_forward_npdu(n, src))
           /\ NoRegistration(Rebroadcast(n, d))
           /\ NoRegistration(bip_send_mpdu(n, address, "original", src))
           /\ NoRegistration(bip_send_mpdu(n, address, "distribute", src))
<1>1. NoRegistration(EmptyBag)
  BY EmptyBagEmpty DEF NoRegistration
<1>2. NoRegistration(bbmd_bdt_forward_npdu(n, src))
  BY PeersSent, DatagramFields DEF NoRegistration
<1>3. NoRegistration(bbmd_fdt_forward_npdu(n, src))
  BY DevicesSent, DatagramFields DEF NoRegistration
<1>4. NoRegistration(bbmd_forward_npdu(n, src))
  BY MpduSent, DatagramFields DEF NoRegistration, bbmd_forward_npdu
<1>5. NoRegistration(Rebroadcast(n, d))
  BY <1>1, MpduSent, DatagramFields DEF NoRegistration, Rebroadcast
<1>6. /\ NoRegistration(bip_send_mpdu(n, address, "original", src))
      /\ NoRegistration(bip_send_mpdu(n, address, "distribute", src))
  BY MpduSent, DatagramFields DEF NoRegistration
<1>. QED  BY <1>1, <1>2, <1>3, <1>4, <1>5, <1>6

LEMMA NoneInSum ==
    ASSUME NEW A, NEW B, NoRegistration(A), NoRegistration(B)
    PROVE  NoRegistration(A (+) B)
BY BagSum DEF NoRegistration

(* A datagram is taken from the wire: the others stay.                     *)
LEMMA TakenFromWire ==
    ASSUME RegistrationsOK, NEW d
    PROVE  LET rest == wire (-) SetToBag({d})
           IN /\ DOMAIN rest \subseteq DOMAIN wire
              /\ \A x \in DOMAIN wire : x.function = "register" /\ x # d =>
                    x \in DOMAIN rest /\ rest[x] = wire[x]
              /\ \A x \in DOMAIN rest : x.function = "register" =>
                    rest[x] \in Nat \ {0}
<1>. DEFINE one == SetToBag({d})
            B == [e \in DOMAIN wire |-> IF e \in DOMAIN one THEN wire[e] - one[e]
                                                            ELSE wire[e]]
            rest == wire (-) SetToBag({d})
<1>1. DOMAIN one = {d} /\ one[d] = 1
  BY DEF SetToBag
<1>2. rest = [e \in {x \in DOMAIN B : B[x] > 0} |-> B[e]]
  BY DEF (-)
<1>3. \A x \in DOMAIN wire : x.function = "register" => wire[x] \in Nat \ {0}
  BY DEF RegistrationsOK
<1>. HIDE DEF one
<1>4. /\ DOMAIN B = DOMAIN wire
      /\ \A x \in DOMAIN wire : B[x] = IF x = d THEN wire[x] - 1 ELSE wire[x]
  BY <1>1
<1>. HIDE DEF B
<1>5. /\ DOMAIN rest = {x \in DOMAIN B : B[x] > 0}
      /\ \A x \in DOMAIN rest : rest[x] = B[x]
  BY <1>2
<1>6. /\ DOMAIN rest \subseteq DOMAIN wire
      /\ \A x \in DOMAIN wire : x.function = "register" /\ x # d =>
            x \in DOMAIN rest /\ rest[x] = wire[x]
      /\ \A x \in DOMAIN rest : x.function = "register" => rest[x] \in Nat \ {0}
  <2>. HIDE DEF rest
  <2>. QED  BY <1>3, <1>4, <1>5
<1>. QED  BY <1>6

LEMMA PutOnWire ==
    ASSUME NEW A, NEW sent, NoRegistration(sent), NEW x, x.function = "register",
           x \in DOMAIN A => A[x] \in Nat
    PROVE  /\ x \in DOMAIN (A (+) sent) <=> x \in DOMAIN A
           /\ x \in DOMAIN A => (A (+) sent)[x] = A[x]
<1>1. x \notin DOMAIN sent
  BY DEF NoRegistration
<1>. QED  BY <1>1 DEF (+)

(* Whatever a node forwards, and whichever other datagram it does so for,  *)
(* the registrations under way are the same.                               *)
LEMMA ForwardingKeeps ==
    ASSUME RegistrationsOK, NEW d, d.function # "register", NEW sent,
           NoRegistration(sent), Goes(d, sent)
    PROVE  SameRegistrations
<1>. DEFINE rest == wire (-) SetToBag({d})
<1>1. wire' = rest (+) sent
  BY DEF Goes
<1>2. /\ DOMAIN rest \subseteq DOMAIN wire
      /\ \A x \in DOMAIN wire : x.function = "register" /\ x # d =>
            x \in DOMAIN rest /\ rest[x] = wire[x]
      /\ \A x \in DOMAIN rest : x.function = "register" => rest[x] \in Nat \ {0}
  BY TakenFromWire
<1>. HIDE DEF rest
<1>3. ASSUME NEW x, x.function = "register"
      PROVE  /\ x \in DOMAIN wire' <=> x \in DOMAIN wire
             /\ x \in DOMAIN wire => wire'[x] = wire[x]
  <2>1. /\ x \in DOMAIN wire' <=> x \in DOMAIN rest
        /\ x \in DOMAIN rest => wire'[x] = rest[x]
    BY <1>1, <1>2, <1>3, PutOnWire
  <2>. QED  BY <1>2, <1>3, <2>1
<1>. QED  BY <1>3 DEF SameRegistrations

LEMMA SendingKeeps ==
    ASSUME RegistrationsOK, NEW sent, NoRegistration(sent), wire' = wire (+) sent
    PROVE  SameRegistrations
<1>1. ASSUME NEW x, x.function = "register"
      PROVE  /\ x \in DOMAIN wire' <=> x \in DOMAIN wire
             /\ x \in DOMAIN wire => wire'[x] = wire[x]
  <2>1. x \in DOMAIN wire => wire[x] \in Nat
    BY <1>1 DEF RegistrationsOK
  <2>. QED  BY <1>1, <2>1, PutOnWire
<1>. QED  BY <1>1 DEF SameRegistrations

-----------------------------------------------------------------------------
(* The steps.  Forwarding is all the same to the tables and registrations. *)

Quiet ==
    /\ UNCHANGED <<FD_Table, BBMD_Timer_Seconds, due, visitors, granted>>
    /\ SameRegistrations

LEMMA Homes ==
    ASSUME NEW f \in Foreign
    PROVE  /\ BBMD_Address[f] \in BBMDs /\ BBMD_Address[f] \in Nodes
           /\ f \in Nodes /\ f \notin BBMDs
           /\ Registration(f).function = "register"
           /\ Registration(f).from = f /\ Registration(f).to = BBMD_Address[f]
BY BbmdConstants, DatagramFields DEF Registration

LEMMA StepKinds ==
    ASSUME RegistrationsOK, [Next]_vars
    PROVE  \/ Quiet
           \/ \E f \in Foreign : RegisterForeignDevice(Registration(f))
           \/ GuestRegisters
           \/ \E n \in BBMDs : bvlc_maintenance_timer(n)
           \/ \E f \in Foreign : dlenv_maintenance_timer(f)
           \/ Second
           \/ \E f \in Foreign : Lose(Registration(f))
           \/ \E n \in BBMDs : bvlc_init(n)
           \/ \E f \in Foreign : DeleteForeignDevice(BBMD_Address[f], f)
<1>1. ASSUME NEW d, Arrives(d, "register")
      PROVE  \E f \in Foreign : d = Registration(f)
  BY <1>1 DEF Arrives, BagIn, BagToSet, RegistrationsOK
<1>2. ASSUME NEW d, OriginalBroadcast(d)
      PROVE  Quiet
  <2>. DEFINE sent == bbmd_fdt_forward_npdu(d.to, d.from)
                        (+) bbmd_bdt_forward_npdu(d.to, d.from)
  <2>1. /\ d.function # "register" /\ (Goes(d, EmptyBag) \/ Goes(d, sent))
        /\ UNCHANGED <<FD_Table, BBMD_Timer_Seconds, due, visitors, granted>>
    BY <1>2 DEF OriginalBroadcast, Arrives, tables
  <2>2. NoRegistration(EmptyBag) /\ NoRegistration(sent)
    BY NoneRegisters, NoneInSum
  <2>. HIDE DEF sent
  <2>. QED  BY <2>1, <2>2, ForwardingKeeps DEF Quiet
<1>3. ASSUME NEW d, ForwardedNpdu(d)
      PROVE  Quiet
  <2>. DEFINE sent == Rebroadcast(d.to, d) (+) bbmd_fdt_forward_npdu(d.to, d.src)
  <2>1. /\ d.function # "register" /\ (Goes(d, EmptyBag) \/ Goes(d, sent))
        /\ UNCHANGED <<FD_Table, BBMD_Timer_Seconds, due, visitors, granted>>
    BY <1>3 DEF ForwardedNpdu, Arrives, tables
  <2>2. NoRegistration(EmptyBag) /\ NoRegistration(sent)
    BY NoneRegisters, NoneInSum
  <2>. HIDE DEF sent
  <2>. QED  BY <2>1, <2>2, ForwardingKeeps DEF Quiet
<1>4. ASSUME NEW d, DistributeBroadcast(d)
      PROVE  Quiet
  <2>. DEFINE sent == bbmd_forward_npdu(d.to, d.from)
                        (+) bbmd_fdt_forward_npdu(d.to, d.from)
                        (+) bbmd_bdt_forward_npdu(d.to, d.from)
  <2>1. /\ d.function # "register" /\ Goes(d, sent)
        /\ UNCHANGED <<FD_Table, BBMD_Timer_Seconds, due, visitors, granted>>
    BY <1>4 DEF DistributeBroadcast, Arrives, tables
  <2>2. NoRegistration(sent)
    BY NoneRegisters, NoneInSum
  <2>. HIDE DEF sent
  <2>. QED  BY <2>1, <2>2, ForwardingKeeps DEF Quiet
<1>5. ASSUME NEW n \in Nodes, bvlc_send_pdu(n)
      PROVE  Quiet
  <2>. DEFINE sent ==
                IF n \in Foreign
                THEN bip_send_mpdu(n, BBMD_Address[n], "distribute", n)
                ELSE bip_send_mpdu(n, bip_get_broadcast_addr(n), "original", n)
                       (+) bbmd_fdt_forward_npdu(n, n)
                       (+) bbmd_bdt_forward_npdu(n, n)
  <2>1. /\ wire' = wire (+) sent
        /\ UNCHANGED <<FD_Table, BBMD_Timer_Seconds, due, visitors, granted>>
    BY <1>5 DEF bvlc_send_pdu, tables
  <2>2. NoRegistration(sent)
    BY NoneRegisters, NoneInSum
  <2>. HIDE DEF sent
  <2>. QED  BY <2>1, <2>2, SendingKeeps DEF Quiet
<1>6. CASE Deliver
  <2>1. PICK d : \/ OriginalBroadcast(d) \/ ForwardedNpdu(d)
                 \/ DistributeBroadcast(d) \/ RegisterForeignDevice(d)
    BY <1>6 DEF Deliver
  <2>2. CASE RegisterForeignDevice(d)
    BY <1>1, <2>2 DEF RegisterForeignDevice
  <2>. QED  BY <1>2, <1>3, <1>4, <2>1, <2>2
<1>7. CASE Maintenance
  BY <1>7 DEF Maintenance, bvlc_maintenance_timer, dlenv_maintenance_timer
<1>8. ASSUME NEW d, Lose(d)
      PROVE  \E f \in Foreign : Lose(Registration(f))
  BY <1>1, <1>8 DEF Lose
<1>9. CASE UNCHANGED vars
  BY <1>9 DEF vars, tables, Quiet, SameRegistrations
<1>. QED  BY <1>5, <1>6, <1>7, <1>8, <1>9 DEF Next

LEMMA TableReplaced ==
    ASSUME TablesOK, NEW n \in BBMDs, NEW new, TableOK(new), visitors' \in Nat,
           FD_Table' = [FD_Table EXCEPT ![n] = new]
    PROVE  TablesOK'
BY DEF TablesOK, TableOK

LEMMA TablesStep ==
    ASSUME TablesOK, RegistrationsOK, [Next]_vars
    PROVE  TablesOK'
<1>1. /\ FD_Table \in [BBMDs -> [Slots -> EntryType]] /\ visitors \in Nat
      /\ \A n \in BBMDs : TableOK(FD_Table[n])
  BY DEF TablesOK
<1>2. CASE UNCHANGED <<FD_Table, visitors>>
  BY <1>2 DEF TablesOK, TableOK
<1>3. ASSUME NEW n \in BBMDs, NEW address \in Foreign \cup Range(Guests),
             AddEntry(n, address), visitors' \in Nat
      PROVE  TablesOK'
  BY <1>1, <1>3, EntryAdded, TableReplaced DEF AddEntry
<1>4. ASSUME NEW f \in Foreign, RegisterForeignDevice(Registration(f))
      PROVE  TablesOK'
  BY <1>1, <1>3, <1>4, Homes DEF RegisterForeignDevice
<1>5. CASE GuestRegisters
  <2>. DEFINE g == Guests[visitors']
  <2>1. visitors' \in 1 .. Len(Guests) /\ AddEntry(BBMD_Address[g], g)
    BY <1>1, <1>5, BbmdConstants DEF GuestRegisters
  <2>2. g \in Range(Guests)
    BY <2>1, BbmdConstants
  <2>3. BBMD_Address[g] \in BBMDs
    BY <2>2, BbmdConstants
  <2>. HIDE DEF g
  <2>. QED  BY <1>3, <2>1, <2>2, <2>3
<1>6. ASSUME NEW n \in BBMDs, bvlc_maintenance_timer(n)
      PROVE  TablesOK'
  <2>. DEFINE new == [i \in Slots |->
                        bvlc_foreign_device_table_maintenance_timer(FD_Table[n][i])]
  <2>1. FD_Table' = [FD_Table EXCEPT ![n] = new] /\ visitors' = visitors
    BY <1>1, <1>6 DEF bvlc_maintenance_timer
  <2>2. TableOK(new)
    BY <1>1, EntryAged
  <2>. HIDE DEF new
  <2>. QED  BY <1>1, <2>1, <2>2, TableReplaced
<1>7. ASSUME NEW n \in BBMDs, bvlc_init(n)
      PROVE  TablesOK'
  <2>. DEFINE new == [i \in Slots |-> EmptySlot]
  <2>1. FD_Table' = [FD_Table EXCEPT ![n] = new] /\ visitors' = visitors
    BY <1>7 DEF bvlc_init, PutOut
  <2>2. TableOK(new)
    BY EmptySlotType DEF TableOK
  <2>. HIDE DEF new
  <2>. QED  BY <1>1, <2>1, <2>2, TableReplaced
<1>8. ASSUME NEW f \in Foreign, DeleteForeignDevice(BBMD_Address[f], f)
      PROVE  TablesOK'
  <2>. DEFINE n == BBMD_Address[f]
              new == bvlc_foreign_device_table_entry_delete(FD_Table[n], f)
  <2>1. FD_Table' = [FD_Table EXCEPT ![n] = new] /\ visitors' = visitors
    BY <1>1, <1>8, Homes DEF DeleteForeignDevice, PutOut
  <2>2. n \in BBMDs
    BY Homes
  <2>. HIDE DEF n
  <2>3. TableOK(new)
    BY <1>1, <2>2, EntryDeleted
  <2>. HIDE DEF new
  <2>. QED  BY <1>1, <2>1, <2>2, <2>3, TableReplaced
<1>. QED
  BY <1>2, <1>4, <1>5, <1>6, <1>7, <1>8, StepKinds
     DEF Quiet, Second, dlenv_maintenance_timer, Lose, tables

(* The registration of one device is on the wire, or not, whatever becomes *)
(* of another's.                                                           *)
LEMMA RegistrationsDiffer ==
    ASSUME NEW f \in Foreign, NEW g \in Foreign, f # g
    PROVE  Registration(f) # Registration(g)
BY Homes

(* A registration arrives or is lost.                                      *)
LEMMA RegistrationTaken ==
    ASSUME RegistrationsOK, NEW g \in Foreign, Goes(Registration(g), EmptyBag)
    PROVE  /\ DOMAIN wire' \subseteq DOMAIN wire
           /\ \A d \in DOMAIN wire' : d.function = "register" =>
                 wire'[d] \in Nat \ {0}
           /\ \A f \in Foreign : f # g => UnderWay(f)' = UnderWay(f)
<1>. DEFINE rest == wire (-) SetToBag({Registration(g)})
<1>1. wire' = rest (+) EmptyBag
  BY DEF Goes
<1>2. /\ DOMAIN rest \subseteq DOMAIN wire
      /\ \A x \in DOMAIN wire : x.function = "register" /\ x # Registration(g) =>
            x \in DOMAIN rest /\ rest[x] = wire[x]
      /\ \A x \in DOMAIN rest : x.function = "register" => rest[x] \in Nat \ {0}
  BY TakenFromWire
<1>. HIDE DEF rest
<1>3. DOMAIN wire' = DOMAIN rest
  <2>1. DOMAIN (rest (+) EmptyBag) = DOMAIN rest \cup DOMAIN EmptyBag
    BY BagSum
  <2>. QED  BY <1>1, <2>1, EmptyBagEmpty
<1>4. \A x \in DOMAIN rest : x.function = "register" => wire'[x] = rest[x]
  BY <1>1, <1>2, PutOnWire, NoneRegisters
<1>5. ASSUME NEW f \in Foreign, f # g
      PROVE  UnderWay(f)' = UnderWay(f)
  BY <1>2, <1>3, <1>5, RegistrationsDiffer, Homes DEF UnderWay, Registration
<1>. QED  BY <1>2, <1>3, <1>4, <1>5

(* A device sends its registration.                                        *)
LEMMA RegistrationSent ==
    ASSUME RegistrationsOK, NEW g \in Foreign,
           wire' = wire (+) bvlc_register_with_bbmd(g, BBMD_Address[g])
    PROVE  /\ \A d \in DOMAIN wire' : d.function = "register" =>
                 /\ wire'[d] \in Nat \ {0}
                 /\ d \in DOMAIN wire \/ d = Registration(g)
           /\ \A f \in Foreign : f # g => UnderWay(f)' = UnderWay(f)
           /\ UnderWay(g)'
<1>. DEFINE one == bvlc_register_with_bbmd(g, BBMD_Address[g])
<1>1. one = SetToBag({Registration(g)})
  <2>1. Reached(g, BBMD_Address[g]) = {BBMD_Address[g]}
    BY Homes DEF Reached
  <2>. QED  BY <2>1 DEF bvlc_register_with_bbmd, bip_send_mpdu, Registration
<1>2. DOMAIN one = {Registration(g)} /\ one[Registration(g)] = 1
  BY <1>1 DEF SetToBag
<1>. HIDE DEF one
<1>3. /\ DOMAIN wire' = DOMAIN wire \cup {Registration(g)}
      /\ \A d \in DOMAIN wire' :
           wire'[d] = (IF d \in DOMAIN wire THEN wire[d] ELSE 0)
                        + (IF d = Registration(g) THEN 1 ELSE 0)
  <2>1. wire' = wire (+) one
    BY DEF one
  <2>. QED  BY <1>2, <2>1 DEF (+)
<1>4. \A d \in DOMAIN wire : d.function = "register" => wire[d] \in Nat \ {0}
  BY DEF RegistrationsOK
<1>5. \A d \in DOMAIN wire' : d.function = "register" =>
          /\ wire'[d] \in Nat \ {0}
          /\ d \in DOMAIN wire \/ d = Registration(g)
  BY <1>3, <1>4
<1>6. ASSUME NEW f \in Foreign, f # g
      PROVE  UnderWay(f)' = UnderWay(f)
  BY <1>3, <1>6, RegistrationsDiffer DEF UnderWay, Registration
<1>7. UnderWay(g)'
  BY <1>3 DEF UnderWay, Registration
<1>. QED  BY <1>5, <1>6, <1>7

LEMMA SameUnderWay ==
    ASSUME SameRegistrations, NEW f \in Foreign
    PROVE  UnderWay(f)' = UnderWay(f)
BY Homes DEF SameRegistrations, UnderWay, Registration

LEMMA AddedGranted ==
    ASSUME granted \subseteq Foreign, NEW n, NEW address, AddEntry(n, address)
    PROVE  granted' \subseteq Foreign
BY DEF AddEntry

LEMMA RegistrationsStep ==
    ASSUME RegistrationsOK, [Next]_vars
    PROVE  RegistrationsOK'
<1>1. /\ BBMD_Timer_Seconds \in [Foreign -> 1 .. BBMD_TTL_Seconds]
      /\ granted \subseteq Foreign
      /\ \A d \in DOMAIN wire : d.function = "register" =>
           /\ wire[d] \in Nat \ {0}
           /\ \E f \in Foreign : d = Registration(f)
      /\ \A f \in Foreign : UnderWay(f) =>
           f \notin due /\ BBMD_Timer_Seconds[f] = BBMD_TTL_Seconds
  BY DEF RegistrationsOK
<1>2. CASE Quiet
  <2>1. \A d \in DOMAIN wire' : d.function = "register" =>
          /\ wire'[d] \in Nat \ {0}
          /\ \E f \in Foreign : d = Registration(f)
    BY <1>1, <1>2 DEF Quiet, SameRegistrations
  <2>2. \A f \in Foreign : UnderWay(f)' = UnderWay(f)
    BY <1>2, SameUnderWay DEF Quiet
  <2>. QED  BY <1>1, <1>2, <2>1, <2>2 DEF Quiet, RegistrationsOK, Registration
<1>3. ASSUME NEW g \in Foreign, Goes(Registration(g), EmptyBag),
             UNCHANGED <<BBMD_Timer_Seconds, due>>, granted' \subseteq Foreign
      PROVE  RegistrationsOK'
  <2>1. \A d \in DOMAIN wire' : d.function = "register" =>
          /\ wire'[d] \in Nat \ {0}
          /\ \E f \in Foreign : d = Registration(f)
    BY <1>1, <1>3, RegistrationTaken
  <2>2. \A f \in Foreign : UnderWay(f)' => UnderWay(f)
    BY <1>3, RegistrationTaken DEF UnderWay, Registration
  <2>. QED  BY <1>1, <1>3, <2>1, <2>2 DEF RegistrationsOK, Registration
<1>4. ASSUME UNCHANGED <<BBMD_Timer_Seconds, wire>>, due' \subseteq due,
             granted' \subseteq Foreign
      PROVE  RegistrationsOK'
  BY <1>1, <1>4 DEF RegistrationsOK, UnderWay, Registration
<1>5. ASSUME NEW f \in Foreign, RegisterForeignDevice(Registration(f))
      PROVE  RegistrationsOK'
  BY <1>1, <1>3, <1>5, AddedGranted DEF RegisterForeignDevice
<1>6. CASE GuestRegisters
  BY <1>1, <1>4, <1>6, AddedGranted DEF GuestRegisters
<1>7. ASSUME NEW n \in BBMDs, bvlc_maintenance_timer(n)
      PROVE  RegistrationsOK'
  BY <1>1, <1>4, <1>7 DEF bvlc_maintenance_timer
<1>8. ASSUME NEW g \in Foreign, dlenv_maintenance_timer(g)
      PROVE  RegistrationsOK'
  <2>1. g \in due /\ due' = due \ {g} /\ granted' = granted
    BY <1>8 DEF dlenv_maintenance_timer
  <2>2. ~ UnderWay(g)
    BY <1>1, <2>1
  <2>3. CASE BBMD_Timer_Seconds[g] > 1
    <3>1. wire' = wire /\ BBMD_Timer_Seconds'
                            = [BBMD_Timer_Seconds EXCEPT ![g] = @ - 1]
      BY <1>8, <2>3 DEF dlenv_maintenance_timer
    <3>2. BBMD_Timer_Seconds' \in [Foreign -> 1 .. BBMD_TTL_Seconds]
      BY <1>1, <2>3, <3>1, BbmdConstants
    <3>3. \A f \in Foreign : UnderWay(f)' => UnderWay(f) /\ f # g
      BY <2>2, <3>1 DEF UnderWay, Registration
    <3>4. \A f \in Foreign : f # g => BBMD_Timer_Seconds'[f] = BBMD_Timer_Seconds[f]
      BY <1>1, <3>1
    <3>. QED
      BY <1>1, <2>1, <3>1, <3>2, <3>3, <3>4 DEF RegistrationsOK, Registration
  <2>4. CASE ~ (BBMD_Timer_Seconds[g] > 1)
    <3>1. /\ wire' = wire (+) bvlc_register_with_bbmd(g, BBMD_Address[g])
          /\ BBMD_Timer_Seconds'
               = [BBMD_Timer_Seconds EXCEPT ![g] = BBMD_TTL_Seconds]
      BY <1>8, <2>4 DEF dlenv_maintenance_timer
    <3>2. /\ BBMD_Timer_Seconds' \in [Foreign -> 1 .. BBMD_TTL_Seconds]
          /\ BBMD_Timer_Seconds'[g] = BBMD_TTL_Seconds
          /\ \A f \in Foreign : f # g =>
                BBMD_Timer_Seconds'[f] = BBMD_Timer_Seconds[f]
      BY <1>1, <3>1, BbmdConstants
    <3>3. \A d \in DOMAIN wire' : d.function = "register" =>
            /\ wire'[d] \in Nat \ {0}
            /\ \E f \in Foreign : d = Registration(f)
      BY <1>1, <3>1, RegistrationSent
    <3>4. \A f \in Foreign : UnderWay(f)' => UnderWay(f) \/ f = g
      BY <3>1, RegistrationSent
    <3>. QED
      BY <1>1, <2>1, <3>2, <3>3, <3>4 DEF RegistrationsOK, Registration
  <2>. QED  BY <2>3, <2>4
<1>9. CASE Second
  <2>1. /\ UNCHANGED <<BBMD_Timer_Seconds, granted, wire>> /\ DOMAIN wire = {}
    BY <1>9, EmptyBagEmpty DEF Second
  <2>. QED  BY <1>1, <2>1 DEF RegistrationsOK, UnderWay
<1>10. ASSUME NEW f \in Foreign, Lose(Registration(f))
       PROVE  RegistrationsOK'
  BY <1>1, <1>3, <1>10 DEF Lose, tables
<1>11. ASSUME NEW n \in BBMDs, bvlc_init(n)
       PROVE  RegistrationsOK'
  BY <1>1, <1>4, <1>11 DEF bvlc_init, PutOut
<1>12. ASSUME NEW f \in Foreign, DeleteForeignDevice(BBMD_Address[f], f)
       PROVE  RegistrationsOK'
  BY <1>1, <1>4, <1>12 DEF DeleteForeignDevice, PutOut
<1>. QED
  BY <1>2, <1>5, <1>6, <1>7, <1>8, <1>9, <1>10, <1>11, <1>12, StepKinds

-----------------------------------------------------------------------------
(* The lease.                                                              *)

(* The grace period covers the second by which each of the two timers may  *)
(* be ahead of or behind the other.                                        *)
GraceCovers == Lease >= BBMD_TTL_Seconds + 2

LEMMA NeededBounds ==
    ASSUME RegistrationsOK, NEW f \in Foreign
    PROVE  /\ BBMD_Timer_Seconds[f] \in 1 .. BBMD_TTL_Seconds
           /\ Needed(f) \in 1 .. BBMD_TTL_Seconds + 1
           /\ Pending(f) \in {0, 1} /\ Pending(BBMD_Address[f]) \in {0, 1}
BY BbmdConstants DEF RegistrationsOK, Needed, Pending

LEMMA RemainingNatural ==
    ASSUME TablesOK, NEW n \in BBMDs, NEW i \in Slots
    PROVE  FD_Table[n][i].ttl_seconds_remaining \in Nat
BY BbmdConstants DEF TablesOK, EntryType

(* The entry stays as it is, and as much is needed of it.                  *)
LEMMA LastsKept ==
    ASSUME NEW f \in Foreign, Lasts(f),
           Needed(f)' = Needed(f),
           Pending(BBMD_Address[f])' = Pending(BBMD_Address[f]),
           \A i \in Slots :
               LET entry == FD_Table[BBMD_Address[f]][i]
               IN entry.valid /\ entry.dest_address = f =>
                      FD_Table'[BBMD_Address[f]][i] = entry
    PROVE  Lasts(f)'
<1>. DEFINE n == BBMD_Address[f]
<1>1. PICK i \in Slots :
          /\ FD_Table[n][i].valid /\ FD_Table[n][i].dest_address = f
          /\ FD_Table[n][i].ttl_seconds_remaining - Pending(n) >= Needed(f)
  BY DEF Lasts
<1>2. FD_Table'[n][i] = FD_Table[n][i]
  BY <1>1
<1>. QED  BY <1>1, <1>2 DEF Lasts

(* Another device or guest is added.                                       *)
LEMMA OtherAdded ==
    ASSUME TablesOK, NEW f \in Foreign, Lasts(f), NEW n \in BBMDs,
           NEW address \in Foreign \cup Range(Guests), address # f,
           AddEntry(n, address), Needed(f)' = Needed(f), UNCHANGED due
    PROVE  Lasts(f)'
<1>. DEFINE new == bvlc_foreign_device_table_entry_add(FD_Table[n], address)
<1>1. FD_Table \in [BBMDs -> [Slots -> EntryType]] /\ TableOK(FD_Table[n])
  BY DEF TablesOK
<1>2. FD_Table' = [FD_Table EXCEPT ![n] = new]
  BY <1>1 DEF AddEntry
<1>3. \A i \in Slots :
          FD_Table[n][i].valid /\ FD_Table[n][i].dest_address # address =>
              new[i] = FD_Table[n][i]
  BY <1>1, EntryAdded
<1>. HIDE DEF new
<1>4. BBMD_Address[f] \in BBMDs
  BY Homes
<1>5. Pending(BBMD_Address[f])' = Pending(BBMD_Address[f])
  BY DEF Pending
<1>6. \A i \in Slots :
          /\ FD_Table[BBMD_Address[f]][i].valid
          /\ FD_Table[BBMD_Address[f]][i].dest_address = f
          => FD_Table'[BBMD_Address[f]][i] = FD_Table[BBMD_Address[f]][i]
  BY <1>1, <1>2, <1>3, <1>4
<1>. QED  BY <1>5, <1>6, LastsKept

LEMMA LeaseStep ==
    ASSUME GraceCovers, LeaseInv, [Next]_vars, NEW f \in granted'
    PROVE  Lasts(f)'
<1>. DEFINE home == BBMD_Address[f]
<1>1. /\ TablesOK /\ RegistrationsOK
      /\ \A g \in granted : Lasts(g)
      /\ FD_Table \in [BBMDs -> [Slots -> EntryType]]
      /\ \A n \in BBMDs : TableOK(FD_Table[n])
      /\ visitors \in Nat
      /\ granted \subseteq Foreign
      /\ BBMD_Timer_Seconds \in [Foreign -> 1 .. BBMD_TTL_Seconds]
  BY DEF LeaseInv, TablesOK, RegistrationsOK
<1>2. /\ f \in Foreign /\ home \in BBMDs /\ home \notin Foreign
      /\ BBMD_Timer_Seconds[f] \in 1 .. BBMD_TTL_Seconds
  <2>1. f \in Foreign
    BY <1>1, RegistrationsStep DEF RegistrationsOK
  <2>. QED  BY <1>1, <2>1, Homes, BbmdConstants
<1>. HIDE DEF home
<1>3. BBMD_TTL_Seconds \in Nat /\ Lease \in Nat /\ Lease >= BBMD_TTL_Seconds + 2
  BY LeaseType, BbmdConstants DEF GraceCovers
<1>4. ASSUME f \in granted
      PROVE  /\ Lasts(f)
             /\ \E i \in Slots :
                  /\ FD_Table[home][i].valid /\ FD_Table[home][i].dest_address = f
                  /\ FD_Table[home][i].ttl_seconds_remaining \in Nat
                  /\ FD_Table[home][i].ttl_seconds_remaining - Pending(home)
                       >= Needed(f)
  BY <1>1, <1>2, <1>4, RemainingNatural DEF Lasts, home
<1>5. CASE Quiet
  <2>1. UnderWay(f)' = UnderWay(f)
    BY <1>2, <1>5, SameUnderWay DEF Quiet
  <2>2. /\ Needed(f)' = Needed(f) /\ f \in granted
        /\ Pending(BBMD_Address[f])' = Pending(BBMD_Address[f])
        /\ FD_Table' = FD_Table
    BY <1>5, <2>1 DEF Quiet, Needed, Pending
  <2>. QED  BY <1>2, <1>4, <2>2, LastsKept
<1>6. ASSUME NEW g \in Foreign, RegisterForeignDevice(Registration(g))
      PROVE  Lasts(f)'
  <2>1. /\ AddEntry(BBMD_Address[g], g) /\ Goes(Registration(g), EmptyBag)
        /\ UNCHANGED <<BBMD_Timer_Seconds, due>> /\ UnderWay(g)
        /\ BBMD_Address[g] \in BBMDs
    BY <1>6, Homes DEF RegisterForeignDevice, Arrives, BagIn, BagToSet, UnderWay
  <2>2. CASE f # g
    <3>1. UnderWay(f)' = UnderWay(f)
      BY <1>1, <1>2, <2>1, <2>2, RegistrationTaken
    <3>2. Needed(f)' = Needed(f) /\ f \in granted
      BY <2>1, <2>2, <3>1 DEF Needed, Pending, AddEntry
    <3>. QED  BY <1>1, <1>2, <1>4, <2>1, <2>2, <3>2, OtherAdded
  <2>3. CASE f = g
    <3>. DEFINE table == FD_Table[home]
                new == bvlc_foreign_device_table_entry_add(table, f)
    <3>1. TableOK(table) /\ home = BBMD_Address[f]
      BY <1>1, <1>2 DEF home
    <3>2. /\ FD_Table' = [FD_Table EXCEPT ![home] = new]
          /\ f \in granted \/ SlotFor(table, f) # {}
      BY <1>1, <1>2, <2>1, <2>3, <3>1 DEF AddEntry
    <3>3. SlotFor(table, f) # {}
      <4>1. ASSUME f \in granted
            PROVE  Holding(table, f) # {}
        BY <1>4, <4>1 DEF Holding
      <4>. QED  BY <3>1, <3>2, <4>1, SlotForEffect
    <3>4. PICK i \in SlotFor(table, f) : i \in Slots /\ new[i] = Accepted(f)
      BY <1>2, <3>1, <3>3, EntryAdded
    <3>. HIDE DEF new, table
    <3>5. /\ FD_Table'[home][i].valid /\ FD_Table'[home][i].dest_address = f
          /\ FD_Table'[home][i].ttl_seconds_remaining = Lease
      BY <1>1, <1>2, <3>2, <3>4 DEF Accepted
    <3>6. BBMD_Timer_Seconds'[f] = BBMD_TTL_Seconds
      BY <1>1, <1>2, <2>1, <2>3 DEF RegistrationsOK
    <3>7. Needed(f)' <= BBMD_TTL_Seconds + 1 /\ Needed(f)' \in Nat
      BY <1>2, <1>3, <3>6, BbmdConstants DEF Needed, Pending
    <3>8. Lease - Pending(home)' >= Needed(f)'
      BY <1>3, <3>7 DEF Pending
    <3>. QED  BY <3>1, <3>4, <3>5, <3>8 DEF Lasts
  <2>. QED  BY <2>2, <2>3
<1>7. CASE GuestRegisters
  <2>. DEFINE g == Guests[visitors']
  <2>1. /\ visitors' \in 1 .. Len(Guests) /\ AddEntry(BBMD_Address[g], g)
        /\ UNCHANGED <<BBMD_Timer_Seconds, due, wire>>
    BY <1>1, <1>7, BbmdConstants DEF GuestRegisters
  <2>2. g \in Range(Guests)
    BY <2>1, BbmdConstants
  <2>3. BBMD_Address[g] \in BBMDs /\ g \notin Foreign
    BY <2>2, BbmdConstants
  <2>. HIDE DEF g
  <2>4. Needed(f)' = Needed(f) /\ f \in granted
    BY <1>2, <2>1, <2>3 DEF Needed, Pending, UnderWay, Registration, AddEntry
  <2>. QED  BY <1>1, <1>2, <1>4, <2>1, <2>2, <2>3, <2>4, OtherAdded
<1>8. ASSUME NEW n \in BBMDs, bvlc_maintenance_timer(n)
      PROVE  Lasts(f)'
  <2>. DEFINE new == [i \in Slots |->
                        bvlc_foreign_device_table_maintenance_timer(FD_Table[n][i])]
  <2>1. /\ FD_Table' = [FD_Table EXCEPT ![n] = new]
        /\ n \in due /\ due' = due \ {n} /\ f \in granted
        /\ UNCHANGED <<BBMD_Timer_Seconds, wire>>
    BY <1>1, <1>8 DEF bvlc_maintenance_timer
  <2>2. \A i \in Slots :
          FD_Table[n][i].valid /\ FD_Table[n][i].ttl_seconds_remaining > 1 =>
            /\ new[i].valid /\ new[i].dest_address = FD_Table[n][i].dest_address
            /\ new[i].ttl_seconds_remaining
                  = FD_Table[n][i].ttl_seconds_remaining - 1
    BY <1>1, EntryAged
  <2>. HIDE DEF new
  <2>3. Needed(f)' = Needed(f) /\ Needed(f) \in 1 .. BBMD_TTL_Seconds + 1
    <3>1. f # n
      BY <1>2, <1>8, Homes
    <3>2. Needed(f)' = Needed(f)
      BY <2>1, <3>1 DEF Needed, Pending, UnderWay, Registration
    <3>. QED  BY <1>1, <1>2, <3>2, NeededBounds
  <2>4. CASE home = n
    <3>1. PICK i \in Slots :
            /\ FD_Table[home][i].valid /\ FD_Table[home][i].dest_address = f
            /\ FD_Table[home][i].ttl_seconds_remaining \in Nat
            /\ FD_Table[home][i].ttl_seconds_remaining - Pending(home) >= Needed(f)
      BY <1>4, <2>1
    <3>2. Pending(home) = 1 /\ Pending(home)' = 0
      BY <2>1, <2>4 DEF Pending
    <3>3. FD_Table[home][i].ttl_seconds_remaining > 1
      BY <1>3, <2>3, <3>1, <3>2
    <3>4. /\ FD_Table'[home][i].valid /\ FD_Table'[home][i].dest_address = f
          /\ FD_Table'[home][i].ttl_seconds_remaining
                = FD_Table[home][i].ttl_seconds_remaining - 1
      BY <1>1, <2>1, <2>2, <2>4, <3>1, <3>3
    <3>5. FD_Table'[home][i].ttl_seconds_remaining - Pending(home)' >= Needed(f)'
      BY <1>3, <2>3, <3>1, <3>2, <3>4
    <3>. QED  BY <3>4, <3>5 DEF Lasts, home
  <2>5. CASE home # n
    <3>1. /\ Pending(home)' = Pending(home)
          /\ FD_Table'[home] = FD_Table[home]
      BY <1>1, <1>2, <2>1, <2>5 DEF Pending
    <3>. QED  BY <1>2, <1>4, <2>1, <2>3, <3>1, LastsKept DEF home
  <2>. QED  BY <2>4, <2>5
<1>9. ASSUME NEW g \in Foreign, dlenv_maintenance_timer(g)
      PROVE  Lasts(f)'
  <2>1. g \in due /\ due' = due \ {g} /\ f \in granted /\ FD_Table' = FD_Table
    BY <1>9 DEF dlenv_maintenance_timer
  <2>2. Pending(home)' = Pending(home) /\ Pending(home) \in {0, 1}
    BY <1>2, <2>1 DEF Pending
  <2>3. CASE f # g
    <3>1. UnderWay(f)' = UnderWay(f)
      <4>1. CASE wire' = wire
        BY <4>1 DEF UnderWay, Registration
      <4>2. CASE wire' = wire (+) bvlc_register_with_bbmd(g, BBMD_Address[g])
        BY <1>1, <1>2, <2>3, <4>2, RegistrationSent
      <4>. QED  BY <1>9, <4>1, <4>2 DEF dlenv_maintenance_timer
    <3>2. BBMD_Timer_Seconds'[f] = BBMD_Timer_Seconds[f]
      BY <1>1, <1>2, <1>9, <2>3 DEF dlenv_maintenance_timer
    <3>3. Needed(f)' = Needed(f)
      BY <2>1, <2>3, <3>1, <3>2 DEF Needed, Pending
    <3>. QED  BY <1>2, <1>4, <2>1, <2>2, <3>3, LastsKept DEF home
  <2>4. CASE f = g
    <3>1. ~ UnderWay(f) /\ Pending(f) = 1 /\ Pending(f)' = 0
      BY <1>1, <1>2, <2>1, <2>4 DEF RegistrationsOK, Pending
    <3>2. Needed(f) = BBMD_Timer_Seconds[f]
      BY <1>2, <1>3, <3>1 DEF Needed
    <3>3. CASE BBMD_Timer_Seconds[f] > 1
      <4>1. wire' = wire /\ BBMD_Timer_Seconds'[f] = BBMD_Timer_Seconds[f] - 1
        BY <1>1, <1>2, <1>9, <2>4, <3>3 DEF dlenv_maintenance_timer
      <4>2. Needed(f)' = Needed(f)
        BY <1>2, <1>3, <3>1, <3>2, <4>1 DEF Needed, UnderWay, Registration
      <4>. QED  BY <1>2, <1>4, <2>1, <2>2, <4>2, LastsKept DEF home
    <3>4. CASE ~ (BBMD_Timer_Seconds[f] > 1)
      <4>1. wire' = wire (+) bvlc_register_with_bbmd(f, BBMD_Address[f])
        BY <1>9, <2>4, <3>4 DEF dlenv_maintenance_timer
      <4>2. UnderWay(f)'
        BY <1>1, <1>2, <4>1, RegistrationSent
      <4>3. Needed(f)' = 1 /\ Needed(f) = 1
        BY <1>2, <1>3, <3>2, <3>4, <4>2 DEF Needed
      <4>. QED  BY <1>2, <1>4, <2>1, <2>2, <4>3, LastsKept DEF home
    <3>. QED  BY <3>3, <3>4
  <2>. QED  BY <2>3, <2>4
<1>10. CASE Second
  <2>1. /\ due = {} /\ DOMAIN wire = {} /\ f \in due' /\ f \in granted
        /\ UNCHANGED <<FD_Table, BBMD_Timer_Seconds, wire>>
    BY <1>2, <1>10, EmptyBagEmpty DEF Second
  <2>2. Needed(f) = BBMD_Timer_Seconds[f] + 1 /\ Needed(f)' = BBMD_Timer_Seconds[f]
    BY <1>2, <1>3, <2>1 DEF Needed, Pending, UnderWay
  <2>3. Pending(home) = 0 /\ Pending(home)' \in {0, 1}
    BY <2>1 DEF Pending
  <2>4. PICK i \in Slots :
            /\ FD_Table[home][i].valid /\ FD_Table[home][i].dest_address = f
            /\ FD_Table[home][i].ttl_seconds_remaining \in Nat
            /\ FD_Table[home][i].ttl_seconds_remaining - Pending(home) >= Needed(f)
    BY <1>4, <2>1
  <2>5. FD_Table[home][i].ttl_seconds_remaining - Pending(home)' >= Needed(f)'
    BY <1>2, <1>3, <2>2, <2>3, <2>4
  <2>. QED  BY <2>1, <2>4, <2>5 DEF Lasts, home
<1>11. ASSUME NEW g \in Foreign, Lose(Registration(g))
       PROVE  Lasts(f)'
  <2>1. /\ f \in granted /\ f # g /\ Goes(Registration(g), EmptyBag)
        /\ UNCHANGED <<FD_Table, BBMD_Timer_Seconds, due>>
    BY <1>11, Homes DEF Lose, tables
  <2>2. UnderWay(f)' = UnderWay(f)
    BY <1>1, <1>2, <2>1, RegistrationTaken
  <2>3. /\ Needed(f)' = Needed(f)
        /\ Pending(BBMD_Address[f])' = Pending(BBMD_Address[f])
    BY <2>1, <2>2 DEF Needed, Pending
  <2>. QED  BY <1>2, <1>4, <2>1, <2>3, LastsKept
<1>12. ASSUME NEW n \in BBMDs, bvlc_init(n)
       PROVE  Lasts(f)'
  <2>1. /\ f \in granted /\ home # n
        /\ UNCHANGED <<BBMD_Timer_Seconds, due, wire>>
        /\ FD_Table' = [FD_Table EXCEPT ![n] = [i \in Slots |-> EmptySlot]]
    BY <1>2, <1>12 DEF bvlc_init, PutOut, home
  <2>2. /\ Needed(f)' = Needed(f) /\ Pending(home)' = Pending(home)
        /\ FD_Table'[home] = FD_Table[home]
    BY <1>1, <1>2, <2>1 DEF Needed, Pending, UnderWay, Registration
  <2>. QED  BY <1>2, <1>4, <2>1, <2>2, LastsKept DEF home
<1>13. ASSUME NEW g \in Foreign, DeleteForeignDevice(BBMD_Address[g], g)
       PROVE  Lasts(f)'
  <2>. DEFINE n == BBMD_Address[g]
              new == bvlc_foreign_device_table_entry_delete(FD_Table[n], g)
  <2>1. /\ f \in granted /\ f # g /\ n \in BBMDs
        /\ UNCHANGED <<BBMD_Timer_Seconds, due, wire>>
        /\ FD_Table' = [FD_Table EXCEPT ![n] = new]
    BY <1>1, <1>13, Homes DEF DeleteForeignDevice, PutOut
  <2>. HIDE DEF n
  <2>2. \A i \in Slots :
            FD_Table[n][i].dest_address # g => new[i] = FD_Table[n][i]
    BY <1>1, <2>1, EntryDeleted
  <2>. HIDE DEF new
  <2>3. Needed(f)' = Needed(f) /\ Pending(home)' = Pending(home)
    BY <2>1 DEF Needed, Pending, UnderWay, Registration
  <2>4. \A i \in Slots : FD_Table[home][i].dest_address = f =>
            FD_Table'[home][i] = FD_Table[home][i]
    BY <1>1, <1>2, <2>1, <2>2
  <2>. QED  BY <1>2, <1>4, <2>1, <2>3, <2>4, LastsKept DEF home
<1>. QED
  BY <1>1, <1>5, <1>6, <1>7, <1>8, <1>9, <1>10, <1>11, <1>12, <1>13, StepKinds

-----------------------------------------------------------------------------
(* The way of a broadcast.                                                 *)

(* How the network is laid out and configured: a foreign device is on a    *)
(* subnet of its own, a broadcast distribution table lists no foreign      *)
(* device and no other node of the same subnet, and the node's own entry   *)
(* has a unicast mask.  The entries of the others may have either mask.    *)
WellPlaced ==
    /\ \A n \in Nodes : Subnet[n] \notin Nodes
    /\ \A f \in Foreign, n \in Nodes : f # n => Subnet[f] # Subnet[n]
    /\ \A n \in Nodes : \A e \in BBMD_Table[n] :
         /\ e.dest_address \in Nodes \ Foreign
         /\ IF e.dest_address = n THEN e.unicast
            ELSE Subnet[e.dest_address] # Subnet[n]

(* An original broadcast is on its subnet, one to distribute on its way    *)
(* from a foreign device to its BBMD, and a forwarded one on no node of    *)
(* the subnet where it began.                                              *)
OnItsWay(d) ==
    /\ d.function = "original" =>
         /\ d.from \in Nodes \ Foreign /\ d.to \in Nodes
         /\ Subnet[d.to] = Subnet[d.from]
    /\ d.function = "distribute" =>
         d.from \in Foreign /\ d.to = BBMD_Address[d.from]
    /\ d.function = "forwarded" =>
         /\ d.src \in Nodes /\ d.to \in Nodes
         /\ d.to # d.src => Subnet[d.to] # Subnet[d.src]

AllOnTheirWay(bag) == \A d \in DOMAIN bag : OnItsWay(d)

LEMMA ReachedNodes ==
    ASSUME NEW n \in Nodes, NEW address, NEW m \in Reached(n, address)
    PROVE  m \in Nodes /\ (IF address \in Nodes THEN m = address
                           ELSE Subnet[m] = address)
BY DEF Reached

(* Foreign devices are sent broadcasts of other subnets than their own.    *)
LEMMA DevicesOnTheirWay ==
    ASSUME WellPlaced, TablesOK, NEW n, NEW src \in Nodes
    PROVE  AllOnTheirWay(bbmd_fdt_forward_npdu(n, src))
<1>. SUFFICES ASSUME NEW d \in DOMAIN bbmd_fdt_forward_npdu(n, src)
              PROVE  OnItsWay(d)
  BY DEF AllOnTheirWay
<1>1. PICK i \in Live(n) :
          /\ FD_Table[n][i].dest_address \in Nodes
          /\ FD_Table[n][i].dest_address \notin {n, src}
          /\ d = Datagram(n, FD_Table[n][i].dest_address, "forwarded", src)
  BY DevicesSent
<1>. DEFINE f == FD_Table[n][i].dest_address
<1>2. f \in Foreign
  <2>1. n \in BBMDs /\ i \in Slots /\ FD_Table[n][i].valid
    BY <1>1 DEF Live
  <2>2. f \in Foreign \cup Range(Guests)
    BY <2>1 DEF TablesOK, TableOK
  <2>. QED  BY <1>1, <2>2, BbmdConstants
<1>. HIDE DEF f
<1>3. f # src /\ Subnet[f] # Subnet[src] /\ f \in Nodes
  BY <1>1, <1>2 DEF WellPlaced, f
<1>4. d.function = "forwarded" /\ d.src = src /\ d.to = f
  BY <1>1, DatagramFields DEF f
<1>. QED  BY <1>3, <1>4 DEF OnItsWay

(* BBMDs are sent broadcasts of other subnets than their own, by a node of *)
(* the subnet where the broadcast began or on behalf of a foreign device.  *)
LEMMA PeersOnTheirWay ==
    ASSUME WellPlaced, NEW n \in Nodes, NEW src \in Nodes,
           src \in Foreign \/ Subnet[n] = Subnet[src]
    PROVE  AllOnTheirWay(bbmd_bdt_forward_npdu(n, src))
<1>. SUFFICES ASSUME NEW d \in DOMAIN bbmd_bdt_forward_npdu(n, src)
              PROVE  OnItsWay(d)
  BY DEF AllOnTheirWay
<1>. DEFINE Forward(e) == bvlc_broadcast_distribution_table_entry_forward_address(e)
<1>1. PICK e \in BBMD_Table[n] :
          /\ Forward(e) # n /\ Forward(e) # src
          /\ \E m \in Reached(n, Forward(e)) : d = Datagram(n, m, "forwarded", src)
  BY PeersSent
<1>2. PICK m \in Reached(n, Forward(e)) : d = Datagram(n, m, "forwarded", src)
  BY <1>1
<1>3. Forward(e) = IF e.unicast THEN e.dest_address ELSE Subnet[e.dest_address]
  BY DEF bvlc_broadcast_distribution_table_entry_forward_address
<1>. HIDE DEF Forward
<1>4. e.dest_address \in Nodes \ Foreign /\ Subnet[e.dest_address] \notin Nodes
  BY DEF WellPlaced
<1>5. e.dest_address # n /\ Subnet[e.dest_address] # Subnet[n]
  BY <1>1, <1>3 DEF WellPlaced
<1>6. m \in Nodes /\ Subnet[m] = Subnet[e.dest_address]
  BY <1>3, <1>4, ReachedNodes
<1>7. Subnet[m] # Subnet[src]
  BY <1>4, <1>5, <1>6 DEF WellPlaced
<1>8. d.function = "forwarded" /\ d.src = src /\ d.to = m
  BY <1>2, DatagramFields
<1>. QED  BY <1>6, <1>7, <1>8 DEF OnItsWay

(* A BBMD repeats on its subnet what began on another one.                 *)
LEMMA SubnetOnItsWay ==
    ASSUME WellPlaced, NEW n \in Nodes, NEW src \in Nodes, Subnet[n] # Subnet[src]
    PROVE  AllOnTheirWay(bip_send_mpdu(n, bip_get_broadcast_addr(n), "forwarded", src))
<1>. DEFINE bag == bip_send_mpdu(n, bip_get_broadcast_addr(n), "forwarded", src)
<1>. SUFFICES ASSUME NEW d \in DOMAIN bag
              PROVE  OnItsWay(d)
  BY DEF AllOnTheirWay
<1>1. PICK m \in Reached(n, Subnet[n]) : d = Datagram(n, m, "forwarded", src)
  BY MpduSent DEF bip_get_broadcast_addr
<1>2. m \in Nodes /\ Subnet[m] = Subnet[n]
  BY ReachedNodes DEF WellPlaced
<1>3. d.function = "forwarded" /\ d.src = src /\ d.to = m
  BY <1>1, DatagramFields
<1>. QED  BY <1>2, <1>3 DEF OnItsWay

LEMMA SumOnTheirWay ==
    ASSUME NEW A, NEW B, AllOnTheirWay(A), AllOnTheirWay(B)
    PROVE  AllOnTheirWay(A (+) B)
BY BagSum DEF AllOnTheirWay

LEMMA EmptyOnTheirWay == AllOnTheirWay(EmptyBag)
BY EmptyBagEmpty DEF AllOnTheirWay

LEMMA GoesOnTheirWay ==
    ASSUME AllOnTheirWay(wire), RegistrationsOK, NEW d, NEW sent,
           AllOnTheirWay(sent), Goes(d, sent)
    PROVE  AllOnTheirWay(wire')
<1>1. DOMAIN (wire (-) SetToBag({d})) \subseteq DOMAIN wire
  BY TakenFromWire
<1>2. AllOnTheirWay(wire (-) SetToBag({d}))
  BY <1>1 DEF AllOnTheirWay
<1>. QED  BY <1>2, SumOnTheirWay DEF Goes

LEMMA WayStep ==
    ASSUME WellPlaced, TablesOK, RegistrationsOK, AllOnTheirWay(wire), [Next]_vars
    PROVE  AllOnTheirWay(wire')
<1>1. \A d \in DOMAIN wire : OnItsWay(d)
  BY DEF AllOnTheirWay
<1>2. ASSUME NEW d, OriginalBroadcast(d)
      PROVE  AllOnTheirWay(wire')
  <2>. DEFINE A == bbmd_fdt_forward_npdu(d.to, d.from)
              B == bbmd_bdt_forward_npdu(d.to, d.from)
  <2>1. Goes(d, EmptyBag) \/ Goes(d, A (+) B)
    BY <1>2 DEF OriginalBroadcast
  <2>2. d.from \in Nodes /\ d.to \in Nodes /\ Subnet[d.to] = Subnet[d.from]
    BY <1>1, <1>2 DEF OriginalBroadcast, Arrives, BagIn, BagToSet, OnItsWay
  <2>3. AllOnTheirWay(A) /\ AllOnTheirWay(B)
    BY <2>2, DevicesOnTheirWay, PeersOnTheirWay
  <2>. HIDE DEF A, B
  <2>. QED  BY <2>1, <2>3, SumOnTheirWay, EmptyOnTheirWay, GoesOnTheirWay
<1>3. ASSUME NEW d, ForwardedNpdu(d)
      PROVE  AllOnTheirWay(wire')
  <2>. DEFINE A == Rebroadcast(d.to, d)
              B == bbmd_fdt_forward_npdu(d.to, d.src)
  <2>1. \/ Goes(d, EmptyBag)
        \/ d.src # d.to /\ Goes(d, A (+) B)
    BY <1>3 DEF ForwardedNpdu
  <2>2. /\ d.src \in Nodes /\ d.to \in Nodes
        /\ d.src # d.to => Subnet[d.to] # Subnet[d.src]
    BY <1>1, <1>3 DEF ForwardedNpdu, Arrives, BagIn, BagToSet, OnItsWay
  <2>3. AllOnTheirWay(B) /\ (d.src # d.to => AllOnTheirWay(A))
    BY <2>2, DevicesOnTheirWay, SubnetOnItsWay, EmptyOnTheirWay DEF Rebroadcast
  <2>. HIDE DEF A, B
  <2>. QED  BY <2>1, <2>3, SumOnTheirWay, EmptyOnTheirWay, GoesOnTheirWay
<1>4. ASSUME NEW d, DistributeBroadcast(d)
      PROVE  AllOnTheirWay(wire')
  <2>. DEFINE A == bbmd_forward_npdu(d.to, d.from)
              B == bbmd_fdt_forward_npdu(d.to, d.from)
              C == bbmd_bdt_forward_npdu(d.to, d.from)
  <2>1. Goes(d, A (+) B (+) C)
    BY <1>4 DEF DistributeBroadcast
  <2>2. d.from \in Foreign /\ d.to = BBMD_Address[d.from]
    BY <1>1, <1>4 DEF DistributeBroadcast, Arrives, BagIn, BagToSet, OnItsWay
  <2>3. d.from \in Nodes /\ d.to \in Nodes /\ Subnet[d.to] # Subnet[d.from]
    <3>1. d.from \in Nodes /\ d.to \in Nodes /\ d.to # d.from
      BY <2>2, Homes
    <3>. QED  BY <2>2, <3>1 DEF WellPlaced
  <2>4. AllOnTheirWay(A) /\ AllOnTheirWay(B) /\ AllOnTheirWay(C)
    BY <2>2, <2>3, SubnetOnItsWay, DevicesOnTheirWay, PeersOnTheirWay
       DEF bbmd_forward_npdu
  <2>. HIDE DEF A, B, C
  <2>5. AllOnTheirWay(A (+) B (+) C)
    BY <2>4, SumOnTheirWay
  <2>. QED  BY <2>1, <2>5, GoesOnTheirWay
<1>5. ASSUME NEW n \in Nodes, bvlc_send_pdu(n)
      PROVE  AllOnTheirWay(wire')
  <2>1. CASE n \in Foreign
    <3>. DEFINE A == bip_send_mpdu(n, BBMD_Address[n], "distribute", n)
    <3>1. wire' = wire (+) A
      BY <1>5, <2>1 DEF bvlc_send_pdu
    <3>2. ASSUME NEW d \in DOMAIN A
          PROVE  OnItsWay(d)
      <4>1. PICK m \in Reached(n, BBMD_Address[n]) : d = Datagram(n, m, "distribute", n)
        BY MpduSent
      <4>2. m = BBMD_Address[n]
        BY <2>1, Homes, ReachedNodes
      <4>3. d.function = "distribute" /\ d.from = n /\ d.to = m
        BY <4>1, DatagramFields
      <4>. QED  BY <2>1, <4>2, <4>3 DEF OnItsWay
    <3>. HIDE DEF A
    <3>3. AllOnTheirWay(A)
      BY <3>2 DEF AllOnTheirWay
    <3>. QED  BY <3>1, <3>3, SumOnTheirWay
  <2>2. CASE n \notin Foreign
    <3>. DEFINE A == bip_send_mpdu(n, bip_get_broadcast_addr(n), "original", n)
                B == bbmd_fdt_forward_npdu(n, n)
                C == bbmd_bdt_forward_npdu(n, n)
    <3>1. wire' = wire (+) (A (+) B (+) C)
      BY <1>5, <2>2 DEF bvlc_send_pdu
    <3>2. ASSUME NEW d \in DOMAIN A
          PROVE  OnItsWay(d)
      <4>1. PICK m \in Reached(n, Subnet[n]) : d = Datagram(n, m, "original", n)
        BY MpduSent DEF bip_get_broadcast_addr
      <4>2. m \in Nodes /\ Subnet[m] = Subnet[n]
        BY ReachedNodes DEF WellPlaced
      <4>3. d.function = "original" /\ d.from = n /\ d.to = m
        BY <4>1, DatagramFields
      <4>. QED  BY <2>2, <4>2, <4>3 DEF OnItsWay
    <3>3. AllOnTheirWay(B) /\ AllOnTheirWay(C)
      BY DevicesOnTheirWay, PeersOnTheirWay
    <3>. HIDE DEF A, B, C
    <3>4. AllOnTheirWay(A)
      BY <3>2 DEF AllOnTheirWay
    <3>5. AllOnTheirWay(A (+) B (+) C)
      BY <3>3, <3>4, SumOnTheirWay
    <3>. QED  BY <3>1, <3>5, SumOnTheirWay
  <2>. QED  BY <2>1, <2>2
<1>6. ASSUME NEW d, RegisterForeignDevice(d) \/ Lose(d)
      PROVE  AllOnTheirWay(wire')
  BY <1>6, EmptyOnTheirWay, GoesOnTheirWay DEF RegisterForeignDevice, Lose
<1>7. ASSUME NEW f, dlenv_maintenance_timer(f)
      PROVE  AllOnTheirWay(wire')
  <2>. DEFINE A == bvlc_register_with_bbmd(f, BBMD_Address[f])
  <2>1. wire' = wire \/ wire' = wire (+) A
    BY <1>7 DEF dlenv_maintenance_timer
  <2>2. ASSUME NEW d \in DOMAIN A
        PROVE  OnItsWay(d)
    <3>1. d.function = "register"
      BY MpduSent, DatagramFields DEF bvlc_register_with_bbmd
    <3>. QED  BY <3>1 DEF OnItsWay
  <2>. HIDE DEF A
  <2>3. AllOnTheirWay(A)
    BY <2>2 DEF AllOnTheirWay
  <2>. QED  BY <2>1, <2>3, SumOnTheirWay
<1>8. CASE UNCHANGED wire
  BY <1>8
<1>9. CASE Deliver
  BY <1>2, <1>3, <1>4, <1>6, <1>9 DEF Deliver
<1>10. CASE Maintenance
  BY <1>7, <1>8, <1>10 DEF Maintenance, bvlc_maintenance_timer
<1>11. CASE Second \/ GuestRegisters
  BY <1>8, <1>11 DEF Second, GuestRegisters
<1>12. ASSUME NEW n, NEW f, bvlc_init(n) \/ DeleteForeignDevice(n, f)
       PROVE  AllOnTheirWay(wire')
  BY <1>8, <1>12 DEF bvlc_init, DeleteForeignDevice, PutOut
<1>13. CASE UNCHANGED vars
  BY <1>8, <1>13 DEF vars
<1>. QED
  BY <1>5, <1>6, <1>9, <1>10, <1>11, <1>12, <1>13 DEF Next

-----------------------------------------------------------------------------
(* The theorems.                                                           *)

LEMMA Initially ==
    ASSUME Init
    PROVE  TablesOK /\ RegistrationsOK /\ granted = {} /\ AllOnTheirWay(wire)
<1>. DEFINE empty == [i \in Slots |-> EmptySlot]
<1>1. TableOK(empty)
  BY EmptySlotType DEF TableOK
<1>. HIDE DEF empty
<1>2. FD_Table = [n \in BBMDs |-> empty]
  BY DEF Init, empty
<1>3. TablesOK
  BY <1>1, <1>2 DEF TablesOK, TableOK, Init
<1>4. wire = [d \in {Registration(f) : f \in Foreign} |-> 1]
  BY DEF Init, SetToBag, Registration
<1>5. \A d \in DOMAIN wire : wire[d] = 1 /\ \E f \in Foreign : d = Registration(f)
  BY <1>4
<1>6. /\ BBMD_Timer_Seconds \in [Foreign -> 1 .. BBMD_TTL_Seconds]
      /\ \A f \in Foreign : BBMD_Timer_Seconds[f] = BBMD_TTL_Seconds
      /\ due = {} /\ granted = {}
  BY BbmdConstants DEF Init
<1>7. RegistrationsOK
  BY <1>5, <1>6 DEF RegistrationsOK
<1>8. AllOnTheirWay(wire)
  BY <1>5, Homes DEF AllOnTheirWay, OnItsWay
<1>. QED  BY <1>3, <1>6, <1>7, <1>8

(* bvlc_foreign_device_table_entry_add never gives a device a second       *)
(* entry, in tables of any size and however registrations, expiries,       *)
(* deletions and restarts follow one another.                              *)
THEOREM OneEntryEachTheorem == Spec => []OneEntryEach
<1>1. Init => TablesOK /\ RegistrationsOK
  BY Initially
<1>2. TablesOK /\ RegistrationsOK /\ [Next]_vars => (TablesOK /\ RegistrationsOK)'
  BY TablesStep, RegistrationsStep
<1>3. TablesOK => OneEntryEach
  BY DEF TablesOK, TableOK, OneEntryEach, Live
<1>. QED  BY <1>1, <1>2, <1>3, PTL DEF Spec

(* A foreign device that was accepted and whose renewals arrive is never   *)
(* put out, in whatever order its BBMD and itself run their timers of each *)
(* second, for every lease that is two seconds longer than the time after  *)
(* which it renews.  That is so for every BBMD_TTL_Seconds but 65534 and   *)
(* 65535, where the grace period is cut short by the width of the counter. *)
THEOREM StaysRegisteredTheorem == GraceCovers => (Spec => []StaysRegistered)
<1>. SUFFICES ASSUME GraceCovers
              PROVE  Spec => []StaysRegistered
  OBVIOUS
<1>1. Init => LeaseInv
  BY Initially DEF LeaseInv
<1>2. LeaseInv /\ [Next]_vars => LeaseInv'
  <2>. SUFFICES ASSUME LeaseInv, [Next]_vars
                PROVE  LeaseInv'
    OBVIOUS
  <2>1. TablesOK' /\ RegistrationsOK'
    BY TablesStep, RegistrationsStep DEF LeaseInv
  <2>2. \A f \in granted' : Lasts(f)'
    BY LeaseStep
  <2>. QED  BY <2>1, <2>2 DEF LeaseInv
<1>3. LeaseInv => StaysRegistered
  <2>. SUFFICES ASSUME LeaseInv, NEW f \in granted
                PROVE  Registered(f)
    BY DEF StaysRegistered
  <2>1. TablesOK /\ RegistrationsOK /\ Lasts(f) /\ f \in Foreign
    BY DEF LeaseInv, RegistrationsOK
  <2>2. BBMD_Address[f] \in BBMDs
    BY <2>1, Homes
  <2>3. PICK i \in Slots : /\ FD_Table[BBMD_Address[f]][i].valid
                           /\ FD_Table[BBMD_Address[f]][i].dest_address = f
    BY <2>1 DEF Lasts
  <2>4. FD_Table[BBMD_Address[f]][i].ttl_seconds_remaining # 0
    BY <2>1, <2>2, <2>3 DEF TablesOK, TableOK
  <2>. QED  BY <2>2, <2>3, <2>4 DEF Registered, Live
<1>. QED  BY <1>1, <1>2, <1>3, PTL DEF Spec

(* bbmd_bdt_forward_npdu and the handlers of h_bbmd.c send no Forwarded-   *)
(* NPDU to the subnet on which the broadcast began, in every network of    *)
(* any number of subnets that is laid out as WellPlaced says; the entries  *)
(* of the other BBMDs may have unicast or directed broadcast masks.        *)
THEOREM NotBackTheorem == WellPlaced => (Spec => []NotBackToItsSubnet)
<1>. SUFFICES ASSUME WellPlaced
              PROVE  Spec => []NotBackToItsSubnet
  OBVIOUS
<1>. DEFINE Inv == TablesOK /\ RegistrationsOK /\ AllOnTheirWay(wire)
<1>1. Init => Inv
  BY Initially
<1>2. Inv /\ [Next]_vars => Inv'
  <2>. SUFFICES ASSUME Inv, [Next]_vars
                PROVE  Inv'
    OBVIOUS
  <2>1. TablesOK' /\ RegistrationsOK'
    BY TablesStep, RegistrationsStep
  <2>2. AllOnTheirWay(wire')
    BY WayStep
  <2>. QED  BY <2>1, <2>2
<1>3. Inv => NotBackToItsSubnet
  BY DEF AllOnTheirWay, OnItsWay, NotBackToItsSubnet, BagToSet
<1>. HIDE DEF Inv
<1>. QED  BY <1>1, <1>2, <1>3, PTL DEF Spec
=============================================================================
