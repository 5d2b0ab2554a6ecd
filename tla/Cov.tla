--------------------------------- MODULE Cov --------------------------------
(***************************************************************************)
(* Change-of-value subscriptions (basic/service/h_cov.c) on top of the     *)
(* transaction table of Tsm, with DeviceCommunicationControl (dcc.c) and   *)
(* the Change_Of_Value flag of a monitored object (basic/object/bi.c).     *)
(* A subscription may hold an invoke ID across turns of the main loop: it  *)
(* is taken when a confirmed notification is sent, and looked at again     *)
(* when the FREE pass of handler_cov_fsm comes by, or when the             *)
(* subscription is renewed, cancelled or expires.                          *)
(*                                                                         *)
(* One action is one call of the main loop.  The device sends no confirmed *)
(* requests but notifications.                                             *)
(***************************************************************************)
EXTENDS Tsm

CONSTANTS
    MAX_COV_SUBCRIPTIONS,   \* 128 (spelled as in h_cov.c)
    MAX_COV_ADDRESSES,      \* 16
    Requests,               \* subscriptions clients ask for: the context
                            \* [src, process, object], confirmed or not, and
                            \* the lifetime in seconds; 0 is for ever
    Minutes,                \* durations found in DCC requests; 0 is for ever
    MinuteSeconds           \* 60: seconds in a minute

VARIABLES
    COV_Subscriptions,
    COV_Addresses,          \* NoAddress: the entry is not valid
    cov_task_state,         \* the state of handler_cov_fsm
    index,                  \* and the subscription its pass has come to
    DCC,                    \* DCC_Enable_Disable, DCC_Time_Duration_Seconds
    Change_Of_Value,        \* the flag of each monitored object
    owed                    \* history: whether subscription i has still to
                            \* be sent the present value of its object

ASSUME CovConstants ==
    /\ MAX_COV_SUBCRIPTIONS \in Nat \ {0}
    /\ MAX_COV_ADDRESSES \in Nat \ {0}
    /\ \A r \in Requests :
         /\ DOMAIN r = {"context", "confirmed", "lifetime"}
         /\ DOMAIN r.context = {"src", "process", "object"}
         /\ r.context.src \in Address
         /\ r.confirmed \in BOOLEAN /\ r.lifetime \in Nat
    /\ Minutes \subseteq Nat
    /\ MinuteSeconds \in Nat \ {0}

(* A call that does not touch the TSM.                                     *)
TsmUntouched ==
    /\ UNCHANGED <<tsm, Duplicate_Count, nullbuf, pending, refused, asked>>
    /\ out' = <<>>

listvars == <<COV_Subscriptions, COV_Addresses>>
taskvars == <<cov_task_state, index>>
covvars == <<vars, listvars, taskvars, DCC, Change_Of_Value, owed>>

Subscriptions == 0 .. MAX_COV_SUBCRIPTIONS - 1
AddressEntries == 0 .. MAX_COV_ADDRESSES - 1
Contexts == {r.context : r \in Requests}
Objects == {c.object : c \in Contexts}

(* Every field of an entry that is not valid is written before it is read. *)
Invalid ==
    [valid |-> FALSE, dest_index |-> MAX_COV_ADDRESSES,
     context |-> CHOOSE c \in Contexts : TRUE, confirmed |-> FALSE,
     invokeID |-> 0, lifetime |-> 0, send_requested |-> FALSE]

handler_cov_init ==
    /\ COV_Subscriptions = [i \in Subscriptions |-> Invalid]
    /\ COV_Addresses = [a \in AddressEntries |-> NoAddress]

(* DISABLE is refused by h_dcc.c since protocol revision 20.               *)
COMMUNICATION_ENABLE == "ENABLE"
COMMUNICATION_DISABLE_INITIATION == "DISABLE_INITIATION"

CovInit ==
    /\ Init
    /\ handler_cov_init
    /\ cov_task_state = "IDLE"
    /\ index = 0
    /\ DCC = [status |-> COMMUNICATION_ENABLE, duration |-> 0]
    /\ Change_Of_Value = [o \in Objects |-> FALSE]
    /\ owed = [i \in Subscriptions |-> "no"]

-----------------------------------------------------------------------------
(* The list of subscribers' addresses.                                     *)

cov_address_get(i) ==
    IF i \in AddressEntries THEN COV_Addresses[i] ELSE NoAddress

(* Mutant: the address goes with any of the subscriptions that use it.     *)
RemoveWithOne(subs) ==
    [a \in AddressEntries |->
        IF \E i \in Subscriptions :
              COV_Subscriptions[i].dest_index = a /\ ~ subs[i].valid
        THEN NoAddress
        ELSE COV_Addresses[a]]

cov_address_remove_unused(subs) ==
    [a \in AddressEntries |->
        IF \E i \in Subscriptions : subs[i].valid /\ subs[i].dest_index = a
        THEN COV_Addresses[a]
        ELSE NoAddress]

(* Where src is or would be put, -1 when there is no room.                 *)
cov_address_add(src) ==
    First({a \in AddressEntries : COV_Addresses[a] = src},
          First({a \in AddressEntries : COV_Addresses[a] = NoAddress}, -1))

-----------------------------------------------------------------------------
(* SubscribeCOV requests.  Whenever DCC is not ENABLE, the dispatch of     *)
(* h_apdu.c drops them.                                                    *)

dcc_communication_enabled == DCC.status = COMMUNICATION_ENABLE

Matches(i, c) ==
    LET s == COV_Subscriptions[i]
    IN /\ s.valid
       /\ s.context.object = c.object /\ s.context.process = c.process
       /\ cov_address_get(s.dest_index) \in {c.src, NoAddress}

Existing(c) ==
    First({i \in Subscriptions : Matches(i, c)}, MAX_COV_SUBCRIPTIONS)

FirstInvalid ==
    First({i \in Subscriptions : ~ COV_Subscriptions[i].valid},
          MAX_COV_SUBCRIPTIONS)

FreeHeld(id) == IF id # 0 THEN tsm_free_invoke_id(tsm, id) ELSE tsm

Cancel(c) ==
    LET i == Existing(c)
        subs == [COV_Subscriptions EXCEPT ![i] = Invalid]
    IN /\ i \in Subscriptions
       /\ COV_Subscriptions' = subs
       /\ COV_Addresses' = cov_address_remove_unused(subs)
       /\ tsm' = FreeHeld(COV_Subscriptions[i].invokeID)
       /\ owed' = [owed EXCEPT ![i] = "no"]

Renew(r) ==
    LET i == Existing(r.context)
        a == cov_address_add(r.context.src)
    IN /\ i \in Subscriptions
       /\ COV_Subscriptions' = [COV_Subscriptions EXCEPT
             ![i].dest_index = a, ![i].confirmed = r.confirmed,
             ![i].lifetime = r.lifetime, ![i].send_requested = TRUE,
             ![i].invokeID = 0]
       /\ COV_Addresses' = IF a \in AddressEntries
                           THEN [COV_Addresses EXCEPT ![a] = r.context.src]
                           ELSE COV_Addresses
       /\ tsm' = FreeHeld(COV_Subscriptions[i].invokeID)
       /\ owed' = [owed EXCEPT ![i] = "yes"]

Subscribe(r) ==
    LET i == FirstInvalid
        a == cov_address_add(r.context.src)
    IN /\ Existing(r.context) \notin Subscriptions
       /\ i \in Subscriptions
       /\ a \in AddressEntries
       /\ COV_Subscriptions' = [COV_Subscriptions EXCEPT ![i] =
             [valid |-> TRUE, dest_index |-> a, context |-> r.context,
              confirmed |-> r.confirmed, invokeID |-> 0,
              lifetime |-> r.lifetime, send_requested |-> TRUE]]
       /\ COV_Addresses' = [COV_Addresses EXCEPT ![a] = r.context.src]
       /\ owed' = [owed EXCEPT ![i] = "yes"]
       /\ UNCHANGED tsm

(* No room for the subscription or for the address (the client gets an     *)
(* Error), or nothing to cancel (it gets an ACK): nothing is changed.      *)
handler_cov_subscribe ==
    /\ dcc_communication_enabled
    /\ \/ \E c \in Contexts : Cancel(c)
       \/ \E r \in Requests : Renew(r)
       \/ \E r \in Requests : Subscribe(r)
    /\ out' = <<>>
    /\ UNCHANGED <<Duplicate_Count, nullbuf, pending, refused, asked>>
    /\ UNCHANGED <<taskvars, DCC, Change_Of_Value>>

-----------------------------------------------------------------------------
(* The timers of one second.                                               *)

Expired(i) == COV_Subscriptions[i].valid /\ COV_Subscriptions[i].lifetime = 1

Aged(s) ==
    IF s.valid /\ s.lifetime # 0 THEN [s EXCEPT !.lifetime = @ - 1] ELSE s

(* Mutant: only the subscription is dropped, not the invoke ID it holds.   *)
ExpiryKeepsSlots == tsm

(* The invoke IDs of the expired subscriptions are freed.                  *)
ExpiryFreesSlots ==
    LET freed == {COV_Subscriptions[i].invokeID :
                    i \in {j \in Subscriptions :
                            Expired(j) /\ COV_Subscriptions[j].confirmed}}
                 \ {0}
    IN [tsm EXCEPT !.list = [i \in Slots |->
            IF tsm.list[i].InvokeID \in freed
            THEN FreeSlot(tsm.list[i])
            ELSE tsm.list[i]]]

(* cov_lifetime_expiration_handler for every subscription, one second.     *)
handler_cov_timer_seconds ==
    LET subs == [i \in Subscriptions |->
                    IF Expired(i) THEN Invalid ELSE Aged(COV_Subscriptions[i])]
    IN /\ COV_Subscriptions' = subs
       /\ COV_Addresses' = IF \E i \in Subscriptions : Expired(i)
                           THEN cov_address_remove_unused(subs)
                           ELSE COV_Addresses
       /\ tsm' = ExpiryFreesSlots
       /\ owed' = [i \in Subscriptions |-> IF Expired(i) THEN "no" ELSE owed[i]]

(* A duration of 0 is for ever.                                            *)
dcc_timer_seconds ==
    DCC' = CASE DCC.duration > 1 -> [DCC EXCEPT !.duration = @ - 1]
             [] DCC.duration = 1 ->
                  [status |-> COMMUNICATION_ENABLE, duration |-> 0]
             [] OTHER -> DCC

Second ==
    /\ dcc_timer_seconds
    /\ handler_cov_timer_seconds
    /\ out' = <<>>
    /\ UNCHANGED <<Duplicate_Count, nullbuf, pending, refused, asked>>
    /\ UNCHANGED <<taskvars, Change_Of_Value>>

(* A DeviceCommunicationControl request, processed in every state.         *)
dcc_set_status_duration(status, minutes) ==
    /\ DCC' = [status |-> status,
               duration |-> IF status = COMMUNICATION_ENABLE
                            THEN 0 ELSE minutes * MinuteSeconds]
    /\ TsmUntouched
    /\ UNCHANGED <<listvars, taskvars, Change_Of_Value, owed>>

-----------------------------------------------------------------------------
(* The monitored objects.                                                  *)

(* The MARK pass has gone by subscription i and the CLEAR pass is not over *)
(* yet: a change that comes now is marked in the next round, if the flag   *)
(* lasts until then.                                                       *)
MarkPassed(i) ==
    /\ \/ cov_task_state = "MARK" /\ index > i
       \/ cov_task_state = "CLEAR"
    /\ ~ COV_Subscriptions[i].send_requested

(* The present value becomes another one.                                  *)
Present_Value_Set(o) ==
    /\ Change_Of_Value' = [Change_Of_Value EXCEPT ![o] = TRUE]
    /\ owed' = [i \in Subscriptions |->
                  IF /\ COV_Subscriptions[i].valid
                     /\ COV_Subscriptions[i].context.object = o
                  THEN IF MarkPassed(i) THEN "overtaken" ELSE "yes"
                  ELSE owed[i]]
    /\ TsmUntouched
    /\ UNCHANGED <<listvars, taskvars, DCC>>

-----------------------------------------------------------------------------
(* handler_cov_fsm: four passes over the subscriptions, one entry a call.  *)

(* Mutant: the last entry is never reached.                                *)
StepSkipsLast(state, next) ==
    /\ cov_task_state = state
    /\ index' = IF index + 2 < MAX_COV_SUBCRIPTIONS THEN index + 1 ELSE 0
    /\ cov_task_state' = IF index + 2 < MAX_COV_SUBCRIPTIONS THEN state ELSE next

Step(state, next) ==
    /\ cov_task_state = state
    /\ index' = (index + 1) % MAX_COV_SUBCRIPTIONS
    /\ cov_task_state' = IF index + 1 < MAX_COV_SUBCRIPTIONS THEN state ELSE next

COV_STATE_IDLE ==
    /\ cov_task_state = "IDLE"
    /\ index' = 0
    /\ cov_task_state' = "MARK"
    /\ TsmUntouched
    /\ UNCHANGED <<listvars, Change_Of_Value, owed>>

COV_STATE_MARK ==
    /\ Step("MARK", "CLEAR")
    /\ COV_Subscriptions' = [COV_Subscriptions EXCEPT ![index].send_requested =
          @ \/ /\ COV_Subscriptions[index].valid
               /\ Change_Of_Value[COV_Subscriptions[index].context.object]]
    /\ TsmUntouched
    /\ UNCHANGED <<COV_Addresses, Change_Of_Value, owed>>

(* When the flag is cleared for entry j, another entry for the same object *)
(* that the change overtook is forgotten, unless it was marked since.      *)
Forgets(j, i) ==
    /\ j # i
    /\ owed[i] = "overtaken" /\ ~ COV_Subscriptions[i].send_requested
    /\ COV_Subscriptions[j].context.object = COV_Subscriptions[i].context.object

Clears(s) == s.valid /\ s.send_requested

ClearedBy(j) ==
    owed' = [i \in Subscriptions |->
               IF Clears(COV_Subscriptions[j]) /\ Forgets(j, i)
               THEN "forgotten" ELSE owed[i]]

(* Mutant: the flag is cleared whether or not the entry was marked.        *)
ClearUnmarked ==
    /\ Step("CLEAR", "FREE")
    /\ LET s == COV_Subscriptions[index]
       IN Change_Of_Value' = [Change_Of_Value EXCEPT ![s.context.object] =
                                @ /\ ~ s.valid]
    /\ ClearedBy(index)
    /\ TsmUntouched
    /\ UNCHANGED listvars

COV_STATE_CLEAR ==
    /\ Step("CLEAR", "FREE")
    /\ LET s == COV_Subscriptions[index]
       IN Change_Of_Value' = [Change_Of_Value EXCEPT ![s.context.object] =
                                @ /\ ~ Clears(s)]
    /\ ClearedBy(index)
    /\ TsmUntouched
    /\ UNCHANGED listvars

(* A notification that was answered, or that the TSM has given up.         *)
COV_STATE_FREE ==
    /\ Step("FREE", "SEND")
    /\ LET s == COV_Subscriptions[index]
           held == s.valid /\ s.confirmed /\ s.invokeID # 0
           answered == held /\ tsm_invoke_id_free(s.invokeID)
           failed == held /\ tsm_invoke_id_failed(s.invokeID)
       IN /\ COV_Subscriptions' = [COV_Subscriptions EXCEPT ![index].invokeID =
                                     IF answered \/ failed THEN 0 ELSE @]
          /\ tsm' = IF failed THEN tsm_free_invoke_id(tsm, s.invokeID) ELSE tsm
    /\ out' = <<>>
    /\ UNCHANGED <<Duplicate_Count, nullbuf, pending, refused, asked>>
    /\ UNCHANGED <<COV_Addresses, Change_Of_Value, owed>>

(* As in Tsm: the copy is stored through the slot's pointer, null or not.  *)
tsm_set_confirmed_unsegmented_transaction(t, id, dest) ==
    LET i == tsm_find_invokeID_index(t, id)
    IN SetSlot(t, i, [t.list[i] EXCEPT
                        !.state = AWAIT_CONFIRMATION, !.RetryCount = 0,
                        !.RequestTimer = ApduTimeout, !.dest = dest,
                        !.apdu = IF @ = NULL THEN NULL ELSE ClientApdu(id)])

(* A notification with the present value; sent: the data link takes it.    *)
(* A confirmed one is with the TSM even when the data link refuses it, and *)
(* stays requested then.                                                   *)
cov_send_request(i, sent) ==
    LET s == COV_Subscriptions[i]
        r == tsm_next_free_invokeID(tsm)
        dest == cov_address_get(s.dest_index)
    IN /\ COV_Subscriptions' = [COV_Subscriptions EXCEPT
             ![i].invokeID = IF s.confirmed THEN r.id ELSE @,
             ![i].send_requested = ~ sent]
       /\ owed' = [owed EXCEPT ![i] = IF sent THEN "no" ELSE @]
       /\ \/ /\ s.confirmed
             /\ tsm' = tsm_set_confirmed_unsegmented_transaction(r.t, r.id, dest)
             /\ nullbuf' = IF tsm'.list[tsm_find_invokeID_index(r.t, r.id)].apdu
                                = NULL
                           THEN ClientApdu(r.id) ELSE nullbuf
          \/ ~ s.confirmed /\ UNCHANGED <<tsm, nullbuf>>

Sendable(s) ==
    /\ s.valid /\ s.send_requested
    /\ s.confirmed => s.invokeID = 0 /\ tsm_transaction_available(tsm)

COV_STATE_SEND(sent) ==
    LET s == COV_Subscriptions[index]
        send == /\ Sendable(s)
                /\ dcc_communication_enabled
                /\ cov_address_get(s.dest_index) # NoAddress
    IN /\ Step("SEND", "IDLE")
       /\ \/ send /\ cov_send_request(index, sent)
          \/ ~ send /\ UNCHANGED <<tsm, nullbuf, COV_Subscriptions, owed>>
       /\ out' = <<>>
       /\ UNCHANGED <<Duplicate_Count, pending, refused, asked>>
       /\ UNCHANGED <<COV_Addresses, Change_Of_Value>>

handler_cov_fsm(sent) ==
    /\ \/ COV_STATE_IDLE
       \/ COV_STATE_MARK
       \/ COV_STATE_CLEAR
       \/ COV_STATE_FREE
       \/ COV_STATE_SEND(sent)
    /\ UNCHANGED DCC

-----------------------------------------------------------------------------
(* The subscribers' answers to notifications, and the timer of the TSM.    *)

TsmStep(A) == A /\ UNCHANGED <<listvars, taskvars, DCC, Change_Of_Value, owed>>

NotificationAnswered ==
    \E i \in Slots :
        /\ tsm.list[i].state = AWAIT_CONFIRMATION
        /\ \/ TsmStep(AckReceived(tsm.list[i].dest, tsm.list[i].InvokeID))
           \/ TsmStep(ErrorReceived(tsm.list[i].dest, tsm.list[i].InvokeID))

Environment ==
    \/ handler_cov_subscribe
    \/ \E o \in Objects : Present_Value_Set(o)
    \/ \E minutes \in Minutes,
          status \in {COMMUNICATION_ENABLE, COMMUNICATION_DISABLE_INITIATION} :
             dcc_set_status_duration(status, minutes)

CovNext ==
    \/ Environment
    \/ Second
    \/ \E sent \in BOOLEAN : handler_cov_fsm(sent)
    \/ NotificationAnswered
    \/ TsmStep(tsm_timer_milliseconds)

(* The main loop calls the task in every turn and the timers when they are *)
(* due, whatever is received in between.                                   *)
CovSpec ==
    /\ CovInit
    /\ [][CovNext]_covvars
    /\ WF_covvars(\E sent \in BOOLEAN : handler_cov_fsm(sent))
    /\ WF_covvars(Second)
    /\ WF_covvars(TsmStep(tsm_timer_milliseconds))

-----------------------------------------------------------------------------
(* Properties.                                                             *)

(* A valid subscription has the address of its own subscriber, although    *)
(* subscribers share the entries and every cancellation or expiry sweeps   *)
(* the list; no address is listed twice or kept without a subscription.    *)
AddressesShared ==
    /\ \A i \in Subscriptions :
         COV_Subscriptions[i].valid =>
            cov_address_get(COV_Subscriptions[i].dest_index)
                = COV_Subscriptions[i].context.src
    /\ \A a, b \in AddressEntries :
         COV_Addresses[a] = COV_Addresses[b] /\ COV_Addresses[a] # NoAddress
            => a = b
    /\ \A a \in AddressEntries :
         COV_Addresses[a] # NoAddress =>
            \E i \in Subscriptions :
                COV_Subscriptions[i].valid /\ COV_Subscriptions[i].dest_index = a

(* No slot of the TSM leaks: every one in use is held by a subscription    *)
(* that asked for confirmed notifications, of the device it talks to.      *)
SlotsHeld ==
    \A k \in Slots :
        tsm.list[k].InvokeID # 0 =>
            \E i \in Subscriptions :
                /\ COV_Subscriptions[i].valid
                /\ COV_Subscriptions[i].confirmed
                /\ COV_Subscriptions[i].invokeID = tsm.list[k].InvokeID
                /\ COV_Subscriptions[i].context.src = tsm.list[k].dest

(* No change is lost between the passes, with one exception: a subscriber  *)
(* that has not been sent the present value is marked, or will be, because *)
(* the flag of its object is still set.  The exception takes a second      *)
(* subscription for the same object: the change came when the MARK pass    *)
(* had gone by the first, and the CLEAR pass cleared the flag for the      *)
(* second.  It lasts until the value changes again.                        *)
NoChangeLost ==
    \A i \in Subscriptions :
        COV_Subscriptions[i].valid /\ owed[i] \in {"yes", "overtaken"} =>
            \/ COV_Subscriptions[i].send_requested
            \/ Change_Of_Value[COV_Subscriptions[i].context.object]

(* "clear the COV flag after checking all subscriptions" (h_cov.c): the    *)
(* exception does not occur.                                               *)
NeverForgotten == \A i \in Subscriptions : owed[i] # "forgotten"

(* Everything but the environment, with a data link that takes what is     *)
(* sent.                                                                   *)
Undisturbed ==
    \/ Second
    \/ handler_cov_fsm(TRUE)
    \/ NotificationAnswered
    \/ TsmStep(tsm_timer_milliseconds)

(* Liveness: once nobody subscribes and nothing changes any more, and DCC  *)
(* was not disabled for ever, every subscriber is sent the present value,  *)
(* also when the TSM has fewer slots than there are subscriptions; but for *)
(* those whose last change was lost to another subscription for the same   *)
(* object, the exception of NoChangeLost.                                  *)
EveryoneTold ==
    /\ <>[][Undisturbed]_covvars
    /\ <>[](dcc_communication_enabled \/ DCC.duration > 0)
    => <>[](\A i \in Subscriptions :
              COV_Subscriptions[i].valid => owed[i] \in {"no", "forgotten"})
=============================================================================
