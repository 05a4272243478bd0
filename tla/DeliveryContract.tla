------------------------- MODULE DeliveryContract -------------------------
(***************************************************************************)
(* What the pipeline promises to the destination, with the queues, leases  *)
(* and retries abstracted away: messages go out as if one courier carried  *)
(* them, one at a time.  The courier never takes out an item whose         *)
(* delivery is on record, and records each delivery before it takes the    *)
(* next message, unless the record is lost.                                *)
(***************************************************************************)
EXTENDS Naturals

CONSTANTS
  Items,   \* items that can be sent
  Nothing  \* what an idle courier carries

VARIABLES
  sent,     \* messages the destination received, per item
  onRecord, \* items whose delivery is on record
  carrying  \* the item that is delivered but not yet on record, or Nothing

contract == <<sent, onRecord, carrying>>

Init ==
  /\ sent = [i \in Items |-> 0]
  /\ onRecord = {}
  /\ carrying = Nothing

(* An item that is not on record goes out. *)
Send(i) ==
  /\ carrying = Nothing /\ i \notin onRecord
  /\ sent' = [sent EXCEPT ![i] = @ + 1]
  /\ carrying' = i
  /\ UNCHANGED onRecord

(* The same, and the courier never learns that it arrived. *)
SendUnconfirmed(i) ==
  /\ carrying = Nothing /\ i \notin onRecord
  /\ sent' = [sent EXCEPT ![i] = @ + 1]
  /\ UNCHANGED <<onRecord, carrying>>

Record(i) ==
  /\ carrying = i
  /\ onRecord' = onRecord \cup {i}
  /\ carrying' = Nothing
  /\ UNCHANGED sent

LoseRecord(i) ==
  /\ carrying = i
  /\ carrying' = Nothing
  /\ UNCHANGED <<sent, onRecord>>

(* A requeue or a removal takes items off the record. *)
Forget(S) ==
  /\ onRecord' = onRecord \ S
  /\ UNCHANGED <<sent, carrying>>

Next ==
  \/ \E i \in Items : Send(i) \/ SendUnconfirmed(i) \/ Record(i) \/ LoseRecord(i)
  \/ \E S \in SUBSET Items : Forget(S)

Spec == Init /\ [][Next]_contract
=============================================================================
