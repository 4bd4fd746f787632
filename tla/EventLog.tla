------------------------------ MODULE EventLog ------------------------------
(***************************************************************************)
(* What ingestion promises to a client, whatever its queue, tables and     *)
(* buckets do: an accepted event may come and go in the answers to queries *)
(* until it is settled; from then on it is never written again and every   *)
(* query finds it.  An event may be refused instead.                       *)
(***************************************************************************)
CONSTANT Event
VARIABLES accepted, readable, settled, refused

vars == <<accepted, readable, settled, refused>>

Init == accepted = {} /\ readable = {} /\ settled = {} /\ refused = {}

Accept(e) ==
  /\ accepted' = accepted \union {e}
  /\ UNCHANGED <<readable, settled, refused>>

\* What is settled stays readable.
Write ==
  /\ readable' \in SUBSET accepted
  /\ settled \subseteq readable'
  /\ UNCHANGED <<accepted, settled, refused>>

Settle ==
  /\ settled' \in SUBSET readable
  /\ settled \subseteq settled'
  /\ UNCHANGED <<accepted, readable, refused>>

Refuse(e) ==
  /\ e \in accepted \ settled
  /\ refused' = refused \union {e}
  /\ UNCHANGED <<accepted, readable, settled>>

Next ==
  \/ \E e \in Event : Accept(e) \/ Refuse(e)
  \/ Write \/ Settle

Spec == Init /\ [][Next]_vars
=============================================================================
