---------------------------- MODULE FeedContract ----------------------------
(***************************************************************************)
(* What the changefeed promises a device, with no statement, lock, page,   *)
(* horizon or transaction in sight.  Changes are published above every     *)
(* cursor; a delivery brings a device up to every published change at or   *)
(* below the cursor it hands out; the device sees committed versions only. *)
(* SyncFeed is shown to implement this contract.                           *)
(***************************************************************************)
EXTENDS Integers

CONSTANTS Entities, Devices

VARIABLES published, \* the last published change of each entity
          entity,    \* the entity itself: version and live-set membership
          seen,      \* what each device was told it has seen
          held       \* the version of each entity each device holds

vars == <<published, entity, seen, held>>

Init ==
  /\ published = [e \in Entities |-> [seq |-> 0, op |-> "none"]]
  /\ entity = [e \in Entities |-> [ver |-> 0, live |-> FALSE]]
  /\ seen = [d \in Devices |-> 0]
  /\ held = [d \in Devices |-> [e \in Entities |-> 0]]

\* New changes land above every cursor: nobody was told to look past them.
Publish ==
  /\ \A e \in Entities :
       \/ published'[e] = published[e] /\ entity'[e] = entity[e]
       \/ /\ \A d \in Devices : published'[e].seq > seen[d]
          /\ published'[e].seq > published[e].seq
          /\ entity'[e].ver = published'[e].seq
  /\ UNCHANGED <<seen, held>>

\* An entity leaves its live set by the clock.
Expire ==
  /\ \E e \in Entities : entity' = [entity EXCEPT ![e].live = FALSE]
  /\ UNCHANGED <<published, seen, held>>

\* Only tombstones are ever dropped from the feed.
Forget ==
  /\ \A e \in Entities :
       \/ published'[e] = published[e]
       \/ published[e].op = "delete" /\ published'[e].op = "none" /\ published'[e].seq = 0
  /\ UNCHANGED <<entity, seen, held>>

\* A version v of e that is no older than e's published change, or e's absence
\* when the change is a delete or the entity is no longer live.
Reflects(e, v) ==
  \/ published[e].op = "none"
  \/ published[e].op = "upsert" /\ v >= published[e].seq
  \/ v = 0 /\ (published[e].op = "delete" \/ ~entity[e].live)

Deliver(d) ==
  /\ \A c \in Devices \ {d} : seen'[c] = seen[c] /\ held'[c] = held[c]
  /\ \A e \in Entities : published[e].seq <= seen'[d] => Reflects(e, held'[d][e])
  /\ \A e \in Entities : held'[d][e] <= entity[e].ver
  /\ UNCHANGED <<published, entity>>

Next == Publish \/ Expire \/ Forget \/ \E d \in Devices : Deliver(d)

Spec == Init /\ [][Next]_vars
=============================================================================
