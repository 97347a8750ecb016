------------------------ MODULE AtLeastOnceDelivery ------------------------
(***************************************************************************)
(* The delivery contract of the worker group: a message is acknowledged    *)
(* only once it is settled, and every message is acknowledged in the end.  *)
(***************************************************************************)
VARIABLES published,    \* messages on the consumed topics
          settled,      \* those whose outcome is on a downstream topic
          acknowledged  \* those whose offset the group committed

vars == <<published, settled, acknowledged>>

Init == published = {} /\ settled = {} /\ acknowledged = {}

\* Messages arrive and outcomes appear; neither is ever taken back.
Deliver == /\ published \subseteq published'
           /\ settled \subseteq settled'
           /\ settled' \subseteq published'
           /\ UNCHANGED acknowledged

Acknowledge == /\ \E m \in settled \ acknowledged : acknowledged' = acknowledged \cup {m}
               /\ UNCHANGED <<published, settled>>

Next == Deliver \/ Acknowledge

SafeSpec == Init /\ [][Next]_vars

\* A consumer group with someone alive in it catches up with the topics.
CatchesUp == []<>(acknowledged = published)

Spec == SafeSpec /\ CatchesUp
=============================================================================
