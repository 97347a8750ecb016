---------------------------- MODULE MCModeration ----------------------------
(* Moderation on the event loop and in one thread of the pool beside it; a *)
(* worker would take the steps of the loop.                                *)
EXTENDS Moderation

CONSTANT Other

\* Neither text is suspicious on its own: only the campaign can tell.
MCOwnScore == [t \in Text |-> 20]

InFlight == {calls[p] : p \in {q \in Process : calls[q] # NoCall}}

Used == {r \in RequestId : stored[r] # {}} \cup {call.request : call \in InFlight}

(* Ids that were never used are interchangeable, so the least of them is   *)
(* used next: what a SYMMETRY of six ids would give, at less cost.         *)
FreshIdsInOrder == \A r \in Used' \ Used : \A q \in RequestId : q < r => q \in Used

(* A single id is given content of the other campaign, before or after its *)
(* own.                                                                    *)
OtherContentOnce ==
    Cardinality({r \in RequestId : Other \in stored[r]}
                \cup {call.request : call \in {c \in InFlight : c.text = Other}}) <= 1
=============================================================================
