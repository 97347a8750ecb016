----------------------------- MODULE Moderation -----------------------------
(***************************************************************************)
(* Moderations that run side by side over one vector index: the event loop *)
(* moderates a text at a time, a thread of the pool each image, a worker   *)
(* its events.  Each searches for similar content, stores its own vector   *)
(* and only then decides; whatever runs in between is not seen.  A Text    *)
(* stands for a campaign: all content whose vectors lie within the         *)
(* similarity threshold of each other.  A call refused before it searches, *)
(* or whose search fails, leaves no trace.                                 *)
(***************************************************************************)
EXTENDS ModerationPolicy

CONSTANTS RequestId, Text, Loop, Thread, Worker,
          OwnScore,     \* the strictest score of rules and models for each text
          ImageScore,   \* scores the image model may give
          SearchLimit,  \* search_limit
          MaxCalls, MaxFailures,
          NoCall, NoText, NoImage

Process == {Loop} \cup Thread \cup Worker

SignalRecord == [source : {"ml", "vector", "vision", "policy"}, score : 0..100,
                 category : {"toxicity", "coordinated_abuse", "graphic_violence",
                             "cross_modal_disagreement"}]

Moderated == [decision : {"allow", "review", "block"}, risk : 0..100, signals : SUBSET SignalRecord]

Call == [request : RequestId, text : Text \cup {NoText}, image : ImageScore \cup {NoImage},
         matches : 0..SearchLimit, response : Moderated \cup {NoCall}]

\* The limit is 20: enough to tell five others from a request's own vector.
ASSUME ModerationAssumption ==
    /\ OwnScore \in [Text -> 0..100]
    /\ ImageScore \subseteq 0..100
    /\ {SearchLimit, MaxCalls, MaxFailures} \subseteq Nat
    /\ SearchLimit >= 6
    /\ IsFiniteSet(RequestId) /\ IsFiniteSet(Thread) /\ IsFiniteSet(Worker)
    /\ NoCall \notin Moderated \cup Call
    /\ NoText \notin Text
    /\ NoImage \notin ImageScore

VARIABLES index,     \* Qdrant: the text whose vector is stored for each request id
          calls,     \* the moderation each process is in
          prior,     \* observed: who had been answered in the campaign when p searched
          stored,    \* observed: the texts ever stored under each request id
          answered,  \* observed: the texts answered under each id, and those allowed
          allowed,
          started, failures

vars == <<index, calls, prior, stored, answered, allowed, started, failures>>

Init == /\ index = [r \in RequestId |-> NoText]
        /\ calls = [p \in Process |-> NoCall]
        /\ prior = [p \in Process |-> {}]
        /\ stored = [r \in RequestId |-> {}]
        /\ answered = [r \in RequestId |-> {}]
        /\ allowed = [r \in RequestId |-> {}]
        /\ started = 0
        /\ failures = 0

\* Mutant: a request finds the vector it stored itself before.
OthersAndItself(found, r) == found

\* The matches that count: the request's own vector is no evidence against it.
Others(found, r) == found \ {r}

\* What the two engines make of a call: the stages of each request kind.
Decided(call) ==
    LET text == TextResponse({}, OwnScore[call.text], call.matches)
        scores == [c \in {"graphic_violence"} |-> call.image]
    IN  IF call.text = NoText THEN ImageResponse(scores)
        ELSE IF call.image = NoImage THEN text ELSE FusedResponse(text, scores)

Begin(p, call) == /\ calls[p] = NoCall
                  /\ started < MaxCalls
                  /\ started' = started + 1
                  /\ calls' = [calls EXCEPT ![p] = call]

(* Image and model scores are ready; the index is asked for its nearest    *)
(* vectors, at most SearchLimit of them.                                   *)
Search(p, r, t, image) ==
    /\ (image # NoImage) = (p \in Thread)
    /\ LET similar == {q \in RequestId : index[q] = t}
       IN  \E found \in kSubset(Min({SearchLimit, Cardinality(similar)}), similar) :
              Begin(p, [request |-> r, text |-> t, image |-> image, response |-> NoCall,
                        matches |-> Cardinality(Others(found, r))])
    /\ prior' = [prior EXCEPT ![p] = {q \in RequestId \ {r} : t \in answered[q]}]
    /\ UNCHANGED <<index, stored, answered, allowed, failures>>

\* Mutant: an image without a text is searched for and indexed as well.
InspectImageAsText(p, r, image) ==
    /\ p \in Thread
    /\ Begin(p, [request |-> r, text |-> NoText, image |-> image, matches |-> 0,
                 response |-> NoCall])
    /\ UNCHANGED <<index, prior, stored, answered, allowed, failures>>

(* An image without a text needs no search. *)
InspectImage(p, r, image) ==
    /\ p \in Thread
    /\ LET call == [request |-> r, text |-> NoText, image |-> image, matches |-> 0,
                    response |-> NoCall]
       IN  Begin(p, [call EXCEPT !.response = Decided(call)])
    /\ UNCHANGED <<index, prior, stored, answered, allowed, failures>>

Undecided(p) == calls[p] # NoCall /\ calls[p].response = NoCall
Deciding(p) == calls[p] # NoCall /\ calls[p].response # NoCall

\* Mutant: vectors are stored under a name of the text, not of the request.
StorePerText(call) ==
    /\ index' = IF \E q \in RequestId : index[q] = call.text THEN index
                ELSE [index EXCEPT ![call.request] = call.text]
    /\ stored' = [stored EXCEPT ![call.request] = @ \cup {call.text}]

\* The vector replaces the one stored under the same request id.
Store(call) == /\ index' = [index EXCEPT ![call.request] = call.text]
               /\ stored' = [stored EXCEPT ![call.request] = @ \cup {call.text}]

Upsert(p) == /\ Undecided(p)
             /\ Store(calls[p])
             /\ calls' = [calls EXCEPT ![p].response = Decided(calls[p])]
             /\ UNCHANGED <<prior, answered, allowed, started, failures>>

End(p) == calls' = [calls EXCEPT ![p] = NoCall] /\ prior' = [prior EXCEPT ![p] = {}]

(* A call or its process ends before it could answer: the index keeps what *)
(* reached it, also when the upsert itself timed out.                      *)
Fail(p) == /\ calls[p] # NoCall
           /\ failures < MaxFailures
           /\ failures' = failures + 1
           /\ End(p)
           /\ \/ UNCHANGED <<index, stored>>
              \/ Undecided(p) /\ Store(calls[p])
           /\ UNCHANGED <<answered, allowed, started>>

\* The client, or the result topic, is given the response.
Give(call) ==
    IF call.text = NoText THEN UNCHANGED <<answered, allowed>>
    ELSE /\ answered' = [answered EXCEPT ![call.request] = @ \cup {call.text}]
         /\ allowed' = IF call.response.decision = "allow"
                       THEN [allowed EXCEPT ![call.request] = @ \cup {call.text}]
                       ELSE allowed

(* The route answers and enqueues the response for review (ReviewWorkflow) *)
(* on the event loop; a worker publishes it.                               *)
Answer(p) == /\ Deciding(p)
             /\ p \in Thread => calls[Loop] = NoCall
             /\ Give(calls[p])
             /\ End(p)
             /\ UNCHANGED <<index, stored, started, failures>>

Next == \E p \in Process :
           \/ \E r \in RequestId, t \in Text, image \in ImageScore \cup {NoImage} :
                 Search(p, r, t, image)
           \/ \E r \in RequestId, image \in ImageScore : InspectImage(p, r, image)
           \/ Upsert(p) \/ Fail(p) \/ Answer(p)

Spec == Init /\ [][Next]_vars
-----------------------------------------------------------------------------
(* A call that has no text is decided by its image alone, never indexed.   *)
TypeOK == /\ index \in [RequestId -> Text \cup {NoText}]
          /\ calls \in [Process -> Call \cup {NoCall}]
          /\ \A p \in Process : Undecided(p) => calls[p].text \in Text
          /\ prior \in [Process -> SUBSET RequestId]
          /\ {stored, answered, allowed} \subseteq [RequestId -> SUBSET Text]

\* No other content was ever stored under q.
Loyal(q, t) == stored[q] \subseteq {t}

(* A campaign is acted on once its members are known: whatever failed or   *)
(* was sent again in between, a text that comes after two answered members *)
(* is not allowed and one that comes after five is blocked, as long as     *)
(* those members were not replaced by other content under their ids        *)
(* (threat_intelligence/service.py, assess_and_index).                     *)
CampaignIsNoticed ==
    \A p \in Process : Deciding(p) /\ calls[p].text # NoText =>
        LET members == {q \in prior[p] : Loyal(q, calls[p].text)}
        IN  /\ Cardinality(members) >= 2 => calls[p].response.decision # "allow"
            /\ Cardinality(members) >= 5 => calls[p].response.decision = "block"

(* A replay, a retry or a redelivery is no evidence: a campaign signal     *)
(* needs as many other requests with similar content as its score tells    *)
(* (service.py, distinct_matches).                                         *)
NoFalseCampaign ==
    \A p \in Process : Deciding(p) =>
        \A s \in calls[p].response.signals : s.category = "coordinated_abuse" =>
            LET others == {q \in RequestId \ {calls[p].request} : calls[p].text \in stored[q]}
            IN  /\ Cardinality(others) >= 2
                /\ s.score >= 90 => Cardinality(others) >= 5

(* Moderations that search before others of their campaign have stored     *)
(* their vectors escape, but however they interleave at most one for each  *)
(* process and one more, until ids are used for several campaigns (the     *)
(* search and the upsert of service.py are two calls).                     *)
EscapesAreBounded ==
    (\A q \in RequestId : Cardinality(stored[q]) <= 1) =>
        \A t \in Text :
            Cardinality({q \in RequestId : t \in allowed[q]}) <= Cardinality(Process) + 1
=============================================================================
