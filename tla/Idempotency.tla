---------------------------- MODULE Idempotency ----------------------------
(***************************************************************************)
(* What the service promises its callers about request IDs, as a           *)
(* specification of its own: a request ID is decided once and for all,     *)
(* either by carrying out a request that was made under it or by refusing, *)
(* and success or a refusal for lack of funds is only ever answered        *)
(* according to that decision.  There are no instances, handlers, retries, *)
(* caches or accounts here; LedgerService implements it.                   *)
(***************************************************************************)
CONSTANTS IDs, Requests, Answers, None

VARIABLES
    decision,    \* per request ID: open, accepted or refused
    carriedOut,  \* the requests that were carried out
    answer       \* the answer given in the last step, or None

vars == <<decision, carriedOut, answer>>

Init ==
    /\ decision = [id \in IDs |-> "open"]
    /\ carriedOut = {}
    /\ answer = None

\* Requests that ask for the same under the ID are carried out together; of the
\* others made under it none ever is.
Accept(id, same) ==
    /\ decision[id] = "open"
    /\ same # {}
    /\ decision' = [decision EXCEPT ![id] = "accepted"]
    /\ carriedOut' = carriedOut \cup same
    /\ answer' = None

Refuse(id) ==
    /\ decision[id] = "open"
    /\ decision' = [decision EXCEPT ![id] = "refused"]
    /\ answer' = None
    /\ UNCHANGED carriedOut

\* An answer, or silence, that agrees with what was decided.
Honest(a) ==
    /\ a.outcome \in {"posted", "approved"} => a.req \in carriedOut
    /\ a.outcome \in {"insufficient_funds", "previous_attempt_failed"} =>
           decision[a.req.id] = "refused"

Reply ==
    /\ answer' \in Answers \cup {None}
    /\ answer' # None => Honest(answer')
    /\ UNCHANGED <<decision, carriedOut>>

Next ==
    \/ \E id \in IDs :
           \/ \E same \in SUBSET {r \in Requests : r.id = id} : Accept(id, same)
           \/ Refuse(id)
    \/ Reply

Spec == Init /\ [][Next]_vars
=============================================================================
