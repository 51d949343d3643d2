----------------------------- MODULE MCLoadTest -----------------------------
(***************************************************************************)
(* A small instance of LoadTest.                                           *)
(***************************************************************************)
EXTENDS LoadTest

\* A success, a refusal of the service, an answer that is not JSON, one whose body
\* cannot be read, one without a status, a decline, and no answer at all.
MCResponses ==
    {[delivered |-> TRUE, code |-> 201, readable |-> TRUE, status |-> "approved"],
     [delivered |-> TRUE, code |-> 503, readable |-> TRUE, status |-> ""],
     [delivered |-> TRUE, code |-> 200, readable |-> TRUE, status |-> "malformed"],
     [delivered |-> TRUE, code |-> 200, readable |-> FALSE, status |-> ""],
     [delivered |-> TRUE, code |-> 200, readable |-> TRUE, status |-> ""],
     [delivered |-> TRUE, code |-> 200, readable |-> TRUE, status |-> "declined"],
     [delivered |-> FALSE, code |-> 100, readable |-> FALSE, status |-> ""]}
=============================================================================
