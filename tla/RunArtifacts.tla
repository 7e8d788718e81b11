---------------------------- MODULE RunArtifacts ----------------------------
(***************************************************************************)
(* The contents the run store (scripts/financial_run_store.py) accepts: the*)
(* entries of a research ledger, one per claim, and the artifacts that runs*)
(* of a ticker share.  ResearchLedger and RunStore say when such contents  *)
(* are written; here is when one is valid, and under which name it is kept.*)
(*                                                                         *)
(* A hash stands for the canonical JSON it is a hash of: two contents have *)
(* one hash only if they are the same.                                     *)
(***************************************************************************)

CONSTANTS
    ClaimIds,
    NoCandidate,        \* where an entry has no accepted candidate
    RequestScope(_),    \* request_scope_fingerprint, which leaves out parts of a request
    ValidRequest(_),    \* the contract of a request
    ValidLedger(_, _)   \* the contract of a ledger, given the planner's receipt

Sha(content) == <<"sha256", content>>

\* The planner's receipt of a claim is of this request, to the letter, of its scope
\* and of its date.
ValidReceipt(claim, request, receipt) ==
    LET inputs == receipt.planner_inputs IN
    /\ receipt.claim_id = claim
    /\ receipt.request_scope_fingerprint = RequestScope(request)
    /\ receipt.planner_input_fingerprint = Sha(inputs)
    /\ inputs.route_inventory_sha256 = Sha(receipt.route_inventory)
    /\ inputs.request_identity.claim_id = claim
    /\ inputs.request_identity.request_scope_fingerprint = RequestScope(request)
    /\ inputs.request_identity.request_content_sha256 = Sha(request)
    /\ inputs.as_of = request.as_of

\* What is handed over to the profile is what the ledger accepted, if it accepted
\* anything.
ValidHandoff(claim, ledger, handoff) ==
    IF ledger.status # "accepted" THEN handoff = NoCandidate
    ELSE LET evidence == ledger.accepted_evidence IN
         /\ handoff # NoCandidate
         /\ handoff.artifact_identity = <<"sha256:", handoff.artifact_sha256>>
         /\ handoff.claim_id = claim
         /\ handoff.request_scope_fingerprint = ledger.request_scope_fingerprint
         /\ handoff.candidate_document_id = evidence.candidate_document_id
         /\ handoff.artifact_identity = evidence.artifact_identity
         /\ handoff.lineage_id = evidence.lineage_id

ValidEntry(claim, entry) ==
    /\ ValidRequest(entry.request)
    /\ ValidReceipt(claim, entry.request, entry.receipt)
    /\ ValidLedger(entry.ledger, entry.receipt)
    /\ entry.request.claim_id = claim /\ entry.ledger.claim_id = claim
    /\ entry.ledger.request_scope_fingerprint = RequestScope(entry.request)
    /\ entry.ledger.absence_claim = entry.request.absence_claim
    /\ ValidHandoff(claim, entry.ledger, entry.accepted_candidate)

ValidWrapper(wrapper) ==
    /\ DOMAIN wrapper # {} /\ DOMAIN wrapper \subseteq ClaimIds
    /\ \A claim \in DOMAIN wrapper : ValidEntry(claim, wrapper[claim])

\* artifact_id: the order of the inputs is of no importance.
ArtifactId(kind, schema, inputs, parameters) == Sha(<<kind, schema, inputs, parameters>>)

\* promote_artifact names a file for what it was made from and what is in it, and
\* for the suffix of its source.
PathOf(a) ==
    <<a.kind, ArtifactId(a.kind, a.schema, a.inputs,
                         [content |-> Sha(a.body), parameters |-> a.parameters]), a.suffix>>

\* os.link.  What is there already must have the same content.
Occupied(shared, a)   == \E file \in shared : file.path = PathOf(a)
Collision(shared, a)  == \E file \in shared : file.path = PathOf(a) /\ file.body # a.body
WithArtifact(shared, a) ==
    IF Occupied(shared, a) THEN shared ELSE shared \cup {[path |-> PathOf(a), body |-> a.body]}
=============================================================================
