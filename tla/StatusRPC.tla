------------------------------ MODULE StatusRPC ------------------------------
(***************************************************************************)
(* The gRPC Status call for an issue-credential protocol, composed with   *)
(* the PSM of ProtocolPSM.                                                 *)
(*                                                                         *)
(* Status builds the ProtocolStatus from the PSM record (tryProtocolStatus *)
(* and calcProtocolState) and hands it to the family's status provider,    *)
(* fillIssueCredentialStatus, whose result replaces it.  The provider     *)
(* reads the credential offer of the issue-credential rep: the issuer's    *)
(* starter stores it before sending the offer, the holder's handler when   *)
(* the offer arrives (spec 4.A, representations); a holder that started   *)
(* with a proposal has none before then.                                    *)
(***************************************************************************)
EXTENDS Naturals, Sequences

CONSTANTS Keys, MaxEntries

VARIABLES
    psm, sent, autoPermission, crashed,   \* the PSM, as in ProtocolPSM
    offer,     \* offer[k]: the issue-credential rep of k holds a CredOffer
    reply      \* reply[k]: what the last Status call for k returned

psmVars == <<psm, sent, autoPermission, crashed>>
vars == <<psmVars, offer, reply>>

PSM == INSTANCE ProtocolPSM

\* What Status returned: no status (nil), or one with the state and the
\* family's details.  reply[k] also records whether the PSM existed.
NilStatus == [kind |-> "nil"]
NotCalled == [exists |-> FALSE, ps |-> [kind |-> "not called"]]

\* The rep holds an offer after the step when it held one, the step sent
\* an offer (the issuer, on start, on a propose or on the SA's accept), or
\* the step handled an inbound offer (the holder).
OfferAfter(k, received) ==
    offer[k] \/ received = "IC/offer" \/ "IC/offer" \in {sent'[k][i] : i \in DOMAIN sent'[k]}

-----------------------------------------------------------------------------

Init ==
    /\ PSM!Init
    /\ offer = [k \in Keys |-> FALSE]
    /\ reply = [k \in Keys |-> NotCalled]

\* The starter's Setup: CACredOffer stores the rep with the offer before
\* StartPSM sends it; CACredRequest stores it without one.
Start(k, t) ==
    /\ PSM!StartPSM(k, t)
    /\ offer' = [offer EXCEPT ![k] = t = "CACredOffer" \/ OfferAfter(k, "none")]
    /\ UNCHANGED reply

Exec(k, m) ==
    /\ PSM!ExecPSM(k, m)
    /\ offer' = [offer EXCEPT ![k] = OfferAfter(k, m)]
    /\ UNCHANGED reply

ClientResume(k, fam, ack) ==
    /\ PSM!Resume(k, fam, ack)
    /\ offer' = [offer EXCEPT ![k] = OfferAfter(k, "none")]
    /\ UNCHANGED reply

ClientRelease(k) ==
    /\ PSM!Release(k)
    /\ UNCHANGED <<offer, reply>>

\* fillIssueCredentialStatus: GetIssueCredRep, then dto.FromJSONStr of the
\* rep's CredOffer, then the schema_id assertion and the attributes.  A
\* missing rep, an empty offer ("" does not parse) or an offer without a
\* string schema_id panics; CatchTrace logs it and the function returns its
\* zero value, nil.
FillIssueCredentialStatus(k, ps) ==
    IF offer[k] THEN [kind |-> "status", state |-> ps.state, details |-> "IssueCredential"]
    ELSE NilStatus

\* tryProtocolStatus: the state from the record (RUNNING when GetPSM finds
\* none), then ps = prot.FillStatus(protocolName[TypeID], key, ps).
TryProtocolStatus(k) ==
    LET state == IF psm[k] = <<>> THEN "RUNNING" ELSE PSM!calcProtocolState(psm[k])
    IN FillIssueCredentialStatus(k, [state |-> state])

\* Status(ProtocolID{TypeID: ISSUE, ID: nonce of k}).
Status(k) ==
    /\ ~crashed
    /\ reply' = [reply EXCEPT ![k] = [exists |-> psm[k] # <<>>, ps |-> TryProtocolStatus(k)]]
    /\ UNCHANGED <<psmVars, offer>>

Next ==
    \E k \in Keys :
        \/ \E t \in PSM!Starters : Start(k, t)
        \/ \E m \in PSM!Msgs : Exec(k, m)
        \/ \E fam \in {"IC", "PP"}, ack \in BOOLEAN : ClientResume(k, fam, ack)
        \/ ClientRelease(k)
        \/ Status(k)

Spec == Init /\ [][Next]_vars

-----------------------------------------------------------------------------

\* Status of an issue-credential protocol that exists returns a
\* ProtocolStatus carrying its state (spec 6: a snapshot of the current
\* state plus the family's details); the provider's failure does not
\* take the state away.
StatusCarriesState ==
    \A k \in Keys :
        (reply[k].exists /\ PSM!Last(psm[k]).task = "IC") => reply[k].ps # NilStatus
=============================================================================
