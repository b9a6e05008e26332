---------------------------- MODULE ProtocolData ----------------------------
(***************************************************************************)
(* What the client's protocol data becomes: the Creators registered for   *)
(* present-proof and issue-credential turn the gRPC pb.Protocol into a    *)
(* task, and the Setup of the task's starter builds the first message.   *)
(*                                                                         *)
(* Present proof:                                                          *)
(*  - createPresentProofTask validates the request and copies its         *)
(*    attributes (mandatory) and predicates (optional) into the task;     *)
(*  - startProofProtocol's CAProofRequest Setup calls generateProofRequest,*)
(*    which keys every attribute and predicate by its referent: the ID    *)
(*    the client gave, or "attr_referent_<n>" / "predicate_<n>" for the   *)
(*    n-th one, stored in a Go map (a later key overwrites an earlier).   *)
(* Issue credential:                                                       *)
(*  - createIssueCredentialTask takes the credential attributes from the  *)
(*    JSON field when it is set, else from the attribute list;            *)
(*  - startIssueCredentialByPropose gives every attribute without a MIME  *)
(*    type "text/plain", then the issuer (CACredOffer) sends an offer     *)
(*    once the wallet made the indy credential offer, the holder          *)
(*    (CACredRequest) a proposal; both carry the attributes as preview.   *)
(*                                                                         *)
(* Attributes and predicates are records of small sets; the JSON and the  *)
(* list forms of a proof request carry the same records, so both parse to *)
(* the request's sequence.  Type, value and the nonce are left out of the *)
(* proof request, the comment out of the credential.                      *)
(***************************************************************************)
EXTENDS Naturals, Sequences, FiniteSets, TLC

CONSTANTS
    Names,       \* attribute and predicate names
    CredDefs,    \* credential definition ids a client can restrict to
    GivenIDs,    \* referent ids a client can set on an attribute or predicate
    MaxAttrs,    \* bound on the number of attributes and predicates
    Values,      \* credential attribute values
    Mimes        \* MIME types a client can give in the attributes JSON

VARIABLES
    req,         \* the pb.Protocol of the gRPC call
    task,        \* the task createPresentProofTask returned, NoTask or Error
    proofReq,    \* the ProofRequest of the verifier's Setup, or NoRequest
    preview      \* the credential preview the issue-credential Setup sent, or NoPreview

vars == <<req, task, proofReq, preview>>

NoTask    == [kind |-> "none"]
Error     == [kind |-> "error"]
NoRequest == [kind |-> "none"]
NoPreview == [kind |-> "none"]

Roles   == {"INITIATOR", "ADDRESSEE", "UNKNOWN"}
\* Where the data comes from: the JSON field or the list (both give the
\* same records), neither (both unset), or JSON that does not parse.
Sources == {"given", "unset", "badjson"}

Attrs == [id : GivenIDs \cup {""}, name : Names, credDef : CredDefs \cup {""}]
Preds == [id : GivenIDs \cup {""}, name : Names]
SeqUpTo(S) == UNION {[1..n -> S] : n \in 0..MaxAttrs}

Requests ==
    [family : {"PP"}, role : Roles, proof : {FALSE}] \cup
    [family : {"PP"}, role : Roles, proof : {TRUE}, attrSrc : Sources, attrs : SeqUpTo(Attrs),
     predSrc : Sources, preds : SeqUpTo(Preds)]

\* The data of a request field: the parsed or copied sequence, <<>> when
\* the field is unset.
Data(src, s) == IF src = "unset" THEN <<>> ELSE s

\* Regression variant of createPresentProofTask without the role assertion.
CreatePresentProofTaskNoRole(r) ==
    IF ~r.proof \/ r.attrSrc \in {"unset", "badjson"} \/ r.predSrc = "badjson"
    THEN Error
    ELSE [kind |-> "task", role |-> r.role, attrs |-> r.attrs, preds |-> Data(r.predSrc, r.preds)]

\* createPresentProofTask: asserts (assert.P, turned into the returned
\* error by err2.Annotate) that the proof data and a role are there and
\* that the attributes are given; a JSON field that does not parse panics
\* in dto.FromJSONStr with its error, which err2.Annotate returns too.
CreatePresentProofTask(r) ==
    IF \/ ~r.proof
       \/ r.role \notin {"INITIATOR", "ADDRESSEE"}
       \/ r.attrSrc \in {"unset", "badjson"}
       \/ r.predSrc = "badjson"
    THEN Error
    ELSE [kind |-> "task", role |-> r.role, attrs |-> r.attrs, preds |-> Data(r.predSrc, r.preds)]

-----------------------------------------------------------------------------
(* generateProofRequest.                                                   *)

\* The referent of the element at 1-based position i (index i-1 in Go).
Referent(prefix, e, i) == IF e.id # "" THEN e.id ELSE prefix \o ToString(i)

AttrInfo(a) == [name |-> a.name, restrictions |-> IF a.credDef # "" THEN <<a.credDef>> ELSE <<>>]
PredInfo(p) == [name |-> p.name]

\* The value of an element in the map of its kind (named by its prefix).
Info(prefix, e) == IF prefix = "attr_referent_" THEN AttrInfo(e) ELSE PredInfo(e)

\* The Go map assignment m[id] = v.
Put(m, id, v) == (id :> v) @@ m

\* The for-loop over the elements in order.
RECURSIVE Fill(_, _, _, _)
Fill(prefix, s, i, m) ==
    IF i > Len(s) THEN m
    ELSE Fill(prefix, s, i + 1, Put(m, Referent(prefix, s[i], i), Info(prefix, s[i])))

GenerateProofRequest(t) ==
    [kind |-> "request",
     attrs |-> Fill("attr_referent_", t.attrs, 1, <<>>),
     preds |-> Fill("predicate_", t.preds, 1, <<>>)]

-----------------------------------------------------------------------------
(* createIssueCredentialTask and startIssueCredentialByPropose.            *)

\* didcomm.CredentialAttribute.  The list of the gRPC request gives a name
\* and a value; the JSON form may also give a MIME type.
CredAttrs == [name : Names, value : Values, mime : Mimes \cup {""}]
ListAttrs == [name : Names, value : Values]

\* The AttributesJSON field: "" (unset), text that does not parse, or a
\* JSON array of attributes.
JSONForms ==
    {[src |-> "unset", attrs |-> <<>>], [src |-> "badjson", attrs |-> <<>>]} \cup
    [src : {"given"}, attrs : SeqUpTo(CredAttrs)]

\* The Attributes field: nil, or a list of attributes.
ListForms == {[set |-> FALSE, attrs |-> <<>>]} \cup [set : {TRUE}, attrs : SeqUpTo(ListAttrs)]

\* The pb.IssueCredential data (nil or given): JSON, attribute list and the
\* cred def id, which the client may leave empty.
NoCred   == [given |-> FALSE]
CredData == [given : {TRUE}, json : JSONForms, list : ListForms, credDef : CredDefs \cup {""}]

ICRequests == [family : {"IC"}, role : Roles, cred : {NoCred} \cup CredData]

\* The loop over the attribute list: Name and Value, no MIME type.
FromList(l) == [i \in DOMAIN l |-> [name |-> l[i].name, value |-> l[i].value, mime |-> ""]]

\* createIssueCredentialTask for a non-nil protocol: asserts the credential
\* data and a role; JSON that does not parse panics in dto.FromJSONStr and
\* a missing list fails the assertion, both returned by err2.Annotate.
CreateIssueCredentialTask(r) ==
    CASE ~r.cred.given \/ r.role \notin {"INITIATOR", "ADDRESSEE"} -> Error
      [] r.cred.json.src = "badjson"                            -> Error
      [] r.cred.json.src = "given"
           -> [kind |-> "task", role |-> r.role, attrs |-> r.cred.json.attrs, credDef |-> r.cred.credDef]
      [] ~r.cred.list.set                                      -> Error
      [] OTHER
           -> [kind |-> "task", role |-> r.role, attrs |-> FromList(r.cred.list.attrs), credDef |-> r.cred.credDef]

\* Regression variant of the MIME loop that sets the type on the range
\* variable, a copy, so the task's attributes keep an empty type.
DefaultMimeOnCopy(attrs) == attrs

\* for index, attr := range credTask.CredentialAttrs: an empty MimeType
\* becomes "text/plain" in the task's slice.
DefaultMime(attrs) ==
    [i \in DOMAIN attrs |->
        IF attrs[i].mime = "" THEN [attrs[i] EXCEPT !.mime = "text/plain"] ELSE attrs[i]]

-----------------------------------------------------------------------------

Init ==
    /\ req \in Requests \cup ICRequests
    /\ task = NoTask
    /\ proofReq = NoRequest
    /\ preview = NoPreview

\* The Creator registered for CAProofRequest and CAProofPropose.
CreateTask ==
    /\ req.family = "PP"
    /\ task = NoTask
    /\ task' = CreatePresentProofTask(req)
    /\ UNCHANGED <<req, proofReq, preview>>

\* The Creator registered for the issue-credential family.
CreateCredentialTask ==
    /\ req.family = "IC"
    /\ task = NoTask
    /\ task' = CreateIssueCredentialTask(req)
    /\ UNCHANGED <<req, proofReq, preview>>

\* startProofProtocol, case CAProofRequest (the initiator is the verifier):
\* the Setup generates the proof request and stores it in the rep.
StartVerifier ==
    /\ req.family = "PP"
    /\ task.kind = "task"
    /\ task.role = "INITIATOR"
    /\ proofReq = NoRequest
    /\ proofReq' = GenerateProofRequest(task)
    /\ UNCHANGED <<req, task, preview>>

\* startIssueCredentialByPropose: the MIME loop, then the Setup of the
\* task type (uniqueTypeID: INITIATOR -> CACredOffer, ADDRESSEE ->
\* CACredRequest).  The issuer's IssuerCreateCredentialOffer fails for a
\* cred def that is not in its wallet ("" included): Setup returns the
\* error, StartPSM sends nothing and CatchTrace logs it.  The holder's
\* proposal carries the cred def id as given.
StartIssueCredential ==
    LET attrs == DefaultMime(task.attrs)
    IN /\ req.family = "IC"
       /\ task.kind = "task"
       /\ preview = NoPreview
       /\ preview' =
            CASE task.role = "INITIATOR" /\ task.credDef \notin CredDefs -> [kind |-> "failed"]
              [] task.role = "INITIATOR" -> [kind |-> "offer", credDef |-> task.credDef, attrs |-> attrs]
              [] OTHER                   -> [kind |-> "propose", credDef |-> task.credDef, attrs |-> attrs]
       /\ UNCHANGED <<req, task, proofReq>>

Next == CreateTask \/ StartVerifier \/ CreateCredentialTask \/ StartIssueCredential

Spec == Init /\ [][Next]_vars

-----------------------------------------------------------------------------

TypeOK ==
    /\ req \in Requests \cup ICRequests
    /\ task \in {NoTask, Error} \cup
          [kind : {"task"}, role : {"INITIATOR", "ADDRESSEE"}, attrs : SeqUpTo(Attrs), preds : SeqUpTo(Preds)] \cup
          [kind : {"task"}, role : {"INITIATOR", "ADDRESSEE"}, attrs : SeqUpTo(CredAttrs), credDef : CredDefs \cup {""}]
    /\ proofReq = NoRequest \/ DOMAIN proofReq = {"kind", "attrs", "preds"}
    /\ preview \in {NoPreview, [kind |-> "failed"]} \cup
          [kind : {"offer", "propose"}, credDef : CredDefs \cup {""},
           attrs : SeqUpTo([name : Names, value : Values, mime : Mimes \cup {"", "text/plain"}])]

\* The issue-credential Setup that sends an offer or a proposal previews
\* the client's attributes in the order given (the JSON array when the
\* JSON field is set, else the list) with their names and values, each
\* with the MIME type the client gave or "text/plain", under the client's
\* cred def: createIssueCredentialTask and the starter's MIME loop lose
\* and reorder nothing.
PreviewIsRequest ==
    preview.kind \in {"offer", "propose"} =>
        LET c     == req.cred
            given == IF c.json.src = "given" THEN c.json.attrs ELSE c.list.attrs
        IN /\ preview.credDef = c.credDef
           /\ Len(preview.attrs) = Len(given)
           /\ \A i \in 1..Len(given) :
                /\ preview.attrs[i].name = given[i].name
                /\ preview.attrs[i].value = given[i].value
                /\ preview.attrs[i].mime =
                      IF c.json.src = "given" /\ given[i].mime # "" THEN given[i].mime ELSE "text/plain"

\* When the client's referent ids are distinct, the verifier's proof
\* request asks for every attribute and predicate of the gRPC request
\* (generateProofRequest drops none of them).
Distinct(s) == \A i, j \in 1..Len(s) : i # j /\ s[i].id # "" => s[i].id # s[j].id
NoAttributeLost ==
    (proofReq.kind = "request" /\ Distinct(task.attrs) /\ Distinct(task.preds)) =>
        /\ Cardinality(DOMAIN proofReq.attrs) = Len(task.attrs)
        /\ Cardinality(DOMAIN proofReq.preds) = Len(task.preds)
=============================================================================
