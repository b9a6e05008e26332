------------------------------ MODULE TaskFrom ------------------------------
(***************************************************************************)
(* The gRPC entry points of the protocol service up to the engine: the    *)
(* caller check ca(ctx), taskFrom's conversion of a pb.Protocol into a    *)
(* comm.Task, and uniqueTypeID's lookup of the task type from the         *)
(* request's role and type codes.                                         *)
(*                                                                         *)
(* Run and Start turn a request into a task and hand it to its starter;   *)
(* Resume looks up the continuator type of the protocol id the client     *)
(* sends.  The task's nonce is the PSM key and the bus key of the         *)
(* protocol: a fresh UUID, except for CONNECT, where it is the id of the  *)
(* invitation the client passes in (the peer correlates by it).           *)
(*                                                                         *)
(* err2.Return and err2.Handle (err2 v0.5.0) turn a panic whose value is  *)
(* an error into the returned error and re-panic any other value; an      *)
(* escaped panic ends the model (escaped), as it ends the handler         *)
(* goroutine and, without a recovering interceptor, the process.          *)
(***************************************************************************)
EXTENDS Naturals, Sequences, TLC

CONSTANTS
    Invitations,   \* the invitations a client can pass in a CONNECT
    Types,         \* the pb.Protocol_Type values a client can send
    MaxCalls       \* bound on the number of gRPC calls

VARIABLES
    tasks,         \* the tasks Run and Start have handed to a starter
    uuids,         \* the number of utils.UUID() values drawn
    calls,         \* the number of calls served
    escaped,       \* a call ended with a panic no handler recovered
    pids           \* the ProtocolIDs Start returned to its clients

vars == <<tasks, uuids, calls, escaped, pids>>

\* pb.Protocol_Role and pb.Protocol_Type codes.  A proto3 client built
\* with another schema can send a type code outside the enum; Go keeps it.
Protocol_UNKNOWN == 0
Protocol_INITIATOR == 1
Protocol_ADDRESSEE == 2
Protocol_RESUME == 3
Protocol_NONE == 0
Protocol_CONNECT == 1
Protocol_ISSUE == 2
Protocol_PROOF == 3
Protocol_TRUST_PING == 4
Protocol_BASIC_MESSAGE == 5
Roles == {Protocol_UNKNOWN, Protocol_INITIATOR, Protocol_ADDRESSEE, Protocol_RESUME}

\* The typeID table, keyed by int32(10*role) + int32(type).
Key(role, type) == 10 * role + type
TypeID ==
    (Key(Protocol_INITIATOR, Protocol_CONNECT)       :> "CAPairwiseCreate") @@
    (Key(Protocol_INITIATOR, Protocol_ISSUE)         :> "CACredOffer") @@
    (Key(Protocol_ADDRESSEE, Protocol_ISSUE)         :> "CACredRequest") @@
    (Key(Protocol_INITIATOR, Protocol_PROOF)         :> "CAProofRequest") @@
    (Key(Protocol_ADDRESSEE, Protocol_PROOF)         :> "CAProofPropose") @@
    (Key(Protocol_INITIATOR, Protocol_TRUST_PING)    :> "CATrustPing") @@
    (Key(Protocol_INITIATOR, Protocol_BASIC_MESSAGE) :> "CABasicMessage") @@
    (Key(Protocol_RESUME, Protocol_ISSUE)            :> "CAContinueIssueCredentialProtocol") @@
    (Key(Protocol_RESUME, Protocol_PROOF)            :> "CAContinuePresentProofProtocol")

TaskTypes == {TypeID[k] : k \in DOMAIN TypeID}

\* The ConnAttr of a CONNECT: missing, with invitation JSON that does not
\* parse, or one of the invitations.  The CredDef of an ISSUE: missing,
\* given with attributes (as a list, as parsing JSON, or none), or with
\* attribute JSON that does not parse and no list.  The attribute JSON
\* of a PROOF request: parsing (or empty) or not parsing.
NoAttr  == [kind |-> "nil"]
BadJSON == [kind |-> "badjson"]
ConnAttrs == {NoAttr, BadJSON} \cup {[kind |-> "invitation", inv |-> i] : i \in Invitations}

Requests ==
    [role : Roles, type : {Protocol_CONNECT}, connAttr : ConnAttrs, credDef : {"nil"}, proof : {"ok"}] \cup
    [role : Roles, type : {Protocol_ISSUE}, connAttr : {NoAttr}, credDef : {"nil", "set", "badjson"},
     proof : {"ok"}] \cup
    [role : Roles, type : {Protocol_PROOF}, connAttr : {NoAttr}, credDef : {"nil"}, proof : {"ok", "badjson"}] \cup
    [role : Roles, type : Types \ {Protocol_CONNECT, Protocol_ISSUE, Protocol_PROOF}, connAttr : {NoAttr}, credDef : {"nil"},
     proof : {"ok"}]

Nonce(n) == "uuid-" \o ToString(n)

\* The invitation a non-CONNECT task carries: none (the zero value).
NoInvitation == [id |-> "", from |-> "none"]

\* What a conversion ends with: a task, a returned error, or a panic that
\* err2 does not recover.
Panic == [kind |-> "panic"]
Err   == [kind |-> "error"]
Task(nonce, type, inv, credDef) ==
    [kind |-> "task", nonce |-> nonce, type |-> type, invitation |-> inv, credDef |-> credDef]

Known(role, type) == Key(role, type) \in DOMAIN TypeID

\* Regression variant of uniqueTypeID that maps an unknown key to "".
UniqueTypeIDDefault(role, type) == IF Known(role, type) THEN TypeID[Key(role, type)] ELSE ""

\* uniqueTypeID: the table entry; an unknown key panics with a string
\* message ("panic" stands for it).
UniqueTypeID(role, type) == IF Known(role, type) THEN TypeID[Key(role, type)] ELSE "panic"

TaskFrom(p, n) ==
    LET typeID == UniqueTypeID(p.role, p.type)
        issuer == p.type = Protocol_ISSUE /\ p.role = Protocol_INITIATOR
    IN CASE typeID = "panic"                                        -> Panic
         [] p.type = Protocol_CONNECT /\ p.connAttr.kind # "invitation"      -> Err
         [] issuer /\ p.credDef \in {"nil", "badjson"}              -> Err
         [] p.type = Protocol_PROOF /\ p.role = Protocol_INITIATOR /\ p.proof = "badjson" -> Err
         [] p.type = Protocol_CONNECT -> Task(p.connAttr.inv.id, typeID, p.connAttr.inv, "nil")
         [] OTHER -> Task(Nonce(n), typeID, NoInvitation, IF issuer THEN "set" ELSE "nil")

-----------------------------------------------------------------------------

Init ==
    /\ tasks = <<>>
    /\ uuids = 0
    /\ calls = 0
    /\ escaped = FALSE
    /\ pids = <<>>

\* ca(ctx): the caller's DID has a handler in this agency that is a
\* comm.Receiver (TRUE), or ca returns an error (FALSE).
CaResults == BOOLEAN

Serve == ~escaped /\ calls < MaxCalls /\ calls' = calls + 1

\* ca(ctx), then taskFrom draws a UUID and converts the request; a task
\* goes to its starter (FindAndStartTask).
StartTaskFrom(p) ==
    \E inAgency \in CaResults :
        IF ~inAgency THEN UNCHANGED <<tasks, uuids, escaped>>
        ELSE LET t == TaskFrom(p, uuids + 1)
             IN /\ uuids' = uuids + 1
                /\ escaped' = (t = Panic)
                /\ tasks' = IF t.kind = "task" THEN Append(tasks, t) ELSE tasks

\* Run up to FindAndStartTask, under err2.Handle; the stream loop after it
\* is the GrpcRun module.
Run(p) ==
    /\ Serve
    /\ StartTaskFrom(p)
    /\ UNCHANGED pids

\* Start, under err2.Return: the same steps, then the task's id returned.
Start(p) ==
    /\ Serve
    /\ StartTaskFrom(p)
    /\ pids' = IF Len(tasks') > Len(tasks) THEN Append(pids, tasks'[Len(tasks')].nonce) ELSE pids

\* Resume: ca(ctx), then uniqueTypeID of the protocol id's role and type
\* (called bare, under err2.Return), then prot.Resume.
Resume(role, type) ==
    /\ Serve
    /\ \E inAgency \in CaResults :
         escaped' = (inAgency /\ ~Known(role, type))
    /\ UNCHANGED <<tasks, uuids, pids>>

Next ==
    \/ \E p \in Requests : Run(p) \/ Start(p)
    \/ \E role \in Roles, type \in Types : Resume(role, type)

Spec == Init /\ [][Next]_vars

-----------------------------------------------------------------------------

TypeOK ==
    /\ \A i \in DOMAIN tasks : tasks[i].type \in TaskTypes /\ tasks[i].credDef \in {"nil", "set"}
    /\ uuids \in 0..MaxCalls /\ calls \in 0..MaxCalls
    /\ escaped \in BOOLEAN
    /\ Len(pids) <= MaxCalls

NoEscapedPanic == ~escaped
=============================================================================
