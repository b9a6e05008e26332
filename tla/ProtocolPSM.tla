----------------------------- MODULE ProtocolPSM -----------------------------
(***************************************************************************)
(* The protocol state machine (PSM) of one worker EA, driven by the        *)
(* issue-credential and present-proof processors.                          *)
(*                                                                         *)
(*  - psm[k] is the durable, append-only PSM record of key k = (worker     *)
(*    DID, nonce): the sequence of its state entries; <<>> when GetPSM     *)
(*    finds nothing.  An entry carries its substate bits, the message or   *)
(*    user action the PSM waits for next, and the task's protocol family.  *)
(*  - sent[k] is what the agent has sent to the peer for k.                *)
(*  - crashed: the agency process died from an unrecovered panic; nothing  *)
(*    runs after it (a restart finds the same durable records).           *)
(*                                                                         *)
(* The engine (prot.StartPSM / prot.ExecPSM) and the role handlers of the  *)
(* issuer, holder, verifier and prover packages are outside src/ and are   *)
(* modelled from the spec; the starters, the NACK/ACK handlers, the        *)
(* continuators and the gRPC Release/Resume/Status code are modelled from  *)
(* the source.  Per-key exclusion makes each engine call one step.         *)
(***************************************************************************)
EXTENDS Naturals, Sequences

CONSTANTS
    Keys,          \* protocol instance keys (nonces of one worker EA)
    MaxEntries     \* bound on the length of a PSM record

VARIABLES psm, sent, autoPermission, crashed

vars == <<psm, sent, autoPermission, crashed>>

None      == "none"
Terminate == "Terminate"

ICMsgs == {"IC/propose", "IC/offer", "IC/request", "IC/issue", "IC/ack", "IC/nack"}
PPMsgs == {"PP/propose", "PP/request", "PP/presentation", "PP/ack", "PP/nack"}
Msgs   == ICMsgs \cup PPMsgs
Nacks  == {"IC/nack", "PP/nack"}

\* The user-action types a PSM can wait on: SA questions and
\* CANotifyUserAction for issue credential, task.ActionType for present proof.
SAActions   == {"SAIssueCredentialAcceptPropose", "AcceptPropose", "AcceptValues"}
UserActions == SAActions \cup {"CANotifyUserAction", "AcceptRequest"}

Starters == {"CACredOffer", "CACredRequest", "CAProofPropose", "CAProofRequest"}

\* Inbound messages that open a new PSM on the addressee side.
StartingMsgs == {"IC/propose", "IC/offer", "PP/propose", "PP/request"}

Bits == {"Sending", "Waiting", "Ready", "Failure", "ACK", "NACK", "Archiving"}
Entries == [sub : SUBSET Bits, next : Msgs \cup UserActions \cup {None}, task : {"IC", "PP"}]

Family(m) == IF m \in ICMsgs THEN "IC" ELSE "PP"

\* SubState.Pure(): the state without its ACK/NACK/Archiving overlay.
Pure(sub) == sub \cap {"Sending", "Waiting", "Ready", "Failure"}

Entry(sub, next, task) == [sub |-> sub, next |-> next, task |-> task]
Last(r)    == r[Len(r)]
Terminal(e) == Pure(e.sub) \in {{"Ready"}, {"Failure"}}

\* PSM.PendingUserAction(): the record waits on a user decision.
PendingUserAction(r) == "Waiting" \in Last(r).sub /\ Last(r).next \in UserActions

(***************************************************************************)
(* A transition (prot.Initial / prot.Transition): the message to send      *)
(* (SendNext), what to wait for next (WaitingNext, or Terminate), the ack  *)
(* bit inOut returns on Terminate, and whether inOut can fail.             *)
(***************************************************************************)
Tr(send, wait, ack, mayFail) == [send |-> send, wait |-> wait, ack |-> ack, mayFail |-> mayFail]

\* startIssueCredentialByPropose: the Initial passed to StartPSM for each
\* issue-credential starter type.
ICStartTr(t) ==
    IF t = "CACredOffer" THEN Tr("IC/offer", "IC/request", TRUE, TRUE)    \* to the holder
    ELSE Tr("IC/propose", "IC/offer", TRUE, TRUE)                        \* to the issuer

\* startProofProtocol: the prover starts with a propose, the verifier with
\* a request.
PPStartTr(t) ==
    IF t = "CAProofPropose" THEN Tr("PP/propose", "PP/request", TRUE, TRUE)
    ELSE Tr("PP/request", "PP/presentation", TRUE, TRUE)

\* The family whose processor registered the starter (prot.AddStarter).
StartTask(t) == IF t \in {"CACredOffer", "CACredRequest"} THEN "IC" ELSE "PP"

StartTr(t) == IF StartTask(t) = "IC" THEN ICStartTr(t) ELSE PPStartTr(t)

\* A decision a handler asks the SA or the user for (through CallEA or a
\* user-action notification) is taken inside the handler when the agent
\* auto-accepts: Agent.AutoPermission holds for SAImplID "permissive_sa",
\* whose permissiveHandler answers every question with ready = true.
AskOrAccept(action, send, wait) ==
    IF autoPermission THEN Tr(send, wait, TRUE, TRUE) ELSE Tr(None, action, TRUE, TRUE)

\* handleCredentialNACK, handleProofACK, handleProofNACK: Terminate with
\* the ack inOut returns; their inOut never fails.
CredentialNACK == Tr(None, Terminate, FALSE, FALSE)
ProofACK       == Tr(None, Terminate, TRUE, FALSE)
\* Regression variant: handleProofNACK's inOut copied from handleProofACK
\* (return true, nil).
ProofNACKAsAck == Tr(None, Terminate, TRUE, FALSE)

ProofNACK      == Tr(None, Terminate, FALSE, FALSE)

\* The Handlers of issueCredentialProcessor per inbound message type.
ICHandler(m) ==
    CASE m = "IC/propose" -> AskOrAccept("SAIssueCredentialAcceptPropose", "IC/offer", "IC/request")
      [] m = "IC/offer"   -> AskOrAccept("CANotifyUserAction", "IC/request", "IC/issue")
      [] m = "IC/request" -> Tr("IC/issue", "IC/ack", TRUE, TRUE)
      [] m = "IC/issue"   -> Tr("IC/ack", Terminate, TRUE, TRUE)
      [] m = "IC/ack"     -> Tr(None, Terminate, TRUE, FALSE)
      [] m = "IC/nack"    -> CredentialNACK

\* handleProtocol's switch on the present-proof message type.
PPHandler(m) ==
    CASE m = "PP/propose"      -> AskOrAccept("AcceptPropose", "PP/request", "PP/presentation")
      [] m = "PP/request"      -> AskOrAccept("AcceptRequest", "PP/presentation", "PP/ack")
      [] m = "PP/presentation" -> AskOrAccept("AcceptValues", "PP/ack", Terminate)
      [] m = "PP/ack"          -> ProofACK
      [] m = "PP/nack"         -> ProofNACK

\* comm.Proc dispatches an inbound message to its family's processor.
Handler(m) == IF Family(m) = "IC" THEN ICHandler(m) ELSE PPHandler(m)

\* The continuator for a user action and the decision: accepting goes on
\* with the protocol, rejecting sends the family's NACK and ends the PSM.
Continuation(action, ack) ==
    LET nack == IF action \in {"SAIssueCredentialAcceptPropose", "CANotifyUserAction"}
                THEN "IC/nack" ELSE "PP/nack"
    IN IF ~ack THEN Tr(nack, Terminate, FALSE, TRUE)
       ELSE CASE action = "SAIssueCredentialAcceptPropose" -> Tr("IC/offer", "IC/request", TRUE, TRUE)
              [] action = "CANotifyUserAction"             -> Tr("IC/request", "IC/issue", TRUE, TRUE)
              [] action = "AcceptPropose"                  -> Tr("PP/request", "PP/presentation", TRUE, TRUE)
              [] action = "AcceptValues"                   -> Tr("PP/ack", Terminate, TRUE, TRUE)
              [] action = "AcceptRequest"                  -> Tr("PP/presentation", "PP/ack", TRUE, TRUE)

\* issuecredential continueProtocol: the continuators map; a task of
\* another type or another action panics into its CatchTrace.
ICContinuators == {"SAIssueCredentialAcceptPropose", "CANotifyUserAction"}

\* presentproof continueProtocol: switch on the task's ActionType.
PPContinuators == {"AcceptPropose", "AcceptValues", "AcceptRequest"}

\* presentproof continueProtocol: state.LastState().T.(*task.TaskPresentProof)
\* with no recover panics when the PSM of the thread is not a proof task.
PPAssertionPanics(r) == Last(r).task # "PP"

Continuators(fam) == IF fam = "IC" THEN ICContinuators ELSE PPContinuators

(***************************************************************************)
(* One engine call on key k: persist Sending, run inOut, then persist     *)
(* Failure (inOut or send failed), Ready+ACK/NACK (Terminate) or Waiting   *)
(* on the next message or user action.  The send happens before the       *)
(* final entry; a failed send leaves nothing in sent.                      *)
(***************************************************************************)
Outcome(tr, task, inOutOk, sendOk) ==
    IF ~inOutOk \/ (tr.send # None /\ ~sendOk) THEN Entry({"Failure"}, None, task)
    ELSE IF tr.wait = Terminate
         THEN Entry({"Ready", IF tr.ack THEN "ACK" ELSE "NACK"}, None, task)
         ELSE Entry({"Waiting"}, tr.wait, task)

\* Regression variant of Run that records a send even for a transition
\* with nothing to send.
RunRecordsNone(k, tr, task) ==
    /\ Len(psm[k]) + 2 <= MaxEntries
    /\ \E inOutOk \in IF tr.mayFail THEN BOOLEAN ELSE {TRUE},
          sendOk \in IF tr.send = None THEN {TRUE} ELSE BOOLEAN :
          /\ psm' = [psm EXCEPT ![k] = @ \o <<Entry({"Sending"}, None, task),
                                                Outcome(tr, task, inOutOk, sendOk)>>]
          /\ sent' = IF inOutOk /\ sendOk
                     THEN [sent EXCEPT ![k] = Append(@, tr.send)]
                     ELSE sent

Run(k, tr, task) ==
    /\ Len(psm[k]) + 2 <= MaxEntries
    /\ \E inOutOk \in IF tr.mayFail THEN BOOLEAN ELSE {TRUE},
          sendOk \in IF tr.send = None THEN {TRUE} ELSE BOOLEAN :
          /\ psm' = [psm EXCEPT ![k] = @ \o <<Entry({"Sending"}, None, task),
                                                Outcome(tr, task, inOutOk, sendOk)>>]
          /\ sent' = IF inOutOk /\ tr.send # None /\ sendOk
                     THEN [sent EXCEPT ![k] = Append(@, tr.send)]
                     ELSE sent

-----------------------------------------------------------------------------

Init ==
    /\ psm = [k \in Keys |-> <<>>]
    /\ sent = [k \in Keys |-> <<>>]
    /\ autoPermission \in BOOLEAN
    /\ crashed = FALSE

\* prot.StartPSM from a starter: fails with DuplicateProtocol on an existing
\* key; a failing Setup aborts before anything is persisted (a stutter).
StartPSM(k, t) ==
    /\ ~crashed
    /\ psm[k] = <<>>
    /\ Run(k, StartTr(t), StartTask(t))
    /\ UNCHANGED <<autoPermission, crashed>>

\* Regression variants of Receivable: one drops the check of the awaited
\* message type for every message but the ACKs, one accepts an ACK as
\* readily as a NACK.
ReceivableAnyOfFamily(k, m) ==
    IF psm[k] = <<>> THEN m \in StartingMsgs
    ELSE LET e == Last(psm[k]) IN
         /\ ~Terminal(e)
         /\ "Waiting" \in e.sub
         /\ Family(m) = e.task
         /\ m \notin {"IC/ack", "PP/ack"}

ReceivableAckAnytime(k, m) ==
    IF psm[k] = <<>> THEN m \in StartingMsgs
    ELSE LET e == Last(psm[k]) IN
         /\ ~Terminal(e)
         /\ "Waiting" \in e.sub
         /\ \/ e.next = m
            \/ m \in Nacks \cup {"IC/ack", "PP/ack"} /\ e.next \notin UserActions /\ Family(m) = e.task

\* Whether an inbound message m is taken by the PSM of k: a starting message
\* opens a new PSM; otherwise the PSM must be open and waiting for exactly m
\* (duplicates and out-of-order messages are ignored), or m is the family's
\* NACK arriving while the PSM waits on the peer.
Receivable(k, m) ==
    IF psm[k] = <<>> THEN m \in StartingMsgs
    ELSE LET e == Last(psm[k]) IN
         /\ ~Terminal(e)
         /\ "Waiting" \in e.sub
         /\ \/ e.next = m
            \/ m \in Nacks /\ e.next \notin UserActions /\ Family(m) = e.task

\* prot.ExecPSM driven by an inbound message, dispatched by type to the
\* family's handler.
ExecPSM(k, m) ==
    /\ ~crashed
    /\ Receivable(k, m)
    /\ Run(k, Handler(m), Family(m))
    /\ UNCHANGED <<autoPermission, crashed>>

\* prot.Resume: the family's continuator acts only on a PSM of its own
\* family that waits on one of the family's user actions.
Resumable(k, fam) ==
    /\ Last(psm[k]).task = fam
    /\ PendingUserAction(psm[k])
    /\ Last(psm[k]).next \in Continuators(fam)

\* Regression variant of Resume whose continuator acts on a waiting PSM
\* whatever it waits on, not only on a pending user action.
ResumeAnyState(k, fam, ack) ==
    /\ ~crashed
    /\ psm[k] # <<>>
    /\ IF fam = "PP" /\ PPAssertionPanics(psm[k])
       THEN /\ crashed' = TRUE
            /\ UNCHANGED <<psm, sent, autoPermission>>
       ELSE /\ Last(psm[k]).task = fam
            /\ "Waiting" \in Last(psm[k]).sub
            /\ \E action \in Continuators(fam) :
                  Run(k, Continuation(action, ack), fam)
            /\ UNCHANGED <<autoPermission, crashed>>

\* gRPC Resume: the client names the family by TypeID and the decision
\* (state == ACK), and Resume calls prot.Resume.  continueProtocol of that family looks the PSM up: the
\* issue-credential continuator recovers from a task of another type, the
\* present-proof one type-asserts the task without recovering, so the panic
\* takes the agency down.  A missing PSM or a PSM that does not wait on one
\* of the family's user actions is left unchanged.
Resume(k, fam, ack) ==
    /\ ~crashed
    /\ psm[k] # <<>>
    /\ IF fam = "PP" /\ PPAssertionPanics(psm[k])
       THEN /\ crashed' = TRUE
            /\ UNCHANGED <<psm, sent, autoPermission>>
       ELSE /\ Resumable(k, fam)
            /\ Run(k, Continuation(Last(psm[k]).next, ack), fam)
            /\ UNCHANGED <<autoPermission, crashed>>

\* gRPC Release: AddAndSetFlagUpdatePSM(key, Archiving, 0) appends a copy of
\* the last entry with the Archiving flag set, whatever the state.
Release(k) ==
    /\ ~crashed
    /\ psm[k] # <<>>
    /\ Len(psm[k]) < MaxEntries
    /\ psm' = [psm EXCEPT ![k] = Append(@, [Last(@) EXCEPT !.sub = @ \cup {"Archiving"}])]
    /\ UNCHANGED <<sent, autoPermission, crashed>>

Next ==
    \/ \E k \in Keys :
          \/ \E t \in Starters : StartPSM(k, t)
          \/ \E m \in Msgs : ExecPSM(k, m)
          \/ \E fam \in {"IC", "PP"}, ack \in BOOLEAN : Resume(k, fam, ack)
          \/ Release(k)

Spec == Init /\ [][Next]_vars

-----------------------------------------------------------------------------

\* Regression variant of calcProtocolState that compares the whole substate
\* instead of its Pure() projection.
calcProtocolStateExact(r) ==
    IF PendingUserAction(r) THEN "WAIT_ACTION"
    ELSE IF Last(r).sub \in {{"Ready", "ACK"}, {"Ready", "NACK"}}
         THEN IF "ACK" \in Last(r).sub THEN "OK" ELSE "NACK"
    ELSE IF Last(r).sub = {"Failure"} THEN "ERR"
    ELSE "RUNNING"

\* calcProtocolState: the client-visible state of an existing PSM record.
calcProtocolState(r) ==
    IF PendingUserAction(r) THEN "WAIT_ACTION"
    ELSE IF Pure(Last(r).sub) = {"Ready"}
         THEN IF "ACK" \in Last(r).sub THEN "OK" ELSE "NACK"
    ELSE IF Pure(Last(r).sub) = {"Failure"} THEN "ERR"
    ELSE "RUNNING"

TypeOK ==
    /\ psm \in [Keys -> Seq(Entries)]
    /\ sent \in [Keys -> Seq(Msgs)]
    /\ autoPermission \in BOOLEAN
    /\ crashed \in BOOLEAN

\* For every instance, the agent sends each protocol message at most once,
\* although the peer may duplicate or reorder its messages and the client
\* may repeat Resume (ExecPSM's waiting-type and closed checks, and the
\* continuators acting only on a pending user action).
NoDuplicateSend ==
    \A k \in Keys : \A i, j \in 1..Len(sent[k]) : i < j => sent[k][i] # sent[k][j]

\* The client's view of each instance (Status, via calcProtocolState)
\* behaves as ProtocolStatus allows.  tryProtocolStatus passes a nil PSM
\* for a key with no record, and calcProtocolState returns RUNNING for it.
StatusOf(k) == IF psm[k] = <<>> THEN "RUNNING" ELSE calcProtocolState(psm[k])

\* An instance reports OK only after the exchange that completes it: the
\* last message the agent sent is the issuer's credential or the holder's
\* ACK (issue credential), the prover's presentation or the verifier's ACK
\* (present proof).  A stray ACK, or an ACK while a decision is pending,
\* must not end a protocol as OK.
CompletingMsgs == {"IC/issue", "IC/ack", "PP/presentation", "PP/ack"}

OkOnlyAfterExchange ==
    \A k \in Keys :
        StatusOf(k) = "OK" => sent[k] # <<>> /\ Last(sent[k]) \in CompletingMsgs


Abstract == INSTANCE ProtocolStatus WITH status <- [k \in Keys |-> StatusOf(k)]

StatusRefinement == Abstract!Spec

\* No client request makes the agency panic.
NoCrash == ~crashed
=============================================================================
