------------------------------- MODULE GrpcRun -------------------------------
(***************************************************************************)
(* didCommServer.Run: one gRPC Run stream for a new protocol instance of  *)
(* key Key, composed with the PSM of ProtocolPSM and the notification bus. *)
(*                                                                         *)
(* Run registers a WantAll and a WantUserActions listener for the key,     *)
(* hands the task to its starter and loops on the two listener channels:  *)
(* a Waiting user action streams WAIT_ACTION, a terminal substate ends the *)
(* loop, removes the listeners and streams the final state.               *)
(*                                                                         *)
(* The engine broadcasts every persisted entry after the call that wrote  *)
(* it, one entry at a time, before it takes the next call for the key     *)
(* (outbox).  The bus is best effort (spec 4.E): an event for a key        *)
(* without a listener, or for a listener whose channel holds ChanCap       *)
(* events, is dropped.                                                     *)
(***************************************************************************)
EXTENDS Naturals, Sequences

CONSTANTS
    Key,           \* the nonce of the task Run starts
    MaxEntries,    \* bound on the length of the PSM record
    ChanCap        \* capacity of a bus listener channel

ASSUME ChanCap \in Nat \ {0}

VARIABLES
    psm, sent, autoPermission, crashed,  \* the PSM, as in ProtocolPSM
    outbox,        \* entries the engine has persisted and not yet broadcast
    statusChan,    \* the WantAll listener channel of Key
    userChan,      \* the WantUserActions listener channel of Key
    listening,     \* Run's listeners are registered on the bus
    startReq,      \* FindAndStartTask has handed the task to the starter
    runPc,         \* where the Run goroutine is
    code,          \* statusCode of the loop
    stream         \* the ProtocolState values Run has sent to the client

psmVars == <<psm, sent, autoPermission, crashed>>
busVars == <<outbox, statusChan, userChan, listening>>
runVars == <<startReq, runPc, code, stream>>
vars == <<psmVars, busVars, runVars>>

PSM == INSTANCE ProtocolPSM WITH Keys <- {Key}

Subs == SUBSET PSM!Bits
Waiting == {"Waiting"}
StreamStates == {"WAIT_ACTION", "OK", "NACK", "ERR"}
RunPCs == {"start", "select", "send_wait", "final", "done", "failed"}
Events == [to : {"all", "user"}, sub : Subs]

\* Regression variant of EndSubs without the case psm.Failure.
EndSubsNoFailure == {{"Ready", "ACK"}, {"ACK"}, {"Ready", "NACK"}, {"NACK"}}

\* The substates the loop ends on: psm.ReadyACK, psm.ACK, psm.ReadyNACK,
\* psm.NACK, psm.Failure (compared as whole substates).
EndSubs == {{"Ready", "ACK"}, {"ACK"}, {"Ready", "NACK"}, {"NACK"}, {"Failure"}}

-----------------------------------------------------------------------------
(* The engine side.                                                        *)

\* What an engine call broadcasts: each entry it appended to WantAll, and
\* a Waiting to WantUserActions when it left a user action pending.
Posts ==
    LET new == SubSeq(psm'[Key], Len(psm[Key]) + 1, Len(psm'[Key]))
    IN [i \in 1..Len(new) |-> [to |-> "all", sub |-> new[i].sub]]
       \o (IF psm'[Key] # <<>> /\ PSM!PendingUserAction(psm'[Key])
           THEN <<[to |-> "user", sub |-> Waiting]>> ELSE <<>>)

\* One engine call on the key, serialised behind the broadcasts of the
\* previous one.
EngineCall(A) ==
    /\ outbox = <<>>
    /\ A
    /\ outbox' = Posts
    /\ UNCHANGED <<statusChan, userChan, listening>>

\* The starter runs the task: StartPSM, or a Setup error that aborts with
\* nothing persisted and is only logged by the starter's CatchTrace.
StartTask ==
    /\ startReq
    /\ startReq' = FALSE
    /\ \/ EngineCall(\E t \in PSM!Starters : PSM!StartPSM(Key, t))
       \/ UNCHANGED <<psmVars, busVars>>
    /\ UNCHANGED <<runPc, code, stream>>

\* The peer answers on the thread once the protocol has started.
PeerMessage(m) ==
    /\ psm[Key] # <<>>
    /\ EngineCall(PSM!ExecPSM(Key, m))
    /\ UNCHANGED runVars

\* The client (on another connection) resumes the protocol.
ClientResume(fam, ack) ==
    /\ EngineCall(PSM!Resume(Key, fam, ack))
    /\ UNCHANGED runVars

\* Regression variant of Broadcast that delivers into a full channel.
BroadcastIgnoringCap ==
    /\ outbox # <<>>
    /\ ~crashed
    /\ LET ev == Head(outbox)
           Deliver(ch) == IF listening THEN Append(ch, ev.sub) ELSE ch
       IN /\ statusChan' = IF ev.to = "all" THEN Deliver(statusChan) ELSE statusChan
          /\ userChan' = IF ev.to = "user" THEN Deliver(userChan) ELSE userChan
    /\ outbox' = Tail(outbox)
    /\ UNCHANGED <<psmVars, listening, runVars>>

\* Bus broadcast of the next event: delivered when a listener is registered
\* and its channel has room, otherwise dropped.
Broadcast ==
    /\ outbox # <<>>
    /\ ~crashed
    /\ LET ev == Head(outbox)
           Deliver(ch) == IF listening /\ Len(ch) < ChanCap THEN Append(ch, ev.sub) ELSE ch
       IN /\ statusChan' = IF ev.to = "all" THEN Deliver(statusChan) ELSE statusChan
          /\ userChan' = IF ev.to = "user" THEN Deliver(userChan) ELSE userChan
    /\ outbox' = Tail(outbox)
    /\ UNCHANGED <<psmVars, listening, runVars>>

-----------------------------------------------------------------------------
(* The Run goroutine.                                                      *)

\* Token check and taskFrom, then AddListener twice and FindAndStartTask.
\* A failing check goes to the error handler, which streams ERR.
RunStart ==
    /\ runPc = "start"
    /\ \/ /\ listening' = TRUE
          /\ startReq' = TRUE
          /\ runPc' = "select"
          /\ UNCHANGED stream
       \/ /\ stream' = Append(stream, "ERR")
          /\ runPc' = "done"
          /\ UNCHANGED <<listening, startReq>>
    /\ UNCHANGED <<psmVars, outbox, statusChan, userChan, code>>

\* Regression variant of the switch that takes every Ready as OK
\* (case psm.ReadyACK, psm.ReadyNACK).
RunStatusCodeAnyReady(s) ==
    IF "Ready" \in s \/ s = {"ACK"} THEN "OK"
    ELSE IF s = {"NACK"} THEN "NACK"
    ELSE "ERR"

\* The switch on a status from the WantAll channel.
RunStatusCode(s) ==
    IF s \in {{"Ready", "ACK"}, {"ACK"}} THEN "OK"
    ELSE IF s \in {{"Ready", "NACK"}, {"NACK"}} THEN "NACK"
    ELSE "ERR"

\* case status := <-statusChan
RecvStatus ==
    /\ runPc = "select"
    /\ statusChan # <<>>
    /\ statusChan' = Tail(statusChan)
    /\ IF Head(statusChan) \in EndSubs
       THEN /\ code' = RunStatusCode(Head(statusChan))
            /\ runPc' = "final"
       ELSE UNCHANGED <<code, runPc>>
    /\ UNCHANGED <<psmVars, outbox, userChan, listening, startReq, stream>>

\* case status := <-userActionChan
RecvUserAction ==
    /\ runPc = "select"
    /\ userChan # <<>>
    /\ userChan' = Tail(userChan)
    /\ runPc' = IF Head(userChan) = Waiting THEN "send_wait" ELSE "select"
    /\ UNCHANGED <<psmVars, outbox, statusChan, listening, startReq, code, stream>>

\* err2.Check(server.Send(WAIT_ACTION)): a failed send (the client went
\* away) returns through the error handler, whose own Send fails too.
SendWaitAction ==
    /\ runPc = "send_wait"
    /\ \/ /\ stream' = Append(stream, "WAIT_ACTION")
          /\ runPc' = "select"
       \/ /\ runPc' = "failed"
          /\ UNCHANGED stream
    /\ UNCHANGED <<psmVars, busVars, startReq, code>>

\* After the loop: RmListener twice and Send of the final state.
RunFinish ==
    /\ runPc = "final"
    /\ listening' = FALSE
    /\ stream' = Append(stream, code)
    /\ runPc' = "done"
    /\ UNCHANGED <<psmVars, outbox, statusChan, userChan, startReq, code>>

\* The Run goroutine lives in the agency process.
RunStep == ~crashed /\ (RunStart \/ RecvStatus \/ RecvUserAction \/ SendWaitAction \/ RunFinish)

-----------------------------------------------------------------------------

Init ==
    /\ PSM!Init
    /\ outbox = <<>>
    /\ statusChan = <<>>
    /\ userChan = <<>>
    /\ listening = FALSE
    /\ startReq = FALSE
    /\ runPc = "start"
    /\ code = "ERR"
    /\ stream = <<>>

Next ==
    \/ RunStep
    \/ StartTask
    \/ \E m \in PSM!Msgs : PeerMessage(m)
    \/ \E fam \in {"IC", "PP"}, ack \in BOOLEAN : ClientResume(fam, ack)
    \/ Broadcast

\* The Run goroutine, the starter and the engine's broadcasts are scheduled;
\* the peer and the client act when they like.
Spec ==
    /\ Init /\ [][Next]_vars
    /\ WF_vars(RunStep) /\ WF_vars(StartTask) /\ WF_vars(Broadcast)

-----------------------------------------------------------------------------

TypeOK ==
    /\ PSM!TypeOK
    /\ outbox \in Seq(Events)
    /\ statusChan \in Seq(Subs) /\ Len(statusChan) <= ChanCap
    /\ userChan \in Seq(Subs) /\ Len(userChan) <= ChanCap
    /\ listening \in BOOLEAN /\ startReq \in BOOLEAN
    /\ runPc \in RunPCs
    /\ code \in StreamStates
    /\ stream \in Seq(StreamStates)

\* The Run call has returned, or the process it ran in is gone.
RunEnded == runPc \in {"done", "failed"} \/ crashed

\* The final state Run streams agrees with the durable record: what Status
\* (calcProtocolState) reports for the protocol at that moment.  Run
\* derives it from bus events, Status from the record.
RunReportsTruth ==
    (runPc = "done" /\ psm[Key] # <<>>) => PSM!Last(stream) = PSM!StatusOf(Key)

\* A Run that has returned leaves no listener of its key on the bus
\* (RmListener), also when streaming to the client failed.
ListenersRemoved == (RunEnded /\ ~crashed) => ~listening

\* A terminal substate of the record as the bus posts it (Release's
\* Archiving copy is not one).
TerminalSub(sub) == "Archiving" \notin sub /\ PSM!Pure(sub) \in {{"Ready"}, {"Failure"}}

\* Once a terminal status has reached Run's WantAll channel, Run ends: its
\* loop takes every status from the channel and breaks out on each
\* terminal one, also while user actions keep arriving.
TerminalDeliveredEndsRun ==
    (\E i \in DOMAIN statusChan : TerminalSub(statusChan[i])) ~> RunEnded

\* Run does not wait forever on a protocol that never started: the starter
\* either creates the PSM or Run returns.
StartResolved == (runPc = "select") ~> (psm[Key] # <<>> \/ RunEnded)
=============================================================================
