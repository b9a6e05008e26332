------------------------------ MODULE CloudAgent ------------------------------
(***************************************************************************)
(* A cloud agent (CA) of package cloud and the goroutines that use it      *)
(* concurrently: gRPC handlers and protocol goroutines calling WEA()       *)
(* (lazy creation of the worker EA), AttachSAImpl and CallEA.  None of     *)
(* these take a lock; each read and write of a field of the Agent is one   *)
(* step, so every interleaving of the threads is explored.                 *)
(*                                                                         *)
(* A worker EA is named by the thread that built it.  Its wallet is one    *)
(* file, shared by every worker object built for the CA.                   *)
(***************************************************************************)
EXTENDS Naturals, FiniteSets, TLC

CONSTANTS
    Threads,       \* goroutines calling into the CA, one call each
    NoWorker,      \* a.worker == nil
    GRPCSA,        \* sa.GRPCSA, the default SA implementation ID
    AttachImpl     \* the implementation ID AttachSAImpl is called with

VARIABLES
    worker,        \* a.worker
    rcvr,          \* comm.ActiveRcvrs entry of the worker DID
    created,       \* worker objects built so far
    walletCreated, \* the worker wallet exists on disk
    masterSecrets, \* master secrets created in the worker wallet
    walletPW,      \* the pairwise records of the worker wallet
    pws, pwNames,  \* pws and pwNames of each worker object: pipes by my DID and by label
    snap,          \* snap[t]: loadPWMap's receiver and the pairwise list it read
    listErr,       \* worker objects whose loadPWMap got an error from indypw.List
    caImpl,        \* a.SAImplID of the CA
    wImpl,         \* SAImplID of each worker object
    eaEndp,        \* a.EAEndp != nil
    meta,          \* a legacy SA endpoint stored as DID meta in the wallet
    pc, retTo, initBefore, ret, endpOnly, via

pwVars == <<walletPW, pws, pwNames, snap, listErr>>
vars == <<worker, rcvr, created, walletCreated, masterSecrets, pwVars, caImpl,
          wImpl, eaEndp, meta, pc, retTo, initBefore, ret, endpOnly, via>>

Impls == {"", AttachImpl, GRPCSA}

\* A pairwise record of the wallet (indypw.Data: MyDid, TheirDid, Metadata
\* as label) and the sec.Pipe built from it.  The agency restarted with one
\* pairwise in the wallet (my DID "me0"); the connection goroutine t makes
\* its own my DID, t, as the pairwise protocol does for each connection.
Entry(me) == [my |-> me, their |-> "you", name |-> <<"label", me>>]
Pipe(e) == [in |-> e.my, out |-> e.their]
NoSnap == [w |-> NoWorker, list |-> {}]
Workers == Threads \cup {NoWorker}

\* Program counters of the steps of WEA() and workerAgent().
WEASteps == {"wea", "wa_check", "wa_create", "wa_assign", "wa_register",
             "wa_secret", "wa_load", "wa_fill", "wa_return"}
PCs == {"idle", "done", "at_set", "at_worker", "ce_meta", "ce_check",
        "ce_default", "ce_call", "cn_save", "cn_add"} \cup WEASteps

Init ==
    /\ worker = NoWorker
    /\ rcvr = NoWorker
    /\ created = {}
    /\ walletCreated \in BOOLEAN        \* a restarted agency finds the wallet
    /\ masterSecrets = IF walletCreated THEN 1 ELSE 0
    /\ walletPW \in IF walletCreated THEN {{}, {Entry("me0")}} ELSE {{}}
    /\ pws = [w \in Threads |-> <<>>]
    /\ pwNames = [w \in Threads |-> <<>>]
    /\ snap = [t \in Threads |-> NoSnap]
    /\ listErr = {}
    /\ caImpl = ""
    /\ wImpl = [w \in Threads |-> ""]
    /\ eaEndp = FALSE
    /\ meta \in BOOLEAN
    /\ pc = [t \in Threads |-> "idle"]
    /\ retTo = [t \in Threads |-> "done"]
    /\ initBefore = [t \in Threads |-> FALSE]
    /\ ret = [t \in Threads |-> NoWorker]
    /\ endpOnly = [t \in Threads |-> FALSE]
    /\ via = [t \in Threads |-> ""]

Goto(t, l) == pc' = [pc EXCEPT ![t] = l]

-----------------------------------------------------------------------------
(* WEA() and workerAgent(rcvrDID, "_worker").                              *)

\* WEA(): return a.worker when set, otherwise build it.
WEA(t) ==
    /\ pc[t] = "wea"
    /\ IF worker # NoWorker
       THEN /\ ret' = [ret EXCEPT ![t] = worker]
            /\ Goto(t, retTo[t])
       ELSE /\ Goto(t, "wa_check")
            /\ UNCHANGED ret
    /\ UNCHANGED <<worker, rcvr, created, walletCreated, masterSecrets, pwVars,
                   caImpl, wImpl, eaEndp, meta, retTo, initBefore, endpOnly, via>>

\* workerAgent: if a.worker == nil ... (checked again, still unlocked).
WorkerCheck(t) ==
    /\ pc[t] = "wa_check"
    /\ Goto(t, IF worker # NoWorker THEN "wa_return" ELSE "wa_create")
    /\ UNCHANGED <<worker, rcvr, created, walletCreated, masterSecrets, pwVars,
                   caImpl, wImpl, eaEndp, meta, retTo, initBefore, ret, endpOnly, via>>

\* walletInitializedBefore := aWallet.Create(); creation is atomic in the
\* wallet library, so only one caller sees the wallet as new.
CreateWallet(t) ==
    /\ pc[t] = "wa_create"
    /\ initBefore' = [initBefore EXCEPT ![t] = walletCreated]
    /\ walletCreated' = TRUE
    /\ Goto(t, "wa_assign")
    /\ UNCHANGED <<worker, rcvr, created, masterSecrets, pwVars, caImpl, wImpl,
                   eaEndp, meta, retTo, ret, endpOnly, via>>

\* a.worker = &Agent{...}; a.worker.OpenWallet(*aWallet)
AssignWorker(t) ==
    /\ pc[t] = "wa_assign"
    /\ worker' = t
    /\ created' = created \cup {t}
    /\ Goto(t, "wa_register")
    /\ UNCHANGED <<rcvr, walletCreated, masterSecrets, pwVars, caImpl, wImpl,
                   eaEndp, meta, retTo, initBefore, ret, endpOnly, via>>

\* Regression variant: registers the worker this goroutine built.
RegisterWorkerOwn(t) ==
    /\ pc[t] = "wa_register"
    /\ rcvr' = t
    /\ Goto(t, "wa_secret")
    /\ UNCHANGED <<worker, created, walletCreated, masterSecrets, pwVars, caImpl,
                   wImpl, eaEndp, meta, retTo, initBefore, ret, endpOnly, via>>

\* comm.ActiveRcvrs.Add(rcvrDID, a.worker): registers the a.worker of now.
RegisterWorker(t) ==
    /\ pc[t] = "wa_register"
    /\ rcvr' = worker
    /\ Goto(t, "wa_secret")
    /\ UNCHANGED <<worker, created, walletCreated, masterSecrets, pwVars, caImpl,
                   wImpl, eaEndp, meta, retTo, initBefore, ret, endpOnly, via>>

\* Regression variant: creates the master secret without asking whether
\* the wallet was new.
CreateMasterSecretAlways(t) ==
    /\ pc[t] = "wa_secret"
    /\ masterSecrets' = masterSecrets + 1
    /\ Goto(t, "wa_load")
    /\ UNCHANGED <<worker, rcvr, created, walletCreated, pwVars, caImpl, wImpl,
                   eaEndp, meta, retTo, initBefore, ret, endpOnly, via>>

\* if !walletInitializedBefore { ProverCreateMasterSecret(...) }
CreateMasterSecret(t) ==
    /\ pc[t] = "wa_secret"
    /\ masterSecrets' = IF initBefore[t] THEN masterSecrets ELSE masterSecrets + 1
    /\ Goto(t, "wa_load")
    /\ UNCHANGED <<worker, rcvr, created, walletCreated, pwVars, caImpl, wImpl,
                   eaEndp, meta, retTo, initBefore, ret, endpOnly, via>>

\* a.worker.loadPWMap(), first half: the receiver is the a.worker of now;
\* indypw.List reads the wallet's pairwise list, before taking pwLock.
LoadPWMap(t) ==
    /\ pc[t] = "wa_load"
    /\ snap' = [snap EXCEPT ![t] = [w |-> worker, list |-> walletPW]]
    /\ Goto(t, "wa_fill")
    /\ UNCHANGED <<worker, rcvr, created, walletCreated, masterSecrets, walletPW, pws,
                   pwNames, listErr, caImpl, wImpl, eaEndp, meta, retTo, initBefore, ret,
                   endpOnly, via>>

\* indypw.List returns an error: loadPWMap logs it and returns, leaving the
\* receiver's maps as they are; workerAgent returns the worker all the same.
LoadPWMapError(t) ==
    /\ pc[t] = "wa_load"
    /\ listErr' = listErr \cup {worker}
    /\ Goto(t, "wa_return")
    /\ UNCHANGED <<worker, rcvr, created, walletCreated, masterSecrets, walletPW, pws,
                   pwNames, snap, caImpl, wImpl, eaEndp, meta, retTo, initBefore, ret,
                   endpOnly, via>>

\* Regression variant of FillPWMap that rebuilds the maps from the list,
\* as if it began with a.pws = make(PipeMap).
FillPWMapFresh(t) ==
    LET w == snap[t].w
        l == snap[t].list
    IN /\ pc[t] = "wa_fill"
       /\ pws' = [pws EXCEPT ![w] = [d \in {e.my : e \in l} |-> Pipe(CHOOSE e \in l : e.my = d)]]
       /\ pwNames' = [pwNames EXCEPT ![w] = [n \in {e.name : e \in l} |-> Pipe(CHOOSE e \in l : e.name = n)]]
       /\ snap' = [snap EXCEPT ![t] = NoSnap]
       /\ Goto(t, "wa_return")
       /\ UNCHANGED <<worker, rcvr, created, walletCreated, masterSecrets, walletPW,
                      listErr, caImpl, wImpl, eaEndp, meta, retTo, initBefore, ret, endpOnly, via>>

\* Second half, under pwLock: for each record, a.pws[MyDid] = p and
\* a.pwNames[Metadata] = p in the receiver's maps (my DIDs and labels are
\* unique in the list, so the order of the loop does not matter).
FillPWMap(t) ==
    LET w == snap[t].w
        l == snap[t].list
    IN /\ pc[t] = "wa_fill"
       /\ pws' = [pws EXCEPT ![w] = [d \in {e.my : e \in l} |-> Pipe(CHOOSE e \in l : e.my = d)] @@ pws[w]]
       /\ pwNames' = [pwNames EXCEPT ![w] = [n \in {e.name : e \in l} |-> Pipe(CHOOSE e \in l : e.name = n)] @@ pwNames[w]]
       /\ snap' = [snap EXCEPT ![t] = NoSnap]
       /\ Goto(t, "wa_return")
       /\ UNCHANGED <<worker, rcvr, created, walletCreated, masterSecrets, walletPW,
                      listErr, caImpl, wImpl, eaEndp, meta, retTo, initBefore, ret, endpOnly, via>>

\* return a.worker
WorkerReturn(t) ==
    /\ pc[t] = "wa_return"
    /\ ret' = [ret EXCEPT ![t] = worker]
    /\ Goto(t, retTo[t])
    /\ UNCHANGED <<worker, rcvr, created, walletCreated, masterSecrets, pwVars,
                   caImpl, wImpl, eaEndp, meta, retTo, initBefore, endpOnly, via>>

-----------------------------------------------------------------------------
(* AttachSAImpl(implID, false) on the CA.                                  *)

\* Regression variant: stores the persistent endpoint ("<implID>://localhost")
\* where the implementation ID belongs.
AttachSetEndp(t) ==
    /\ pc[t] = "at_set"
    /\ caImpl' = "endpoint"
    /\ retTo' = [retTo EXCEPT ![t] = "at_worker"]
    /\ Goto(t, "wea")
    /\ UNCHANGED <<worker, rcvr, created, walletCreated, masterSecrets, pwVars,
                   wImpl, eaEndp, meta, initBefore, ret, endpOnly, via>>

\* a.SAImplID = implID; wa := a.WorkerEA()
AttachSet(t) ==
    /\ pc[t] = "at_set"
    /\ caImpl' = AttachImpl
    /\ retTo' = [retTo EXCEPT ![t] = "at_worker"]
    /\ Goto(t, "wea")
    /\ UNCHANGED <<worker, rcvr, created, walletCreated, masterSecrets, pwVars,
                   wImpl, eaEndp, meta, initBefore, ret, endpOnly, via>>

\* wa.SAImplID = implID
AttachWorker(t) ==
    /\ pc[t] = "at_worker"
    /\ wImpl' = [wImpl EXCEPT ![ret[t]] = AttachImpl]
    /\ Goto(t, "done")
    /\ UNCHANGED <<worker, rcvr, created, walletCreated, masterSecrets, pwVars,
                   caImpl, eaEndp, meta, retTo, initBefore, ret, endpOnly, via>>

-----------------------------------------------------------------------------
(* CallEA(plType, im): callableEA, checkSAImpl, then the SA call.          *)

\* callableEA: with no impl ID and no endpoint, read a legacy endpoint from
\* the DID meta of the wallet.
CallableEA(t) ==
    /\ pc[t] = "ce_meta"
    /\ eaEndp' = (eaEndp \/ (caImpl = "" /\ meta))
    /\ Goto(t, "ce_check")
    /\ UNCHANGED <<worker, rcvr, created, walletCreated, masterSecrets, pwVars,
                   caImpl, wImpl, meta, retTo, initBefore, ret, endpOnly, via>>

\* checkSAImpl: if a.SAImplID != "" { return callTypeImplID }
CheckSAImpl(t) ==
    /\ pc[t] = "ce_check"
    /\ endpOnly' = [endpOnly EXCEPT ![t] = (caImpl = "" /\ eaEndp)]
    /\ Goto(t, IF caImpl # "" THEN "ce_call" ELSE "ce_default")
    /\ UNCHANGED <<worker, rcvr, created, walletCreated, masterSecrets, pwVars,
                   caImpl, wImpl, eaEndp, meta, retTo, initBefore, ret, via>>

\* a.SAImplID = sa.GRPCSA; return callTypeImplID
DefaultSAImpl(t) ==
    /\ pc[t] = "ce_default"
    /\ caImpl' = GRPCSA
    /\ Goto(t, "ce_call")
    /\ UNCHANGED <<worker, rcvr, created, walletCreated, masterSecrets, pwVars,
                   wImpl, eaEndp, meta, retTo, initBefore, ret, endpOnly, via>>

\* case callTypeImplID: sa.Get(a.SAImplID)(...), a.SAImplID read again.
CallSA(t) ==
    /\ pc[t] = "ce_call"
    /\ via' = [via EXCEPT ![t] = caImpl]
    /\ Goto(t, "done")
    /\ UNCHANGED <<worker, rcvr, created, walletCreated, masterSecrets, pwVars,
                   caImpl, wImpl, eaEndp, meta, retTo, initBefore, ret, endpOnly>>

-----------------------------------------------------------------------------

-----------------------------------------------------------------------------
(* A connection: the pairwise protocol on the worker WEA() returned saves  *)
(* the new pairwise in the wallet and adds its pipe to the worker's maps.  *)

\* The pairwise Saver stores the record in the worker's wallet.
SavePairwise(t) ==
    /\ pc[t] = "cn_save"
    /\ walletPW' = walletPW \cup {Entry(t)}
    /\ Goto(t, "cn_add")
    /\ UNCHANGED <<worker, rcvr, created, walletCreated, masterSecrets, pws, pwNames, snap, listErr,
                   caImpl, wImpl, eaEndp, meta, retTo, initBefore, ret, endpOnly, via>>

\* wa.AddToPWMap(me, you, name): under pwLock, a.pws[me.Did()] = pipe and
\* a.pwNames[name] = pipe, in the maps of the worker object it holds.
AddToPWMap(t) ==
    LET e == Entry(t)
    IN /\ pc[t] = "cn_add"
       /\ pws' = [pws EXCEPT ![ret[t]] = (e.my :> Pipe(e)) @@ pws[ret[t]]]
       /\ pwNames' = [pwNames EXCEPT ![ret[t]] = (e.name :> Pipe(e)) @@ pwNames[ret[t]]]
       /\ Goto(t, "done")
       /\ UNCHANGED <<worker, rcvr, created, walletCreated, masterSecrets, walletPW, snap, listErr,
                      caImpl, wImpl, eaEndp, meta, retTo, initBefore, ret, endpOnly, via>>

-----------------------------------------------------------------------------

\* An idle goroutine makes one call: WorkerEA(), AttachSAImpl, CallEA, or
\* WorkerEA() followed by a new connection.
Call(t) ==
    /\ pc[t] = "idle"
    /\ \/ Goto(t, "wea") /\ UNCHANGED retTo
       \/ Goto(t, "at_set") /\ UNCHANGED retTo
       \/ Goto(t, "ce_meta") /\ UNCHANGED retTo
       \/ Goto(t, "wea") /\ retTo' = [retTo EXCEPT ![t] = "cn_save"]
    /\ UNCHANGED <<worker, rcvr, created, walletCreated, masterSecrets, pwVars,
                   caImpl, wImpl, eaEndp, meta, initBefore, ret, endpOnly, via>>

Step(t) ==
    \/ Call(t)
    \/ WEA(t) \/ WorkerCheck(t) \/ CreateWallet(t) \/ AssignWorker(t)
    \/ RegisterWorker(t) \/ CreateMasterSecret(t) \/ LoadPWMap(t) \/ LoadPWMapError(t)
    \/ FillPWMap(t)
    \/ WorkerReturn(t)
    \/ AttachSet(t) \/ AttachWorker(t)
    \/ CallableEA(t) \/ CheckSAImpl(t) \/ DefaultSAImpl(t) \/ CallSA(t)
    \/ SavePairwise(t) \/ AddToPWMap(t)

Done == \A t \in Threads : pc[t] = "done"

Next ==
    \/ \E t \in Threads : Step(t)
    \/ Done /\ UNCHANGED vars

Spec == Init /\ [][Next]_vars

-----------------------------------------------------------------------------

TypeOK ==
    /\ worker \in Workers /\ rcvr \in Workers
    /\ created \subseteq Threads
    /\ walletCreated \in BOOLEAN
    /\ masterSecrets \in Nat
    /\ listErr \subseteq Workers
    /\ walletPW \subseteq {Entry(d) : d \in Threads \cup {"me0"}}
    /\ \A w \in Threads : \A d \in DOMAIN pws[w] : pws[w][d] \in {Pipe(e) : e \in walletPW}
    /\ caImpl \in Impls /\ wImpl \in [Threads -> Impls]
    /\ eaEndp \in BOOLEAN /\ meta \in BOOLEAN
    /\ pc \in [Threads -> PCs]
    /\ retTo \in [Threads -> {"done", "at_worker", "cn_save"}]
    /\ initBefore \in [Threads -> BOOLEAN]
    /\ ret \in [Threads -> Workers]
    /\ endpOnly \in [Threads -> BOOLEAN]
    /\ via \in [Threads -> Impls \cup {"endpoint"}]

InWEA == \E t \in Threads : pc[t] \in WEASteps

\* When no goroutine is inside WEA(), inbound messages for the worker DID
\* (comm.ActiveRcvrs) reach the worker the CA itself uses (a.worker), even
\* after goroutines raced to build it.
WorkerRegistered == ~InWEA => rcvr = worker

\* The worker wallet gets exactly one master secret, however many
\* goroutines race through workerAgent and whether the wallet existed.
MasterSecretOnce == masterSecrets <= 1

\* The zero sec.Pipe.
NullPipe == [in |-> "", out |-> ""]

\* SecPipe(meDID) on worker object w: a.pws[meDID] under pwLock, the zero
\* pipe for a DID the map does not hold.
SecPipe(w, me) == IF me \in DOMAIN pws[w] THEN pws[w][me] ELSE NullPipe

\* PwPipe(pw) on worker object w: the pwNames hit under pwLock; otherwise
\* a.Pairwise(pw) reads the wallet's record of that name, and a name the
\* wallet does not hold is an error (the zero pipe).
PwPipe(w, name) ==
    IF name \in DOMAIN pwNames[w] THEN [hit |-> TRUE, pipe |-> pwNames[w][name]]
    ELSE [hit |-> FALSE,
          pipe |-> IF \E e \in walletPW : e.name = name
                   THEN Pipe(CHOOSE e \in walletPW : e.name = name)
                   ELSE NullPipe]

\* Worker object w finds every pairwise of the wallet from its maps, by my
\* DID (SecPipe) and by label (PwPipe without going to the wallet).
Knows(w) ==
    \A e \in walletPW :
        /\ SecPipe(w, e.my) = Pipe(e)
        /\ PwPipe(w, e.name) = [hit |-> TRUE, pipe |-> Pipe(e)]

\* A connection has saved its pairwise and not yet added it to the maps.
Adding == \E t \in Threads : pc[t] = "cn_add"

\* With one worker object, loadPWMap and the connections keep its maps in
\* step with the wallet: once no goroutine is in WEA() or between save and
\* AddToPWMap, SecPipe and PwPipe find every pairwise, also when a
\* connection saved and added its pairwise between loadPWMap's unlocked
\* List and its locked loop.  A failed List (LoadPWMapError) is excluded:
\* loadPWMap then leaves the maps empty by design of its error path, which
\* WorkerReadyWhenReturned covers.
PairwiseKnown ==
    (Cardinality(created) = 1 /\ listErr = {} /\ ~InWEA /\ ~Adding) => Knows(worker)

\* A worker handed out by WEA() is fully initialised: its wallet has the
\* master secret, and once no connection is between save and AddToPWMap,
\* its maps hold every pairwise of the wallet.
WorkerReadyWhenReturned ==
    \A t \in Threads :
        (pc[t] \in {"at_worker", "cn_save", "cn_add", "done"} /\ ret[t] # NoWorker) =>
            /\ masterSecrets >= 1
            /\ ~Adding => Knows(ret[t])
=============================================================================
