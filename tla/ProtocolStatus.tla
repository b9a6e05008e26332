--------------------------- MODULE ProtocolStatus ---------------------------
(***************************************************************************)
(* What a protocol instance promises to the client of the agency's gRPC   *)
(* API (pb.ProtocolState.State, as returned by Status and streamed by     *)
(* Run): an instance may move between RUNNING and WAIT_ACTION any number *)
(* of times, and once it is OK, NACK or ERR that outcome is final.  A key *)
(* with no PSM reads as RUNNING (calcProtocolState of a nil PSM), so every *)
(* key starts there.                                                       *)
(***************************************************************************)
CONSTANT Keys

VARIABLE status

States == {"RUNNING", "WAIT_ACTION", "OK", "NACK", "ERR"}
Final  == {"OK", "NACK", "ERR"}

TypeOK == status \in [Keys -> States]

Init == status = [k \in Keys |-> "RUNNING"]

\* One client-visible change of one instance.
Change(k) ==
    /\ status[k] \notin Final
    /\ \E s \in States \ {status[k]} :
          status' = [status EXCEPT ![k] = s]

Next == \E k \in Keys : Change(k)

Spec == Init /\ [][Next]_status
=============================================================================
