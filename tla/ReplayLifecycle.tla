--------------------------- MODULE ReplayLifecycle ---------------------------
(***************************************************************************)
(* What the status column of a replay session promises to whoever reads it *)
(* (the API, the admin pages, the next Create), without credits, batches,  *)
(* the semaphore or requests: the moves a status can make, and who makes   *)
(* them.  A session is engaged while a goroutine may still write its row.  *)
(*                                                                         *)
(* The promise is what the code keeps, not what one would wish: an engaged *)
(* session can leave "cancelled" again, because the writes of the          *)
(* goroutine are unconditional.                                            *)
(***************************************************************************)
CONSTANT Sessions

VARIABLES status, engaged

lifeVars == <<status, engaged>>

Open    == {"pending", "running"}
Unruly  == Open \cup {"cancelled"}   \* what an engaged session may show

LifeInit ==
  /\ status = [s \in Sessions |-> "none"]
  /\ engaged = {}

(* A request inserts the row and starts the goroutine.                     *)
Submit(s) ==
  /\ status[s] = "none" /\ s \notin engaged
  /\ status' = [status EXCEPT ![s] = "pending"]
  /\ engaged' = engaged \cup {s}

Begin(s) ==
  /\ s \in engaged /\ status[s] \in {"pending", "cancelled"}
  /\ status' = [status EXCEPT ![s] = "running"]
  /\ engaged' = engaged

(* Only an open session can be cancelled, engaged or not.                  *)
Cancel(s) ==
  /\ status[s] \in Open
  /\ status' = [status EXCEPT ![s] = "cancelled"]
  /\ engaged' = engaged

(* The last write of the goroutine: never on a settled row, and only once. *)
Finish(s) ==
  /\ s \in engaged /\ status[s] \in Unruly
  /\ \E verdict \in {"completed", "failed"} :
       status' = [status EXCEPT ![s] = verdict]
  /\ engaged' = engaged \ {s}

(* The goroutine ends without a last write: it saw the cancellation, or    *)
(* the write failed.                                                       *)
Disengage(s) ==
  /\ s \in engaged /\ status[s] \in Unruly
  /\ status' = status
  /\ engaged' = engaged \ {s}

Stop ==
  /\ engaged' = {}
  /\ status' = status

(* Startup, when nothing is engaged.                                       *)
Recover ==
  /\ engaged = {}
  /\ status' = [s \in Sessions |-> IF status[s] \in Open THEN "failed"
                                                         ELSE status[s]]
  /\ engaged' = engaged

LifeNext ==
  \/ \E s \in Sessions :
       Submit(s) \/ Begin(s) \/ Cancel(s) \/ Finish(s) \/ Disengage(s)
  \/ Stop \/ Recover

Spec == LifeInit /\ [][LifeNext]_lifeVars
=============================================================================
