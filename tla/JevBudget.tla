----------------------------- MODULE JevBudget -----------------------------
(***************************************************************************)
(* LiveJev::run (live_jev.rs): a paid provider call.  Money is reserved in *)
(* the private ledger before the call is sent, nothing is ever refunded,   *)
(* and the caller gets the selection only after the row says how the call  *)
(* ended.  Requests run concurrently in several processes; a client may go *)
(* away at any await (the future is dropped, a blocking ledger task is     *)
(* not), and a transaction may report an error although it took effect.    *)
(***************************************************************************)
EXTENDS PrivateLedger

CONSTANT Runs          \* requests

VARIABLES at,          \* where LiveJev::run of a request is
          proc,        \* the process that runs it
          alive,       \* its future has not been dropped
          id,          \* its attempt
          outcome,     \* "success", or a failure status of the call
          result,      \* what the caller got
          calls        \* provider calls ever sent

runVars == <<at, proc, alive, id, outcome, result, calls>>
vars == <<ledgerVars, runVars>>

TypeOK ==
  /\ LedgerTypeOK
  /\ at \in [Runs -> {"idle", "reserving", "reserved", "sent", "heard",
                      "finishing", "done"}]
  /\ proc \in [Runs -> Procs \cup {None}]
  /\ alive \in [Runs -> BOOLEAN]
  /\ id \in [Runs -> Ids \cup {None}]
  /\ outcome \in [Runs -> {None, "success", "failed"}]
  /\ result \in [Runs -> {None, "answer", "error"}]
  /\ calls \in 0..Cardinality(Runs)

Init ==
  /\ LedgerInit
  /\ at = [r \in Runs |-> "idle"]
  /\ proc = [r \in Runs |-> None]
  /\ alive = [r \in Runs |-> TRUE]
  /\ id = [r \in Runs |-> None]
  /\ outcome = [r \in Runs |-> None]
  /\ result = [r \in Runs |-> None]
  /\ calls = 0

Step(r, s) == at' = [at EXCEPT ![r] = s]
Return(r, v) ==
  /\ Step(r, "done")
  /\ result' = IF alive[r] THEN [result EXCEPT ![r] = v] ELSE result

------------------------------------------------------------------------------

Open(p) == OpenStep(p) /\ UNCHANGED runVars

(* The request is validated and the reservation handed to a blocking task. *)
Start(r, p) ==
  /\ at[r] = "idle" /\ pc[p] = "open"
  /\ proc' = [proc EXCEPT ![r] = p]
  /\ Step(r, "reserving")
  /\ UNCHANGED <<ledgerVars, alive, id, outcome, result, calls>>

(* The row is committed.  If the commit reports an error all the same, or    *)
(* the client is gone, no call follows; the reservation stays.               *)
Reserve(r) ==
  /\ at[r] = "reserving"
  /\ \E i \in Ids :
       /\ InsertRow(proc[r], i)
       /\ id' = [id EXCEPT ![r] = i]
  /\ \/ alive[r] /\ Step(r, "reserved") /\ UNCHANGED result
     \/ Return(r, "error")
  /\ UNCHANGED <<proc, alive, outcome, calls>>

ReserveFails(r) ==
  /\ at[r] = "reserving"
  /\ Return(r, "error")
  /\ UNCHANGED <<ledgerVars, proc, alive, id, outcome, calls>>

Send(r) ==
  /\ at[r] = "reserved" /\ alive[r]
  /\ calls' = calls + 1
  /\ Step(r, "sent")
  /\ UNCHANGED <<ledgerVars, proc, alive, id, outcome, result>>

(* The provider's answer is read and parsed, the transport fails, or the     *)
(* time is up.                                                               *)
Hear(r) ==
  /\ at[r] = "sent" /\ alive[r]
  /\ \E o \in {"success", "failed"} : outcome' = [outcome EXCEPT ![r] = o]
  /\ Step(r, "heard")
  /\ UNCHANGED <<ledgerVars, proc, alive, id, result, calls>>

(* The audit is handed to a blocking task, which outlives the future. *)
Audit(r) ==
  /\ at[r] = "heard" /\ alive[r]
  /\ Step(r, "finishing")
  /\ UNCHANGED <<ledgerVars, proc, alive, id, outcome, result, calls>>

Finish(r) ==
  /\ at[r] = "finishing"
  /\ \/ /\ UpdateRow(proc[r], id[r], outcome[r])
        /\ \/ Return(r, IF outcome[r] = "success" THEN "answer" ELSE "error")
           \/ Return(r, "error")
     \/ UNCHANGED ledgerVars /\ Return(r, "error")
  /\ UNCHANGED <<proc, alive, id, outcome, calls>>

(* The client goes away and the handler's future is dropped. *)
Cancel(r) ==
  /\ alive[r] /\ at[r] \notin {"idle", "done"}
  /\ alive' = [alive EXCEPT ![r] = FALSE]
  /\ IF at[r] \in {"reserving", "finishing"} THEN UNCHANGED at ELSE Step(r, "done")
  /\ UNCHANGED <<ledgerVars, proc, id, outcome, result, calls>>

Abandon(S) ==
  /\ at' = [r \in Runs |-> IF proc[r] \in S THEN "done" ELSE at[r]]
  /\ UNCHANGED <<proc, alive, id, outcome, result, calls>>

Crash(p) == Die(p) /\ Abandon({p})
PowerLoss == LosePower /\ Abandon(Procs)
DbLost == LoseDb /\ UNCHANGED runVars

Next ==
  \/ \E p \in Procs : Open(p) \/ Crash(p)
  \/ \E r \in Runs :
       \/ \E p \in Procs : Start(r, p)
       \/ Reserve(r) \/ ReserveFails(r) \/ Send(r) \/ Hear(r)
       \/ Audit(r) \/ Finish(r) \/ Cancel(r)
  \/ PowerLoss \/ DbLost

Spec == Init /\ [][Next]_vars

(* Tokio polls a request, its blocking tasks run, and the time-out ends the  *)
(* wait for the provider.                                                    *)
RunStep(r) ==
  Reserve(r) \/ ReserveFails(r) \/ Send(r) \/ Hear(r) \/ Audit(r) \/ Finish(r)

------------------------------------------------------------------------------
(* Properties. *)

(* The provider calls ever sent, by all processes, over crashes, restarts    *)
(* and lost databases, never reserve more than the cap that a process that   *)
(* has the ledger open was configured with (live_jev.rs, reserve and open).  *)
CallsWithinCap == \A p \in Procs : pc[p] = "open" => Unit * calls <= cap[p]

(* While nobody damages the database, every call that was sent has its row,  *)
(* and a selection is only handed out when its own row records the success,  *)
(* whatever crashes, cancellations and ambiguous commits happen in between.  *)
AnswersAudited ==
  intact =>
    /\ \A r \in Runs : at[r] \in {"sent", "heard", "finishing"} =>
         /\ id[r] \in DOMAIN db.rows
         /\ \A q \in Runs \ {r} : id[q] # id[r]
    /\ \A r \in Runs : result[r] = "answer" =>
         /\ id[r] \in DOMAIN db.rows
         /\ db.rows[id[r]] = "success"

==============================================================================
