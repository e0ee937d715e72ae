---------------------------- MODULE AcpAttempts ----------------------------
(***************************************************************************)
(* Acp::run (acp.rs): an answer by a subprocess.  An attempt is reserved   *)
(* in the private ledger before the runner is spawned, one request per     *)
(* Acp object is in flight, the runner's process group is killed however   *)
(* the attempt ends, and its raw output is recorded before it is parsed.   *)
(* Clients go away, the checkout shuts down (cancel_all), processes crash. *)
(*                                                                         *)
(* A crash of the daemon leaves the runner to itself: nothing kills it.    *)
(***************************************************************************)
EXTENDS PrivateLedger

CONSTANT Runs          \* requests

VARIABLES at,          \* where Acp::run of a request is
          proc,        \* the process, that is the Acp object, it runs in
          alive,       \* its future has not been dropped
          id,          \* its attempt
          received,    \* "ok" or "error": what execute_capture returned
          result,      \* what the caller got
          runner,      \* its process group lives
          spawns,      \* runners ever spawned
          flight,      \* the request that holds the in-flight mutex
          shutdown     \* cancel_all was called on the object

runVars == <<at, proc, alive, id, received, result, runner, spawns>>
vars == <<ledgerVars, runVars, flight, shutdown>>

TypeOK ==
  /\ LedgerTypeOK
  /\ at \in [Runs -> {"idle", "reserving", "reserved", "running", "heard",
                      "recorded", "done", "lost"}]
  /\ proc \in [Runs -> Procs \cup {None}]
  /\ alive \in [Runs -> BOOLEAN]
  /\ id \in [Runs -> Ids \cup {None}]
  /\ received \in [Runs -> {None, "ok", "error"}]
  /\ result \in [Runs -> {None, "answer", "error"}]
  /\ runner \in [Runs -> BOOLEAN]
  /\ spawns \in 0..Cardinality(Runs)
  /\ flight \in [Procs -> Runs \cup {None}]
  /\ shutdown \in [Procs -> BOOLEAN]

Init ==
  /\ LedgerInit
  /\ at = [r \in Runs |-> "idle"]
  /\ proc = [r \in Runs |-> None]
  /\ alive = [r \in Runs |-> TRUE]
  /\ id = [r \in Runs |-> None]
  /\ received = [r \in Runs |-> None]
  /\ result = [r \in Runs |-> None]
  /\ runner = [r \in Runs |-> FALSE]
  /\ spawns = 0
  /\ flight = [p \in Procs |-> None]
  /\ shutdown = [p \in Procs |-> FALSE]

Step(r, s) == at' = [at EXCEPT ![r] = s]

(* The future ends: its guard on the in-flight mutex is dropped. *)
Unflight(r) ==
  flight' = [p \in Procs |-> IF flight[p] = r THEN None ELSE flight[p]]

Return(r, v) ==
  /\ Step(r, "done")
  /\ result' = IF alive[r] THEN [result EXCEPT ![r] = v] ELSE result
  /\ Unflight(r)

------------------------------------------------------------------------------

Open(p) ==
  /\ OpenStep(p)
  /\ flight' = [flight EXCEPT ![p] = None]
  /\ shutdown' = [shutdown EXCEPT ![p] = FALSE]
  /\ UNCHANGED runVars

Busy(p) == shutdown[p] \/ flight[p] # None

Start(r, p) ==
  /\ at[r] = "idle" /\ pc[p] = "open"
  /\ proc' = [proc EXCEPT ![r] = p]
  /\ IF Busy(p)
     THEN Return(r, "error")
     ELSE /\ flight' = [flight EXCEPT ![p] = r]
          /\ Step(r, "reserving")
          /\ UNCHANGED result
  /\ UNCHANGED <<ledgerVars, alive, id, received, runner, spawns, shutdown>>

(* Every connection checks the marker too. *)
Connects(p) == marker # "none" /\ Usable(p)

(* The reservation commits in a blocking task; its answer may be lost. *)
Reserve(r) ==
  /\ at[r] = "reserving" /\ Connects(proc[r])
  /\ \E i \in Ids :
       /\ InsertRow(proc[r], i)
       /\ id' = [id EXCEPT ![r] = i]
  /\ \/ alive[r] /\ Step(r, "reserved") /\ UNCHANGED <<result, flight>>
     \/ Return(r, "error")
  /\ UNCHANGED <<proc, alive, received, runner, spawns, shutdown>>

ReserveFails(r) ==
  /\ at[r] = "reserving"
  /\ Return(r, "error")
  /\ UNCHANGED <<ledgerVars, proc, alive, id, received, runner, spawns, shutdown>>

(* The select is biased: a shutdown is seen before the runner is spawned. *)
Spawn(r) ==
  /\ at[r] = "reserved" /\ alive[r] /\ ~shutdown[proc[r]]
  /\ \/ /\ runner' = [runner EXCEPT ![r] = TRUE]
        /\ spawns' = spawns + 1
        /\ Step(r, "running")
        /\ UNCHANGED received
     \/ /\ received' = [received EXCEPT ![r] = "error"]
        /\ Step(r, "heard")
        /\ UNCHANGED <<runner, spawns>>
  /\ UNCHANGED <<ledgerVars, proc, alive, id, result, flight, shutdown>>

(* The runner ends well, ends badly, or runs out of time.  In every case the *)
(* guard kills what is left of its group.                                    *)
Hear(r) ==
  /\ at[r] = "running" /\ alive[r]
  /\ \E o \in {"ok", "error"} : received' = [received EXCEPT ![r] = o]
  /\ runner' = [runner EXCEPT ![r] = FALSE]
  /\ Step(r, "heard")
  /\ UNCHANGED <<ledgerVars, proc, alive, id, result, spawns, flight, shutdown>>

(* The object is shut down: the other branch of the select is dropped. *)
HearShutdown(r) ==
  /\ at[r] \in {"reserved", "running"} /\ alive[r] /\ shutdown[proc[r]]
  /\ received' = [received EXCEPT ![r] = "error"]
  /\ runner' = [runner EXCEPT ![r] = FALSE]
  /\ Step(r, "heard")
  /\ UNCHANGED <<ledgerVars, proc, alive, id, result, spawns, flight, shutdown>>

(* The raw output is recorded before it is parsed. *)
RecordRaw(r) ==
  /\ at[r] = "heard"
  /\ \/ /\ Connects(proc[r])
        /\ UpdateRow(proc[r], id[r], IF received[r] = "ok"
                       THEN "received_unvalidated" ELSE "transport_failed")
        /\ \/ alive[r] /\ Step(r, "recorded") /\ UNCHANGED <<result, flight>>
           \/ Return(r, "error")
     \/ UNCHANGED ledgerVars /\ Return(r, "error")
  /\ UNCHANGED <<proc, alive, id, received, runner, spawns, shutdown>>

(* The output is parsed and validated; what the row says comes first. *)
RecordResult(r) ==
  /\ at[r] = "recorded"
  /\ \E valid \in {received[r] = "ok", FALSE} :
       \/ /\ Connects(proc[r])
          /\ UpdateRow(proc[r], id[r], IF valid THEN "success" ELSE "failed")
          /\ \/ Return(r, IF valid THEN "answer" ELSE "error")
             \/ Return(r, "error")
       \/ UNCHANGED ledgerVars /\ Return(r, "error")
  /\ UNCHANGED <<proc, alive, id, received, runner, spawns, shutdown>>

(* The client goes away.  The future and the guards it holds are dropped; a  *)
(* ledger task that was already handed over still runs.                      *)
Cancel(r) ==
  /\ alive[r] /\ at[r] \notin {"idle", "done", "lost"}
  /\ alive' = [alive EXCEPT ![r] = FALSE]
  /\ runner' = [runner EXCEPT ![r] = FALSE]
  /\ Unflight(r)
  /\ \/ Step(r, "done")
     \/ at[r] \in {"reserving", "heard", "recorded"} /\ UNCHANGED at
  /\ UNCHANGED <<ledgerVars, proc, id, received, result, spawns, shutdown>>

cancel_all(p) ==
  /\ pc[p] = "open" /\ ~shutdown[p]
  /\ shutdown' = [shutdown EXCEPT ![p] = TRUE]
  /\ UNCHANGED <<ledgerVars, runVars, flight>>

Abandon(S) ==
  /\ at' = [r \in Runs |-> IF proc[r] \in S /\ at[r] # "done" THEN "lost" ELSE at[r]]
  /\ UNCHANGED <<proc, alive, id, received, result, spawns, flight, shutdown>>

Crash(p) == Die(p) /\ Abandon({p}) /\ UNCHANGED runner
PowerLoss == LosePower /\ Abandon(Procs) /\ runner' = [r \in Runs |-> FALSE]
DbLost == LoseDb /\ UNCHANGED <<runVars, flight, shutdown>>

RunStep(r) ==
  \/ Reserve(r) \/ ReserveFails(r) \/ Spawn(r) \/ HearShutdown(r)
  \/ RecordRaw(r) \/ RecordResult(r)

Next ==
  \/ \E p \in Procs : Open(p) \/ cancel_all(p) \/ Crash(p)
  \/ \E r \in Runs : RunStep(r) \/ Hear(r) \/ Cancel(r) \/ \E p \in Procs : Start(r, p)
  \/ PowerLoss \/ DbLost

Spec == Init /\ [][Next]_vars

------------------------------------------------------------------------------
(* Properties. *)

(* Runners ever spawned, over crashes, restarts, cancelled requests and lost *)
(* databases, stay within the allowance of every process that has the        *)
(* ledger open (acp.rs, open and reserve).                                   *)
SpawnsWithinCap == \A p \in Procs : pc[p] = "open" => Unit * spawns <= cap[p]

(* An Acp object never has two runners, and a runner never outlives its      *)
(* attempt: it is gone when the caller has its answer or went away.  Only a  *)
(* crash of the daemon leaves one behind (acp.rs, ProcessGroup and flight).  *)
RunnerContained ==
  \A r \in Runs : runner[r] =>
    \/ at[r] = "lost"
    \/ at[r] = "running" /\ \A q \in Runs \ {r} :
         proc[q] = proc[r] => at[q] # "running"

(* While nobody damages the database, a runner was only spawned for a row of *)
(* its own, and an answer is only returned once its row says so.             *)
AnswersAudited ==
  intact =>
    /\ \A r \in Runs : at[r] \in {"running", "heard", "recorded"} =>
         /\ id[r] \in DOMAIN db.rows
         /\ \A q \in Runs \ {r} : id[q] # id[r]
    /\ \A r \in Runs : result[r] = "answer" =>
         /\ id[r] \in DOMAIN db.rows
         /\ db.rows[id[r]] = "success"

==============================================================================
