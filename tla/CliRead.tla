------------------------------ MODULE CliRead ------------------------------
(***************************************************************************)
(* The finite commands of src/main.rs: `status`, the reads (`symbols`,     *)
(* `query`, `export`) and the end of `index`. A command asks a running     *)
(* daemon or works alone, never both; alone it opens the store, is         *)
(* admitted once as leader or follower, reads with retries up to a         *)
(* deadline, and writes its answer under a session it verified after the   *)
(* read. The wait of `index` for its row is in module CliWait.             *)
(***************************************************************************)
EXTENDS Naturals

CONSTANTS
    Wait,       \* CLI_READ_WAIT and STATUS_RESULT_WAIT, in ticks
    MaxTime,    \* bound: the clock
    MaxOwners   \* bound: changes of the leader's incarnation

VARIABLES
    now,
    root,     \* the workspace pathname still names the directory found at the start
    daemon,   \* a daemon listens
    lock,     \* who holds the leader lock, and the incarnation written in it
    cmd

vars == <<now, root, daemon, lock, cmd>>

Kinds == {"status", "read", "index"}
Min2(a, b) == IF a < b THEN a ELSE b
NoSession == [leader |-> FALSE, inc |-> 0]

TypeOK ==
    /\ now \in 0..MaxTime /\ root \in BOOLEAN /\ daemon \in BOOLEAN
    /\ lock.who \in {"none", "cli", "other"} /\ lock.inc \in 0..MaxOwners + 1
    /\ cmd.kind \in Kinds /\ cmd.res \in {"none", "ok", "busy", "hard"}
    /\ cmd.pc \in {"probe", "send", "index", "attempt", "reading", "judge", "sleep", "admit", "admitted", "write", "maintain", "end"}
    /\ cmd.phase \in {"open", "status", "read", "terminal"}
    /\ cmd.out \in {"none", "ok", "daemon", "error", "busy", "guard"}
    /\ (cmd.pc = "end") => (cmd.out # "none")
    \* The lock is the command's exactly while it has a leader's session.
    /\ (lock.who = "cli") = (cmd.session.leader /\ cmd.pc # "end")

Init ==
    /\ now = 0 /\ root = TRUE /\ daemon \in BOOLEAN
    /\ lock = [who |-> "none", inc |-> 0]
    /\ \E k \in Kinds :
         cmd = [kind |-> k, pc |-> "probe", phase |-> "open", session |-> NoSession, deadline |-> 0, backoff |-> 1,
                wake |-> 0, res |-> "none", val |-> 0, lost |-> FALSE, out |-> "none",
                admits |-> 0, pubs |-> 0, asked |-> 0, late |-> 0, units |-> 0]

(***************************************************************************)
(* The environment.                                                        *)
(***************************************************************************)
\* The clock runs from when the deadline is set.
Tick ==
    /\ now < MaxTime /\ now' = now + 1 /\ cmd.pc \notin {"probe", "send", "index", "end"}
    /\ UNCHANGED <<root, daemon, lock, cmd>>

LoseRoot ==
    /\ root /\ root' = FALSE
    /\ UNCHANGED <<now, daemon, lock, cmd>>

DaemonStops ==
    /\ daemon /\ daemon' = FALSE
    /\ UNCHANGED <<now, root, lock, cmd>>

OtherLeads ==
    /\ lock.who = "none" /\ lock.inc < MaxOwners
    /\ lock' = [who |-> "other", inc |-> lock.inc + 1]
    /\ UNCHANGED <<now, root, daemon, cmd>>

OtherLeaves ==
    /\ lock.who = "other" /\ lock' = [lock EXCEPT !.who = "none"]
    /\ UNCHANGED <<now, root, daemon, cmd>>

env == <<now, root, daemon>>

(***************************************************************************)
(* The command.                                                            *)
(***************************************************************************)
\* The session is dropped with the command.
EndWith(c, out) ==
    /\ cmd' = [c EXCEPT !.pc = "end", !.out = out]
    /\ lock' = IF lock.who = "cli" THEN [lock EXCEPT !.who = "none"] ELSE lock
End(out) == EndWith(cmd, out)

\* What the command does when it works alone.
Alone(c) ==
    /\ cmd' = [c EXCEPT !.pc = IF c.kind = "index" THEN "index" ELSE "attempt",
                         !.phase = IF c.kind = "status" THEN "status" ELSE "open", !.deadline = now + Wait]
    /\ UNCHANGED lock

\* try_existing_daemon: one connection tells whether there is a daemon to ask.
Probe ==
    /\ cmd.pc = "probe"
    /\ IF daemon THEN cmd' = [cmd EXCEPT !.pc = "send"] /\ UNCHANGED lock ELSE Alone(cmd)
    /\ UNCHANGED env

\* A call that failed is an error: the daemon may have accepted it.
SendFails(c) == EndWith(c, "error")

Send ==
    /\ cmd.pc = "send"
    /\ \/ daemon /\ EndWith([cmd EXCEPT !.asked = @ + 1], "daemon")
       \/ daemon /\ SendFails([cmd EXCEPT !.asked = @ + 1])
       \/ SendFails(cmd)
    /\ UNCHANGED env

\* enqueue_and_wait returned this command's pin and the session that proved it.
Index ==
    /\ cmd.pc = "index"
    /\ \/ /\ lock.who = "none" /\ lock' = [who |-> "cli", inc |-> lock.inc + 1]
          /\ cmd' = [cmd EXCEPT !.pc = "attempt", !.phase = "terminal", !.asked = @ + 1, !.pubs = 1,
                                !.session = [leader |-> TRUE, inc |-> lock.inc + 1], !.deadline = now + Wait]
       \/ /\ lock.who = "other" /\ UNCHANGED lock
          /\ cmd' = [cmd EXCEPT !.pc = "attempt", !.phase = "terminal", !.asked = @ + 1,
                                !.session = [leader |-> FALSE, inc |-> lock.inc], !.deadline = now + Wait]
       \/ End("error")
    /\ UNCHANGED env

\* LeaderSession::verify: the directory, and the incarnation in a lock that is held.
SessionOk == root /\ lock.inc = cmd.session.inc /\ lock.who = (IF cmd.session.leader THEN "cli" ELSE "other")

Verified == IF cmd.phase \in {"read", "terminal"} THEN SessionOk ELSE root

\* Every attempt is entered through the guard ...
Attempt ==
    /\ cmd.pc = "attempt"
    /\ IF ~Verified THEN End("guard")
       ELSE /\ cmd' = [cmd EXCEPT !.pc = "reading", !.late = IF now > cmd.deadline THEN Min2(@ + 1, 3) ELSE @]
            /\ UNCHANGED lock
    /\ UNCHANGED env

\* ... and ends with a result, with contention or with another error.
Reading ==
    /\ cmd.pc = "reading"
    /\ \E r \in {"ok", "busy", "hard"} :
         cmd' = [cmd EXCEPT !.pc = "judge", !.res = r, !.val = lock.inc, !.lost = ~Verified]
    /\ UNCHANGED <<lock, env>>

After == IF cmd.phase = "open" THEN "admit" ELSE "write"

\* terminal_status_retryable_after_guard: the loss of the directory or of the
\* session outranks every result of the attempt.
GuardFirst == TRUE

Expired == now >= cmd.deadline

\* cli_read_with_retry_until after an attempt.
Judge ==
    /\ cmd.pc = "judge"
    /\ \/ GuardFirst /\ ~Verified /\ End("guard")
       \/ /\ GuardFirst => Verified
          /\ \/ cmd.res = "ok" /\ cmd' = [cmd EXCEPT !.pc = After] /\ UNCHANGED lock
             \/ cmd.res = "hard" /\ End("error")
             \/ cmd.res = "busy" /\ Expired /\ End("busy")
             \/ /\ cmd.res = "busy" /\ ~Expired
                /\ cmd' = [cmd EXCEPT !.pc = "sleep", !.wake = Min2(now + cmd.backoff, cmd.deadline),
                                      !.backoff = Min2(2 * cmd.backoff, Wait)]
                /\ UNCHANGED lock
    /\ UNCHANGED env

Awake ==
    /\ cmd.pc = "sleep" /\ now >= cmd.wake
    /\ cmd' = [cmd EXCEPT !.pc = "attempt"]
    /\ UNCHANGED <<lock, env>>

AdmitBusy(c) == cmd' = [c EXCEPT !.pc = "admitted", !.res = "busy"]

\* cli_read_admit: establish_serving_session takes a free lock and publishes, or
\* follows the owner. It may publish and still fail, so it is never repeated.
Admit ==
    /\ cmd.pc = "admit"
    /\ IF ~root THEN End("guard")
       ELSE \E c \in {[cmd EXCEPT !.admits = @ + 1]} :
         \/ /\ lock.who = "none"
            /\ lock' = [who |-> "cli", inc |-> lock.inc + 1]
            /\ cmd' = [c EXCEPT !.pc = "admitted", !.res = "ok", !.pubs = @ + 1,
                                 !.session = [leader |-> TRUE, inc |-> lock.inc + 1]]
         \/ /\ lock.who = "none" /\ lock' = [lock EXCEPT !.inc = @ + 1]
            /\ AdmitBusy([c EXCEPT !.pubs = @ + 1])
         \/ /\ lock.who = "other" /\ UNCHANGED lock
            /\ cmd' = [c EXCEPT !.pc = "admitted", !.res = "ok", !.session = [leader |-> FALSE, inc |-> lock.inc]]
         \/ UNCHANGED lock /\ AdmitBusy(c)
         \/ UNCHANGED lock /\ cmd' = [c EXCEPT !.pc = "admitted", !.res = "hard"]
    /\ UNCHANGED env

Admitted ==
    /\ cmd.pc = "admitted"
    /\ \/ ~root /\ End("guard")
       \/ root /\ cmd.res = "busy" /\ End("busy")
       \/ root /\ cmd.res = "hard" /\ End("error")
       \/ root /\ cmd.res = "ok" /\ ~SessionOk /\ End("guard")
       \/ root /\ cmd.res = "ok" /\ SessionOk /\ cmd' = [cmd EXCEPT !.pc = "attempt", !.phase = "read"] /\ UNCHANGED lock
    /\ UNCHANGED env

\* write_session_json; `status` has no session.
MayWrite == cmd.kind = "status" \/ SessionOk

Write ==
    /\ cmd.pc = "write"
    /\ IF MayWrite THEN IF cmd.kind = "index" /\ cmd.session.leader
                        THEN cmd' = [cmd EXCEPT !.pc = "maintain", !.out = "ok"] /\ UNCHANGED lock
                        ELSE End("ok")
       ELSE End("guard")
    /\ UNCHANGED env

\* The output, or the new file an export asks for, cannot be written.
WriteFails ==
    /\ cmd.pc = "write" /\ End("error")
    /\ UNCHANGED env

\* At most two maintenance units, and only after the answer is out.
Maintain ==
    /\ cmd.pc = "maintain"
    /\ \/ cmd.units < 2 /\ SessionOk /\ cmd' = [cmd EXCEPT !.units = @ + 1] /\ UNCHANGED lock
       \/ End("ok")
    /\ UNCHANGED env

Step == Probe \/ Send \/ Index \/ Attempt \/ Reading \/ Judge \/ Awake \/ Admit \/ Admitted \/ Write \/ WriteFails \/ Maintain
Next == Tick \/ LoseRoot \/ DaemonStops \/ OtherLeads \/ OtherLeaves \/ Step

Spec == Init /\ [][Next]_vars

(***************************************************************************)
(* Properties.                                                             *)
(***************************************************************************)
\* A command asks at most once for indexing and is admitted at most once, whether
\* a daemon's answer was lost or an admission failed after its publication.
OnceOnly == cmd.asked <= 1 /\ cmd.admits <= 1 /\ cmd.pubs <= 1

\* A command whose directory or session was gone when its last attempt ended says
\* neither that it succeeded nor that storage was busy.
LossOutranks == cmd.out \in {"ok", "busy"} => ~cmd.lost

\* An answer is written while its session still proves it: no owner changed
\* between the read and the output.
AnswerUnderItsOwner == (cmd.out = "none" /\ cmd'.out = "ok" /\ cmd.kind # "status") => (cmd.val = lock.inc /\ lock.who # "none")

\* One deadline is shared by opening and reading; past it, each tries once more
\* at most.
LateAttempts == cmd.late <= 2

====
