--------------------------- MODULE Yices2TimeLimit ---------------------------
(***************************************************************************)
(* The time limit of Yices2Solver (yices2/src/yices2_solver.cpp).  A check *)
(* sets an alarm; the handler of SIGALRM stops the search of running_ctx   *)
(* and raises yices2_terminated.  Both are globals, shared by every solver *)
(* of the process, and the handler may run between any two instructions    *)
(* of the one thread of the client.                                        *)
(***************************************************************************)
CONSTANTS
  Solvers,       \* the Yices2Solvers of the process
  NoContext      \* nullptr

ASSUME TimeLimitAssumption == NoContext \notin Solvers

VARIABLES
  NDEBUG,                   \* the build: assert is compiled away
  time_limit,               \* per solver: one is set
  running_ctx, yices2_terminated,
  alarm,                    \* an alarm is pending
  pc,                       \* where the client is
  cur, call,                \* the solver that checks, and how
  todo,                     \* what timelimit_end has left to do
  res,                      \* what Yices returned
  tl_triggered,
  outcome,                  \* what the last check returned
  expired,                  \* history: the alarm went off in this check
  late,                     \* history: one went off in a timelimit_end
  down                      \* the process was aborted

limit_vars == <<NDEBUG, time_limit, running_ctx, yices2_terminated, alarm, pc, cur, call,
                todo, res, tl_triggered, outcome, expired, late, down>>

globals == <<running_ctx, yices2_terminated>>

Calls == {"check_sat", "check_sat_assuming"}

End == {"read", "clear", "unregister"}

LimitInit ==
  /\ NDEBUG \in BOOLEAN
  /\ time_limit = [s \in Solvers |-> FALSE]
  /\ running_ctx = NoContext /\ yices2_terminated = FALSE
  /\ alarm = FALSE
  /\ pc = "idle" /\ cur = NoContext /\ call = "check_sat"
  /\ todo = {}
  /\ res = "none" /\ tl_triggered = FALSE
  /\ outcome = [kind |-> "none", reached |-> FALSE]
  /\ expired = FALSE /\ late = FALSE
  /\ down = FALSE

-----------------------------------------------------------------------------
set_opt_time_limit(s, b) ==
  /\ pc = "idle"
  /\ time_limit' = [time_limit EXCEPT ![s] = b]
  /\ UNCHANGED <<globals, alarm, pc, cur, call, todo, res, tl_triggered, outcome,
                 expired, late, down>>

Call(s, c) ==
  /\ pc = "idle"
  /\ cur' = s /\ call' = c
  /\ pc' = IF time_limit[s] THEN "start" ELSE "search"
  /\ res' = "none" /\ tl_triggered' = FALSE /\ expired' = FALSE
  /\ UNCHANGED <<time_limit, globals, alarm, todo, outcome, late, down>>

(* timelimit_start: the assertions, and running_ctx = ctx *)
timelimit_start ==
  /\ pc = "start"
  /\ \/ /\ ~NDEBUG /\ (running_ctx # NoContext \/ yices2_terminated)
        /\ down' = TRUE
        /\ UNCHANGED <<running_ctx, pc>>
     \/ /\ NDEBUG \/ (running_ctx = NoContext /\ ~yices2_terminated)
        /\ running_ctx' = cur
        /\ pc' = "alarm"
        /\ UNCHANGED down
  /\ UNCHANGED <<time_limit, yices2_terminated, alarm, cur, call, todo, res,
                 tl_triggered, outcome, expired, late>>

(* alarm(time_limit) *)
Arm ==
  /\ pc = "alarm"
  /\ alarm' = TRUE
  /\ pc' = "search"
  /\ UNCHANGED <<time_limit, globals, cur, call, todo, res, tl_triggered, outcome,
                 expired, late, down>>

(* The search of Yices ends by itself, or never. *)
Search ==
  /\ pc = "search" /\ res = "none"
  /\ res' \in {"sat", "unsat", "unknown"}
  /\ UNCHANGED <<time_limit, globals, alarm, pc, cur, call, todo, tl_triggered, outcome,
                 expired, late, down>>

(* It returns to the solver. *)
Found ==
  /\ pc = "search" /\ res # "none"
  /\ IF time_limit[cur] THEN pc' = "end" /\ todo' = End
     ELSE pc' = "answer" /\ UNCHANGED todo
  /\ UNCHANGED <<time_limit, globals, alarm, cur, call, res, tl_triggered, outcome,
                 expired, late, down>>

(* Mutant of timelimit_end: clears the flag before it is read. *)
timelimit_end_cleared(x) ==
  /\ pc = "end" /\ x \in todo
  /\ x = "read" => "clear" \notin todo
  /\ todo' = todo \ {x}
  /\ tl_triggered' = IF x = "read" THEN yices2_terminated ELSE tl_triggered
  /\ yices2_terminated' = IF x = "clear" THEN FALSE ELSE yices2_terminated
  /\ running_ctx' = IF x = "unregister" THEN NoContext ELSE running_ctx
  /\ UNCHANGED <<time_limit, alarm, pc, cur, call, res, outcome, expired, late, down>>

(* Mutant of timelimit_end: the flag stays up. *)
timelimit_end_kept(x) ==
  /\ pc = "end" /\ x \in todo
  /\ todo' = todo \ {x}
  /\ tl_triggered' = IF x = "read" THEN yices2_terminated ELSE tl_triggered
  /\ running_ctx' = IF x = "unregister" THEN NoContext ELSE running_ctx
  /\ UNCHANGED <<time_limit, yices2_terminated, alarm, pc, cur, call, res, outcome,
                 expired, late, down>>

(* timelimit_end reads and clears the flag and running_ctx.  Neither is    *)
(* volatile or atomic: the compiler may order accesses to the two freely.  *)
timelimit_end(x) ==
  /\ pc = "end" /\ x \in todo
  /\ x = "clear" => "read" \notin todo
  /\ todo' = todo \ {x}
  /\ tl_triggered' = IF x = "read" THEN yices2_terminated ELSE tl_triggered
  /\ yices2_terminated' = IF x = "clear" THEN FALSE ELSE yices2_terminated
  /\ running_ctx' = IF x = "unregister" THEN NoContext ELSE running_ctx
  /\ UNCHANGED <<time_limit, alarm, pc, cur, call, res, outcome, expired, late, down>>

(* Mutant of Disarm: alarm(0) is forgotten. *)
Disarm_forgotten ==
  /\ pc = "end" /\ todo = {}
  /\ pc' = "answer"
  /\ UNCHANGED <<time_limit, globals, alarm, cur, call, todo, res, tl_triggered, outcome,
                 expired, late, down>>

(* alarm(0) *)
Disarm ==
  /\ pc = "end" /\ todo = {}
  /\ alarm' = FALSE
  /\ pc' = "answer"
  /\ UNCHANGED <<time_limit, globals, cur, call, todo, res, tl_triggered, outcome,
                 expired, late, down>>

(* Mutant of Return: hands on what Yices returned. *)
Return_raw ==
  /\ pc = "answer"
  /\ outcome' = [kind |-> res, reached |-> call = "check_sat" /\ tl_triggered]
  /\ pc' = "idle"
  /\ UNCHANGED <<time_limit, globals, alarm, cur, call, todo, res, tl_triggered,
                 expired, late, down>>

(* Only check_sat tells its caller that the limit was reached. *)
Return ==
  /\ pc = "answer"
  /\ outcome' = IF res \in {"sat", "unsat"} THEN [kind |-> res, reached |-> FALSE]
               ELSE [kind |-> "unknown", reached |-> call = "check_sat" /\ tl_triggered]
  /\ pc' = "idle"
  /\ UNCHANGED <<time_limit, globals, alarm, cur, call, todo, res, tl_triggered,
                 expired, late, down>>

(* Mutant of the handler: only raises the flag. *)
handler_flag_only ==
  /\ alarm /\ alarm' = FALSE
  /\ expired' = TRUE
  /\ late' = (late \/ pc = "end")
  /\ yices2_terminated' = TRUE
  /\ down' = (running_ctx = NoContext)
  /\ UNCHANGED <<time_limit, running_ctx, pc, cur, call, todo, res, tl_triggered, outcome>>

(* The alarm goes off.  yices_stop_search stops a search that is running   *)
(* and does nothing to another context; a null context ends the process,   *)
(* by the assertion or without it.                                         *)
yices2_timelimit_handler ==
  /\ alarm /\ alarm' = FALSE
  /\ expired' = TRUE
  /\ late' = (late \/ pc = "end")
  /\ \/ /\ running_ctx = NoContext
        /\ down' = TRUE
        /\ UNCHANGED <<yices2_terminated, res>>
     \/ /\ running_ctx # NoContext
        /\ res' = IF pc = "search" /\ cur = running_ctx /\ res = "none"
                  THEN "interrupted" ELSE res
        /\ yices2_terminated' = TRUE
        /\ UNCHANGED down
  /\ UNCHANGED <<time_limit, running_ctx, pc, cur, call, todo, tl_triggered, outcome>>

(* what the client does on its own account, whatever the search does *)
Client ==
  \/ timelimit_start \/ Arm
  \/ Found
  \/ \E x \in End : timelimit_end(x)
  \/ Disarm \/ Return

Step ==
  \/ \E s \in Solvers, b \in BOOLEAN : set_opt_time_limit(s, b)
  \/ \E s \in Solvers, c \in Calls : Call(s, c)
  \/ Client
  \/ Search
  \/ yices2_timelimit_handler

LimitNext == ~down /\ Step /\ UNCHANGED NDEBUG

LimitSpec == LimitInit /\ [][LimitNext]_limit_vars

(* A thread that can run does, and an alarm that is set goes off; the      *)
(* search need not end.                                                    *)
FairSpec ==
  /\ LimitSpec
  /\ WF_limit_vars(LimitNext /\ Client)
  /\ WF_limit_vars(LimitNext /\ yices2_timelimit_handler)

-----------------------------------------------------------------------------
(* Properties *)

(* Types. *)
LimitTypeOK ==
  /\ NDEBUG \in BOOLEAN /\ time_limit \in [Solvers -> BOOLEAN]
  /\ running_ctx \in Solvers \cup {NoContext}
  /\ {yices2_terminated, alarm, tl_triggered, expired, late, down} \subseteq BOOLEAN
  /\ pc \in {"idle", "start", "alarm", "search", "end", "answer"}
  /\ cur \in Solvers \cup {NoContext} /\ call \in Calls
  /\ todo \subseteq End
  /\ res \in {"none", "sat", "unsat", "unknown", "interrupted"}
  /\ outcome \in [kind : {"none", "sat", "unsat", "unknown"}, reached : BOOLEAN]

(* However the alarm falls, a search that the handler stopped leaves the   *)
(* flag where timelimit_end finds it: check_sat calls it a time-out.       *)
StoppedIsReported ==
  pc = "idle" /\ res = "interrupted" /\ call = "check_sat" => outcome.reached

(* "Time limit reached." is said only of a check in which the alarm went   *)
(* off, unless an alarm once fell into the window of timelimit_end: the    *)
(* flag it raises is then found by a later check, of any solver.           *)
ReportedIsExpired ==
  pc = "idle" /\ outcome.reached /\ ~late => expired

(* That window is the only moment when an alarm brings the process down.   *)
DownOnlyLate == down => late

(* A check whose alarm is set when the search begins comes back, however   *)
(* hard the problem is.                                                    *)
LimitEndsSearch ==
  (pc = "search" /\ alarm) ~> (pc = "idle" \/ down)

(* The assertion of the handler: running_ctx != nullptr. *)
HandlerHasContext ==
  [][yices2_timelimit_handler => running_ctx # NoContext]_limit_vars

(* The invariant behind the safety properties. *)

(* An alarm is only ever pending in a check of a solver with a limit, and  *)
(* until timelimit_end drops it running_ctx is the context of that solver. *)
AlarmOK ==
  /\ pc # "idle" => cur \in Solvers
  /\ pc \in {"start", "alarm", "end"} => time_limit[cur]
  /\ alarm => pc = "end" \/ (pc = "search" /\ time_limit[cur])
  /\ pc = "search" => running_ctx = IF time_limit[cur] THEN cur ELSE NoContext
  /\ pc = "alarm" => running_ctx = cur
  /\ pc \in {"idle", "start", "answer"} => running_ctx = NoContext
  /\ pc = "end" => (running_ctx = NoContext <=> "unregister" \notin todo)
  /\ pc = "end" /\ "read" \in todo => "clear" \in todo

(* Where the news of an alarm is, from the handler to the answer. *)
FlagOK ==
  /\ yices2_terminated /\ ~late =>
       expired /\ time_limit[cur] /\ (pc = "search" \/ (pc = "end" /\ "clear" \in todo))
  /\ tl_triggered /\ ~late => expired
  /\ pc = "idle" => (outcome.reached => tl_triggered)
  /\ res = "interrupted" =>
       /\ pc \in {"search", "end", "answer", "idle"}
       /\ pc = "search" => yices2_terminated /\ time_limit[cur]
       /\ pc = "end" => IF "read" \in todo THEN yices2_terminated ELSE tl_triggered
       /\ pc = "answer" => tl_triggered
       /\ pc = "idle" /\ call = "check_sat" => outcome.reached

LimitIInv == LimitTypeOK /\ AlarmOK /\ FlagOK /\ DownOnlyLate
=============================================================================
