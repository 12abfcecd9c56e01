----------------------------- MODULE RliDaemon -----------------------------
(***************************************************************************)
(* r.li.daemon: calculateIndex forks WORKERS workers, hands each an area,   *)
(* gives the next area to whichever worker answers, and ends the workers    *)
(* one by one.  There is a command pipe per worker and one report pipe for  *)
(* all.  Areas come one by one (next_Area, see RliAreas) and are identified *)
(* by their number; the result of the index for area a is a.                *)
(***************************************************************************)
EXTENDS Integers, Sequences, FiniteSets

CONSTANTS WORKERS,     \* number of workers
          NAreas,      \* bound on the number of areas of the setup file
          Setups,      \* what calculateIndex may be called for
          Cols,        \* columns of the new raster (g->cols)
          PromptOpen,  \* every worker opens the report pipe before jobs are given
          FaultKinds,  \* "start": a worker cannot open the map, "die": it dies
          MaxFaults    \* bound on the number of faults

(* The areas to compute, those for which the index function fails, and      *)
(* whether they are a moving window, whose results make a raster map.       *)
AnySetup == [areas : 0 .. NAreas, mvWin : BOOLEAN, bad : SUBSET (0 .. NAreas - 1)]

ASSUME RliDaemonAssumption ==
    /\ WORKERS \in Nat \ {0} /\ NAreas \in Nat /\ Cols \in Nat \ {0}
    /\ PromptOpen \in BOOLEAN
    /\ MaxFaults \in Nat
    /\ Setups \subseteq AnySetup

VARIABLES setup,     \* what calculateIndex was called for
          pc,        \* where the daemon is
          i,         \* its counter
          next,      \* the next area of the list or of the generator
          doneJob,   \* the last message read from the report pipe
          target,    \* the worker just told to end
          withoutJob,\* where the workers without a job begin
          channel,   \* which command channels of the daemon are open
          reaped,    \* workers that wait() has returned
          wpc,       \* where each worker is
          job,       \* the area each worker is analysing
          command,   \* the command pipes
          report,    \* the report pipe
          out,       \* how often the result of an area was put in the output
          file,      \* the random access file, cell by cell
          raster,    \* the cells of the new raster map
          faults,    \* faults so far
          misread    \* ghost: the daemon took a report that was not there

daemon  == <<pc, i, next, doneJob, target, withoutJob, channel, reaped>>
workers == <<wpc, job>>
output  == <<out, file, raster>>
vars    == <<setup, pc, i, next, doneJob, target, withoutJob, channel, reaped, wpc, job,
             command, report, out, file, raster, faults, misread>>

Workers == 0 .. WORKERS - 1
Areas   == 0 .. NAreas - 1
Term    == -1                    \* the TERM message

(* The cells that no area's result fills: nulls, and the zeros and the      *)
(* unset memory that reading the random access file leaves.                 *)
Null   == -1
Hole   == -2
Unset  == -3
Cells  == Areas \cup {Null, Hole, Unset}

Report == [type : {"DONE", "ERROR"}, aid : Areas, pid : Workers]
NoReport == [type |-> "none", aid |-> 0, pid |-> WORKERS]

Init ==
    /\ setup \in Setups
    /\ pc = "fork" /\ i = 0 /\ next = 0
    /\ doneJob = NoReport /\ target = 0 /\ withoutJob = 0
    /\ channel = {} /\ reaped = {}
    /\ wpc = [w \in Workers |-> "none"]
    /\ job = [w \in Workers |-> 0]
    /\ command = [w \in Workers |-> <<>>]
    /\ report = <<>>
    /\ out = [a \in Areas |-> 0]
    /\ file = [a \in Areas |-> Null]
    /\ raster = [a \in Areas |-> Null]
    /\ faults = 0 /\ misread = FALSE

-----------------------------------------------------------------------------
(* Pipes.  A worker reads its command pipe from the moment both ends met    *)
(* until it ends; it writes the report pipe likewise.                       *)
Reading == {w \in Workers : wpc[w] \in {"opened", "wantReport", "receive", "compute"}}
Writing == {w \in Workers : wpc[w] \in {"receive", "compute"}}
Ended   == {w \in Workers : wpc[w] = "ended"}

(* The daemon sends m to worker w, its next program counter being to: a     *)
(* closed channel swallows the message, a pipe without reader kills the     *)
(* daemon, and a worker that no report names is beyond the table.           *)
Send(w, m, to) ==
    IF w \notin Workers
    THEN pc' = "undefined" /\ UNCHANGED command
    ELSE IF w \notin channel
    THEN pc' = to /\ UNCHANGED command
    ELSE IF w \notin Reading
    THEN pc' = "killed" /\ UNCHANGED command
    ELSE pc' = to /\ command' = [command EXCEPT ![w] = Append(@, m)]

(* receive into doneJob: a pipe without writer is at its end, and leaves    *)
(* doneJob as it was.                                                       *)
Receive ==
    \/ /\ report # <<>>
       /\ doneJob' = Head(report)
       /\ report' = Tail(report)
       /\ UNCHANGED misread
    \/ /\ report = <<>> /\ Writing = {}
       /\ misread' = TRUE
       /\ UNCHANGED <<doneJob, report>>

(* A mistake: a moving window's cell is counted from one. *)
OutputShifted(m) ==
    IF m.type = "DONE"
    THEN /\ out' = [out EXCEPT ![m.aid] = @ + 1]
         /\ file' = [a \in Areas |-> IF a = m.aid + 1 THEN m.aid
                                     ELSE IF a < m.aid + 1 /\ file[a] = Null THEN Hole ELSE file[a]]
    ELSE UNCHANGED <<out, file>>

(* A mistake: a failed area leaves no line in the text. *)
OutputDoneOnly(m) ==
    IF m.type = "DONE"
    THEN out' = [out EXCEPT ![m.aid] = @ + 1] /\ UNCHANGED file
    ELSE UNCHANGED <<out, file>>

(* print_Output, error_Output and raster_Output: a failed area leaves an    *)
(* ERROR line in the text, and nothing in the raster.                       *)
Output(m) ==
    CASE ~setup.mvWin /\ m.type # "none" ->
             /\ out' = [out EXCEPT ![m.aid] = @ + 1]
             /\ UNCHANGED file
      [] setup.mvWin /\ m.type = "DONE" ->
             /\ out' = [out EXCEPT ![m.aid] = @ + 1]
             /\ file' = [a \in Areas |-> IF a = m.aid THEN m.aid
                                         ELSE IF a < m.aid /\ file[a] = Null THEN Hole
                                         ELSE file[a]]
      [] OTHER -> UNCHANGED <<out, file>>

-----------------------------------------------------------------------------
(* The daemon: a fork and a meeting with the new worker at its pipe ...     *)
Fork ==
    /\ pc = "fork" /\ i < WORKERS
    /\ wpc' = [wpc EXCEPT ![i] = "start"]
    /\ pc' = "openCommand"
    /\ UNCHANGED <<setup, i, next, doneJob, target, withoutJob, channel, reaped, job, command,
                   report, out, file, raster, faults, misread>>

OpenCommand ==
    /\ pc = "openCommand" /\ wpc[i] = "wantCommand"
    /\ wpc' = [wpc EXCEPT ![i] = "opened"]
    /\ channel' = channel \cup {i}
    /\ i' = i + 1
    /\ pc' = IF i + 1 < WORKERS THEN "fork" ELSE "openReport"
    /\ UNCHANGED <<setup, next, doneJob, target, withoutJob, reaped, job, command,
                   report, out, file, raster, faults, misread>>

(* ... the report pipe, open as soon as one worker wants it ...             *)
OpenReport ==
    /\ pc = "openReport" /\ \E w \in Workers : wpc[w] = "wantReport"
    /\ wpc' = [w \in Workers |-> IF wpc[w] = "wantReport" THEN "receive" ELSE wpc[w]]
    /\ i' = 0
    /\ pc' = "schedule"
    /\ UNCHANGED <<setup, next, doneJob, target, withoutJob, channel, reaped, job, command,
                   report, out, file, raster, faults, misread>>

(* ... the first job of each worker ...                                     *)
Schedule ==
    /\ pc = "schedule"
    /\ PromptOpen => \A w \in Workers : wpc[w] # "opened"
    /\ IF i < WORKERS /\ next < setup.areas
       THEN /\ Send(i, next, "schedule")
            /\ next' = next + 1
            /\ i' = i + 1
            /\ UNCHANGED withoutJob
       ELSE /\ pc' = IF next < setup.areas THEN "body" ELSE "drain"
            /\ withoutJob' = i
            /\ UNCHANGED <<next, i, command>>
    /\ UNCHANGED <<setup, doneJob, target, channel, reaped, workers, report, output, faults, misread>>

(* A mistake: the next area goes to the next worker in turn. *)
BodyInTurn ==
    /\ pc = "body"
    /\ Receive
    /\ Output(doneJob')
    /\ Send((next % WORKERS), next, IF next + 1 < setup.areas THEN "body" ELSE "drain")
    /\ next' = next + 1
    /\ UNCHANGED <<setup, i, target, withoutJob, channel, reaped, workers, raster, faults>>

(* ... an area for a worker that has answered, as long as there are any ... *)
Body ==
    /\ pc = "body"
    /\ Receive
    /\ Output(doneJob')
    /\ Send(doneJob'.pid, next, IF next + 1 < setup.areas THEN "body" ELSE "drain")
    /\ next' = next + 1
    /\ UNCHANGED <<setup, i, target, withoutJob, channel, reaped, workers, raster, faults>>

(* A mistake: the last answer is not waited for. *)
DrainOneShort ==
    /\ pc = "drain" /\ i > 1
    /\ Receive
    /\ Output(doneJob')
    /\ i' = i - 1
    /\ Send(doneJob'.pid, Term, "wait")
    /\ target' = doneJob'.pid
    /\ UNCHANGED <<setup, next, withoutJob, channel, reaped, workers, raster, faults>>

(* A mistake: the worker is told to end and left to itself. *)
DrainNoWait ==
    /\ pc = "drain" /\ i > 0
    /\ Receive
    /\ Output(doneJob')
    /\ i' = i - 1
    /\ Send(doneJob'.pid, Term, "drain")
    /\ target' = doneJob'.pid
    /\ UNCHANGED <<setup, next, withoutJob, channel, reaped, workers, raster, faults>>

(* A mistake: the counter is taken for the worker that answered. *)
DrainByCounter ==
    /\ pc = "drain" /\ i > 0
    /\ Receive
    /\ Output(doneJob')
    /\ i' = i - 1
    /\ Send(doneJob'.pid, Term, "wait")
    /\ target' = i - 1
    /\ UNCHANGED <<setup, next, withoutJob, channel, reaped, workers, raster, faults>>

(* ... the end of a worker whose last answer came ...                       *)
Drain ==
    /\ pc = "drain" /\ i > 0
    /\ Receive
    /\ Output(doneJob')
    /\ i' = i - 1
    /\ Send(doneJob'.pid, Term, "wait")
    /\ target' = doneJob'.pid
    /\ UNCHANGED <<setup, next, withoutJob, channel, reaped, workers, raster, faults>>

(* A mistake: one worker too many is skipped. *)
DrainedSkipping ==
    /\ pc = "drain" /\ i = 0
    /\ i' = withoutJob + 1
    /\ pc' = "idle"
    /\ UNCHANGED <<setup, next, doneJob, target, withoutJob, channel, reaped, workers, command,
                   report, output, faults, misread>>

(* ... then it turns to those that were never given one ...                 *)
Drained ==
    /\ pc = "drain" /\ i = 0
    /\ i' = withoutJob
    /\ pc' = "idle"
    /\ UNCHANGED <<setup, next, doneJob, target, withoutJob, channel, reaped, workers, command,
                   report, output, faults, misread>>

(* ... of a worker that never had a job ...                                 *)
EndIdle ==
    /\ pc = "idle" /\ i < WORKERS
    /\ Send(i, Term, "waitIdle")
    /\ target' = i
    /\ i' = i + 1
    /\ UNCHANGED <<setup, next, doneJob, withoutJob, channel, reaped, workers, report, output,
                   faults, misread>>

(* ... wait() returns any child that has ended, or at once if there is no   *)
(* child left; then the channel of the target is closed, and its pipe       *)
(* removed.                                                                 *)
Wait ==
    /\ pc \in {"wait", "waitIdle"}
    /\ \/ \E w \in Ended \ reaped : reaped' = reaped \cup {w}
       \/ reaped = Workers /\ UNCHANGED reaped
    /\ channel' = channel \ {target}
    /\ pc' = IF pc = "wait" THEN "drain" ELSE "idle"
    /\ UNCHANGED <<setup, i, next, doneJob, target, withoutJob, workers, command, report, output,
                   faults, misread>>

(* write_raster: each row of the file is read into one buffer, which keeps  *)
(* what it held where the file has come to its end.                         *)
WrittenCells == {a \in Areas : file[a] # Null}
Read[a \in Areas] ==
    IF \E b \in WrittenCells : a <= b THEN file[a]
    ELSE IF a < Cols THEN Unset
    ELSE Read[a - Cols]

Return ==
    /\ pc = "idle" /\ i = WORKERS
    /\ raster' = IF setup.mvWin THEN Read ELSE raster
    /\ pc' = "returned"
    /\ UNCHANGED <<setup, i, next, doneJob, target, withoutJob, channel, reaped, workers, command,
                   report, out, file, faults, misread>>

-----------------------------------------------------------------------------
(* A worker opens the map and waits for the daemon at its command pipe ...  *)
StartWorker(w) ==
    /\ wpc[w] = "start"
    /\ wpc' = [wpc EXCEPT ![w] = "wantCommand"]
    /\ UNCHANGED <<setup, daemon, job, command, report, output, faults, misread>>

StartFails(w) ==
    /\ wpc[w] = "start"
    /\ "start" \in FaultKinds /\ faults < MaxFaults
    /\ faults' = faults + 1
    /\ wpc' = [wpc EXCEPT ![w] = "ended"]
    /\ UNCHANGED <<setup, daemon, job, command, report, output, misread>>

(* ... opens the report pipe, where it may have to wait for the daemon ...  *)
WantReport(w) ==
    /\ wpc[w] = "opened"
    /\ wpc' = [wpc EXCEPT ![w] = IF pc \in {"fork", "openCommand", "openReport"}
                                 THEN "wantReport" ELSE "receive"]
    /\ UNCHANGED <<setup, daemon, job, command, report, output, faults, misread>>

(* A mistake: the command stays in the pipe. *)
TakeJobKeeping(w) ==
    /\ wpc[w] = "receive" /\ command[w] # <<>>
    /\ IF Head(command[w]) = Term
       THEN wpc' = [wpc EXCEPT ![w] = "ended"] /\ UNCHANGED job
       ELSE /\ wpc' = [wpc EXCEPT ![w] = "compute"]
            /\ job' = [job EXCEPT ![w] = Head(command[w])]
    /\ UNCHANGED <<setup, daemon, command, report, output, faults, misread>>

(* ... takes an area, or its end ...                                        *)
TakeJob(w) ==
    /\ wpc[w] = "receive" /\ command[w] # <<>>
    /\ command' = [command EXCEPT ![w] = Tail(command[w])]
    /\ IF Head(command[w]) = Term
       THEN wpc' = [wpc EXCEPT ![w] = "ended"] /\ UNCHANGED job
       ELSE /\ wpc' = [wpc EXCEPT ![w] = "compute"]
            /\ job' = [job EXCEPT ![w] = Head(command[w])]
    /\ UNCHANGED <<setup, daemon, report, output, faults, misread>>

(* ... and reports what the index function returned.                        *)
Answer(w) ==
    /\ wpc[w] = "compute"
    /\ wpc' = [wpc EXCEPT ![w] = "receive"]
    /\ report' = Append(report, [type |-> IF job[w] \in setup.bad THEN "ERROR" ELSE "DONE",
                                 aid |-> job[w], pid |-> w])
    /\ UNCHANGED <<setup, daemon, job, command, output, faults, misread>>

Die(w) ==
    /\ w \in Reading
    /\ "die" \in FaultKinds /\ faults < MaxFaults
    /\ faults' = faults + 1
    /\ wpc' = [wpc EXCEPT ![w] = "ended"]
    /\ UNCHANGED <<setup, daemon, job, command, report, output, misread>>

Daemon == \/ Fork \/ OpenCommand \/ OpenReport \/ Schedule \/ Body \/ Drain \/ Drained
          \/ EndIdle \/ Wait \/ Return
Worker(w) == StartWorker(w) \/ WantReport(w) \/ TakeJob(w) \/ Answer(w)

Next == Daemon \/ (\E w \in Workers : Worker(w) \/ StartFails(w) \/ Die(w))

Spec == Init /\ [][Next]_vars
FairSpec == Spec /\ WF_vars(Daemon) /\ \A w \in Workers : WF_vars(Worker(w))

-----------------------------------------------------------------------------
PCs == {"fork", "openCommand", "openReport", "schedule", "body", "drain", "wait", "idle",
        "waitIdle", "returned", "killed", "undefined"}
WPCs == {"none", "start", "wantCommand", "opened", "wantReport", "receive", "compute", "ended"}

(* The state is well formed; the counter of the daemon stays within the     *)
(* table of workers.                                                        *)
TypeOK ==
    /\ pc \in PCs
    /\ i \in 0 .. WORKERS /\ next \in 0 .. NAreas
    /\ doneJob \in Report \cup {NoReport}
    /\ target \in 0 .. WORKERS /\ withoutJob \in 0 .. WORKERS
    /\ channel \subseteq Workers /\ reaped \subseteq Workers
    /\ wpc \in [Workers -> WPCs] /\ job \in [Workers -> Nat]
    /\ command \in [Workers -> Seq(Areas \cup {Term})]
    /\ report \in Seq(Report)
    /\ out \in [Areas -> Nat]
    /\ file \in [Areas -> Cells] /\ raster \in [Areas -> Cells]
    /\ faults \in 0 .. MaxFaults /\ misread \in BOOLEAN

(* Where an area is, between being handed out and its report being read.     *)
Waits(w, k)    == k \in DOMAIN command[w] /\ command[w][k] # Term
Computes(w)    == wpc[w] = "compute"
Answered(w, k) == k \in DOMAIN report /\ report[k].pid = w

(* A worker has one job at a time: it waits in its command pipe, or is      *)
(* computed, or its report waits to be read.                                *)
OneJobEach ==
    \A w \in Workers :
        /\ Computes(w) => \A k \in DOMAIN command[w] : ~Waits(w, k)
        /\ \A k \in DOMAIN report : report[k].pid = w =>
              ~Computes(w) /\ \A l \in DOMAIN command[w] : ~Waits(w, l)
        /\ \A k, l \in DOMAIN report : Answered(w, k) /\ Answered(w, l) => k = l
        /\ \A k, l \in DOMAIN command[w] : Waits(w, k) /\ Waits(w, l) => k = l

(* No area has more than one result in the output as long as the daemon     *)
(* read nothing but reports.                                                *)
AtMostOnce == ~misread => \A a \in Areas : out[a] <= 1

(* An area whose result is out is no longer in the hands of a worker.       *)
Free(a) ==
    /\ \A w \in Workers :
          /\ Computes(w) => job[w] # a
          /\ \A k \in DOMAIN command[w] : command[w][k] # a
    /\ \A k \in DOMAIN report : report[k].aid # a
OutIsFinal == \A a \in Areas : out[a] > 0 => Free(a)

(* The child that wait() returns is the worker just told to end, so that    *)
(* only the pipe of a worker that has ended is removed.                     *)
WaitReturnsTarget == [][reaped' # reaped => reaped' = reaped \cup {target}]_vars

(* When calculateIndex returns no worker is left behind.                    *)
NoneLeft == pc = "returned" => reaped = Workers /\ channel = {} /\ \A w \in Workers : command[w] = <<>>

(* The new raster shows the result of every area, as long as the index is   *)
(* computed for all of them (the random access file keeps no trace of those *)
(* for which it fails).                                                     *)
Given == 0 .. setup.areas - 1
RasterShowsResults ==
    (setup.mvWin /\ setup.bad = {} /\ pc = "returned") => \A a \in Given : raster[a] = a

(* calculateIndex returns. *)
Returns == <>(pc = "returned")

(* It applies the index once for every area defined in the setup file.      *)
Farm == INSTANCE RliFarm WITH due <- IF setup.mvWin THEN Given \ setup.bad ELSE Given,
                              written <- out, returned <- (pc = "returned")
Implements == Farm!Spec
=============================================================================
