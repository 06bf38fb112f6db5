---------------------------- MODULE PluginLifecycle ----------------------------
(***************************************************************************)
(* The life of the plugin's processes: RunPlugin, NewDriver, HandleError,  *)
(* Shutdown and the health check, with two processes during a rolling      *)
(* update that share the lock of the kubeletplugin helper.                 *)
(*                                                                         *)
(* The main goroutine is a program counter, phase:                         *)
(*   starting    before the helper serves (directories, NewDeviceState)    *)
(*   serving     the helper serves, the health service does not yet        *)
(*   probed      both do; the resources are being published                *)
(*   waiting     for the context to be done                                *)
(*   stopHealth  healthcheck.Stop                                          *)
(*   stopHelper  helper.Stop                                               *)
(* Next to it run one call of the kubelet and one probe, which waits for   *)
(* the lock of the calls.  What a call does is in module DeviceState.      *)
(***************************************************************************)
EXTENDS Naturals

CONSTANTS
  Procs,      \* the processes of a rolling update, one per pod
  Health,     \* healthcheckPort is not negative
  Threshold,  \* failureThreshold of the liveness probe
  None

ASSUME PluginLifecycleAssumption ==
  /\ None \notin Procs
  /\ Health \in BOOLEAN
  /\ Threshold \in Nat \ {0}

VARIABLES
  phase,        \* where the main goroutine is, or down
  cancelled,    \* the main context is done: a signal or a fatal error
  fatal,        \* a fatal background error has been reported
  call,         \* the kubelet's call: none, waiting for the lock, running, hung
  lock,         \* the process whose call has the helper's lock, or None
  probe,        \* none, or asked and not answered
  failures,     \* consecutive failed probes the kubelet has counted
  terminating,  \* the kubelet has sent SIGTERM, and will send SIGKILL
  end           \* of a process that is down: how it ended

work == <<call, lock>>
probing == <<probe, failures>>
plVars == <<phase, cancelled, fatal, work, probing, terminating, end>>

Phases == {"down", "starting", "serving", "probed", "waiting", "stopHealth", "stopHelper"}

\* A call has the lock while it is at work.
PLTypeOK ==
  /\ phase \in [Procs -> Phases]
  /\ cancelled \in [Procs -> BOOLEAN]
  /\ fatal \in [Procs -> BOOLEAN]
  /\ call \in [Procs -> {"none", "waiting", "running", "hung"}]
  /\ lock \in Procs \cup {None}
  /\ probe \in [Procs -> {"none", "asked"}]
  /\ failures \in [Procs -> 0 .. Threshold]
  /\ terminating \in [Procs -> BOOLEAN]
  /\ end \in [Procs -> {"none", "stopped", "failed", "killed"}]
  /\ \A i \in Procs :
       /\ lock = i <=> call[i] \in {"running", "hung"}
       /\ phase[i] \in {"down", "starting"} => call[i] = "none" /\ probe[i] = "none"

PLInit ==
  /\ phase = [i \in Procs |-> "down"]
  /\ cancelled = [i \in Procs |-> FALSE]
  /\ fatal = [i \in Procs |-> FALSE]
  /\ call = [i \in Procs |-> "none"]
  /\ lock = None
  /\ probe = [i \in Procs |-> "none"]
  /\ failures = [i \in Procs |-> 0]
  /\ terminating = [i \in Procs |-> FALSE]
  /\ end = [i \in Procs |-> "none"]

\* The process is gone, and with it its calls and its lock on the file.
Die(i, how) ==
  /\ phase' = [phase EXCEPT ![i] = "down"]
  /\ cancelled' = [cancelled EXCEPT ![i] = FALSE]
  /\ fatal' = [fatal EXCEPT ![i] = FALSE]
  /\ call' = [call EXCEPT ![i] = "none"]
  /\ lock' = IF lock = i THEN None ELSE lock
  /\ probe' = [probe EXCEPT ![i] = "none"]
  /\ failures' = [failures EXCEPT ![i] = 0]
  /\ terminating' = [terminating EXCEPT ![i] = FALSE]
  /\ end' = [end EXCEPT ![i] = how]

--------------------------------------------------------------------------------
(***************************************************************************)
(* The main goroutine.                                                     *)
(***************************************************************************)

\* From one phase to the next.
Move(i, from, to) ==
  /\ phase[i] = from
  /\ phase' = [phase EXCEPT ![i] = to]
  /\ UNCHANGED <<cancelled, fatal, work, probing, terminating, end>>

Start(i) ==
  /\ phase[i] = "down"
  /\ phase' = [phase EXCEPT ![i] = "starting"]
  /\ end' = [end EXCEPT ![i] = "none"]
  /\ UNCHANGED <<cancelled, fatal, work, probing, terminating>>

StartHelper(i) == Move(i, "starting", "serving")

StartHealth(i) == Move(i, "serving", "probed")

PublishResources(i) == Move(i, "probed", "waiting")

\* A directory, the CDI root, the state, a socket or the API server: NewDriver
\* returns an error, and RunPlugin returns it with whatever was started.
StartFails(i) ==
  /\ phase[i] \in {"starting", "serving", "probed"}
  /\ Die(i, "failed")

\* Mutant of Shutdown: the helper is stopped first.
ShutdownHelperFirst(i) ==
  /\ cancelled[i]
  /\ Move(i, "waiting", "stopHelper")

\* <-ctx.Done(), stop, and Shutdown's first call.
Shutdown(i) ==
  /\ cancelled[i]
  /\ Move(i, "waiting", IF Health THEN "stopHealth" ELSE "stopHelper")

\* The graceful stop of the health service waits for the probe it has taken.
StopHealth(i) ==
  /\ probe[i] = "none"
  /\ Move(i, "stopHealth", "stopHelper")

\* That of the helper, for the call; then RunPlugin returns.
StopHelper(i) ==
  /\ phase[i] = "stopHelper"
  /\ call[i] = "none"
  /\ Die(i, "stopped")

Main(i) ==
  \/ StartHelper(i)
  \/ StartHealth(i)
  \/ PublishResources(i)
  \/ StartFails(i)
  \/ Shutdown(i)
  \/ StopHealth(i)
  \/ StopHelper(i)

--------------------------------------------------------------------------------
(***************************************************************************)
(* What happens to the process.                                            *)
(***************************************************************************)

Served(i) == phase[i] \notin {"down", "starting"}

\* Mutant of HandleError: nobody is told but a goroutine that waits already.
HandleErrorWaiting(i) ==
  /\ Served(i)
  /\ fatal' = [fatal EXCEPT ![i] = TRUE]
  /\ cancelled' = [cancelled EXCEPT ![i] = @ \/ phase[i] = "waiting"]
  /\ UNCHANGED <<phase, work, probing, terminating, end>>

\* An error of the helper's goroutines that is not recoverable.  (One that is
\* changes nothing.)
HandleError(i) ==
  /\ Served(i)
  /\ fatal' = [fatal EXCEPT ![i] = TRUE]
  /\ cancelled' = [cancelled EXCEPT ![i] = TRUE]
  /\ UNCHANGED <<phase, work, probing, terminating, end>>

\* signal.NotifyContext is in force until the context is done.
Notified(i) == phase[i] \in {"starting", "serving", "probed", "waiting"}

\* SIGTERM, for whatever reason: the pod is replaced or its probes have failed.
Terminate(i) ==
  /\ phase[i] # "down"
  /\ ~terminating[i]
  /\ IF Notified(i)
       THEN /\ cancelled' = [cancelled EXCEPT ![i] = TRUE]
            /\ terminating' = [terminating EXCEPT ![i] = TRUE]
            /\ UNCHANGED <<phase, fatal, work, probing, end>>
       ELSE Die(i, "killed")

\* SIGKILL at the end of the grace period.
Kill(i) ==
  /\ phase[i] # "down"
  /\ terminating[i]
  /\ Die(i, "killed")

\* A panic in a handler, or the machine.
Crash(i) ==
  /\ phase[i] # "down"
  /\ Die(i, "killed")

--------------------------------------------------------------------------------
(***************************************************************************)
(* Calls of the kubelet.                                                   *)
(***************************************************************************)

SetCall(i, c) ==
  /\ call' = [call EXCEPT ![i] = c]
  /\ UNCHANGED <<phase, cancelled, fatal, probing, terminating, end>>

\* Until the helper is told to stop.
Serving(i) == phase[i] \in {"serving", "probed", "waiting", "stopHealth"}

Send(i) ==
  /\ Serving(i)
  /\ call[i] = "none"
  /\ UNCHANGED lock
  /\ SetCall(i, "waiting")

Enter(i) ==
  /\ call[i] = "waiting"
  /\ lock = None
  /\ lock' = i
  /\ SetCall(i, "running")

\* The handler is stuck beyond its caller's deadline: file operations have none.
Hang(i) ==
  /\ call[i] = "running"
  /\ UNCHANGED lock
  /\ SetCall(i, "hung")

\* Mutant of Answer: the helper's lock is not given back.
AnswerLocked(i) ==
  /\ call[i] = "running"
  /\ UNCHANGED lock
  /\ SetCall(i, "none")

Answer(i) ==
  /\ call[i] = "running"
  /\ lock' = None
  /\ SetCall(i, "none")

--------------------------------------------------------------------------------
(***************************************************************************)
(* Check and the kubelet that asks for it.                                 *)
(***************************************************************************)

SetProbe(i, p, n) ==
  /\ probe' = [probe EXCEPT ![i] = p]
  /\ failures' = [failures EXCEPT ![i] = n]
  /\ UNCHANGED <<phase, cancelled, fatal, work, terminating, end>>

OneMore(i) == IF failures[i] < Threshold THEN failures[i] + 1 ELSE Threshold

\* The health service takes a probe only while it runs.
Ask(i) ==
  /\ Health
  /\ phase[i] # "down"
  /\ probe[i] = "none"
  /\ IF phase[i] \in {"probed", "waiting"}
       THEN SetProbe(i, "asked", failures[i])
       ELSE SetProbe(i, "none", OneMore(i))

\* Mutant of CheckPasses: the registration service alone is asked.
CheckPassesRegistered(i) ==
  /\ probe[i] = "asked"
  /\ SetProbe(i, "none", 0)

\* GetInfo answers, and so does an empty NodePrepareResources once it had the lock.
CheckPasses(i) ==
  /\ probe[i] = "asked"
  /\ Serving(i)
  /\ lock = None
  /\ SetProbe(i, "none", 0)

\* The helper's sockets are closed; or its caller's deadline passes, which ends the
\* calls Check has made.
CheckFails(i) ==
  /\ probe[i] = "asked"
  /\ Serving(i) => lock # None
  /\ SetProbe(i, "none", OneMore(i))

\* What the kubelet does about a container whose probes have failed.
Restart(i) ==
  /\ failures[i] = Threshold
  /\ Terminate(i)

--------------------------------------------------------------------------------
ProcStep(i) ==
  \/ Start(i)
  \/ Main(i)
  \/ HandleError(i)
  \/ Terminate(i)
  \/ Kill(i)
  \/ Crash(i)
  \/ Send(i)
  \/ Enter(i)
  \/ Hang(i)
  \/ Answer(i)
  \/ Ask(i)
  \/ CheckPasses(i)
  \/ CheckFails(i)

PLNext == \E i \in Procs : ProcStep(i)

PLSpec == PLInit /\ [][PLNext]_plVars

\* The main goroutine goes on; a probe is made, and answered or timed out; the
\* kubelet carries out what it has decided.  Of calls nothing is assumed but that
\* one that runs ends or hangs.
PLFairSpec ==
  /\ PLSpec
  /\ \A i \in Procs :
       /\ WF_plVars(Main(i))
       /\ WF_plVars(Ask(i))
       /\ WF_plVars(CheckPasses(i) \/ CheckFails(i))
       /\ WF_plVars(Restart(i))
       /\ WF_plVars(Kill(i))
       /\ WF_plVars(Answer(i) \/ Hang(i))

--------------------------------------------------------------------------------
(***************************************************************************)
(* Properties.                                                             *)
(***************************************************************************)

\* A probe the health service has taken is answered by a helper that serves, however
\* the probe and the start or the shutdown of the driver meet: NewDriver starts the
\* helper first and Shutdown stops it last.  It fails for one cause only, a handler
\* that has the lock, in this process or another.
ProbesFailForACause ==
  [][\A i \in Procs :
       probe[i] = "asked" /\ failures'[i] > failures[i] => lock # None]_plVars

\* "fatal background error": the process ends wherever in its life it strikes, be it
\* before NewDriver has returned, and although a handler hangs.
FatalErrorEndsProcess == \A i \in Procs : fatal[i] ~> phase[i] = "down"

\* A handler that hangs keeps the lock from all calls, those of the other process
\* too.  The probe notices, and the process is replaced.
WedgedIsReplaced == \A i \in Procs : call[i] = "hung" ~> call[i] # "hung"
================================================================================
