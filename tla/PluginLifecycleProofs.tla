-------------------------- MODULE PluginLifecycleProofs -------------------------
(***************************************************************************)
(* The life of any number of plugin processes that share the helper's      *)
(* lock: the lock has one owner, which is alive, and the health service    *)
(* takes no probe that the shutdown would fail.                            *)
(***************************************************************************)
EXTENDS PluginLifecycle, TLAPS

\* The numbers apart from the rest: PLTypeOK is proved in these two parts.
Counted == failures \in [Procs -> 0 .. Threshold]

Shaped ==
  /\ phase \in [Procs -> Phases]
  /\ cancelled \in [Procs -> BOOLEAN]
  /\ fatal \in [Procs -> BOOLEAN]
  /\ call \in [Procs -> {"none", "waiting", "running", "hung"}]
  /\ lock \in Procs \cup {None}
  /\ probe \in [Procs -> {"none", "asked"}]
  /\ terminating \in [Procs -> BOOLEAN]
  /\ end \in [Procs -> {"none", "stopped", "failed", "killed"}]

Locked ==
  \A i \in Procs :
    /\ lock = i <=> call[i] \in {"running", "hung"}
    /\ phase[i] \in {"down", "starting"} => call[i] = "none" /\ probe[i] = "none"

\* The steps that end a process, those of its main goroutine that do not and what is
\* reported to it, and those of calls and probes.
Ends(i) ==
  \/ StartFails(i) \/ StopHelper(i) \/ Kill(i) \/ Crash(i)
  \/ Terminate(i) /\ ~Notified(i)

Turns(i) ==
  \/ Start(i) \/ StartHelper(i) \/ StartHealth(i) \/ PublishResources(i)
  \/ Shutdown(i) \/ StopHealth(i) \/ HandleError(i)
  \/ Terminate(i) /\ Notified(i)

Serves(i) ==
  \/ Send(i) \/ Enter(i) \/ Hang(i) \/ Answer(i)
  \/ Ask(i) \/ CheckPasses(i) \/ CheckFails(i)

LEMMA Parts == PLTypeOK <=> Counted /\ Shaped /\ Locked
  BY DEF PLTypeOK, Counted, Shaped, Locked

LEMMA InitHolds == PLInit => PLTypeOK
<1> SUFFICES ASSUME PLInit PROVE Counted /\ Shaped /\ Locked
  BY Parts
<1> USE PluginLifecycleAssumption DEF PLInit
<1>1. Counted
  BY DEF Counted
<1>2. Shaped
  BY DEF Shaped, Phases
<1>3. Locked
  BY DEF Locked
<1> QED
  BY <1>1, <1>2, <1>3

\* Whatever ends a process frees the lock it had and no other one.
LEMMA DieKeeps ==
  ASSUME PLTypeOK, NEW i \in Procs, NEW how \in {"stopped", "failed", "killed"}, Die(i, how)
  PROVE  PLTypeOK'
<1> USE PluginLifecycleAssumption, Parts DEF Die
<1>1. Counted'
  BY DEF Counted
<1>2. Shaped'
  BY DEF Shaped, Phases
<1>3. Locked'
  BY DEF Locked, Shaped
<1> QED
  BY <1>1, <1>2, <1>3 DEF PLTypeOK, Counted, Shaped, Locked

\* The main goroutine, between its start and its end, and what is reported to it.
LEMMA MainKeeps ==
  ASSUME PLTypeOK, NEW i \in Procs, Turns(i)
  PROVE  PLTypeOK'
<1> USE Parts DEF Turns, Start, StartHelper, StartHealth, PublishResources, Shutdown, StopHealth,
          HandleError, Terminate, Move, work, probing
<1>1. Counted'
  BY DEF Counted
<1>2. Shaped'
  BY DEF Shaped, Phases
<1>3. Locked'
  BY DEF Locked, Shaped
<1> QED
  BY <1>1, <1>2, <1>3 DEF PLTypeOK, Counted, Shaped, Locked

\* Calls and probes.
LEMMA ServiceKeeps ==
  ASSUME PLTypeOK, NEW i \in Procs, Serves(i)
  PROVE  PLTypeOK'
<1> USE PluginLifecycleAssumption, Parts
    DEF Serves, Send, Enter, Hang, Answer, Ask, CheckPasses, CheckFails, SetCall, SetProbe,
        OneMore, work, probing
<1>1. Counted'
  BY DEF Counted
<1>2. Shaped'
  BY DEF Shaped
<1>3. Locked'
  <2>1. CASE Send(i) \/ Enter(i) \/ Hang(i) \/ Answer(i)
    BY <2>1 DEF Locked, Shaped, Serving
  <2>2. CASE Ask(i) \/ CheckPasses(i) \/ CheckFails(i)
    <3>1. UNCHANGED <<phase, call, lock>>
      BY <2>2
    <3>2. \A j \in Procs : probe'[j] = "asked" => probe[j] = "asked" \/ (i = j /\ Ask(i))
      BY <2>2 DEF Shaped
    <3>3. Ask(i) /\ probe'[i] = "asked" => phase[i] \in {"probed", "waiting"}
      BY DEF Shaped
    <3>4. \A j \in Procs : probe[j] \in {"none", "asked"} /\ probe'[j] \in {"none", "asked"}
      BY <1>2 DEF Shaped
    <3> QED
      BY <3>1, <3>2, <3>3, <3>4 DEF Locked
  <2> QED
    BY <2>1, <2>2
<1> QED
  BY <1>1, <1>2, <1>3 DEF PLTypeOK, Counted, Shaped, Locked

\* A step is one of the three kinds.
LEMMA Kinds ==
  ASSUME NEW i \in Procs, ProcStep(i)
  PROVE  Ends(i) \/ Turns(i) \/ Serves(i)
  BY DEF ProcStep, Main, Ends, Turns, Serves

LEMMA EndsDie ==
  ASSUME NEW i \in Procs, Ends(i)
  PROVE  \E how \in {"stopped", "failed", "killed"} :
           Die(i, how)
  BY DEF Ends, StartFails, StopHelper, Kill, Crash, Terminate

LEMMA StepKeeps == PLTypeOK /\ [PLNext]_plVars => PLTypeOK'
<1> SUFFICES ASSUME PLTypeOK, [PLNext]_plVars PROVE PLTypeOK'
  OBVIOUS
<1>1. CASE UNCHANGED plVars
  BY <1>1 DEF PLTypeOK, plVars, work, probing
<1>2. ASSUME NEW i \in Procs, ProcStep(i)
      PROVE  PLTypeOK'
  BY <1>2, Kinds, EndsDie, DieKeeps, MainKeeps, ServiceKeeps
<1> QED
  BY <1>1, <1>2 DEF PLNext

\* Types, and that the lock is held exactly by the process whose call is at work,
\* which is alive: through any starts, ends and failures.
THEOREM LifecycleTypeCorrect == PLSpec => []PLTypeOK
<1> QED
  BY InitHolds, StepKeeps, PTL DEF PLSpec

--------------------------------------------------------------------------------
(***************************************************************************)
(* Probes.                                                                 *)
(***************************************************************************)

\* A probe on the way is one the health service has taken and waits for before the
\* helper is stopped.
ProbeInv ==
  \A i \in Procs :
    probe[i] = "asked" => Health /\ phase[i] \in {"probed", "waiting", "stopHealth"}

LEMMA ProbeKeeps == PLTypeOK /\ ProbeInv /\ [PLNext]_plVars => ProbeInv'
<1> SUFFICES ASSUME PLTypeOK, ProbeInv, [PLNext]_plVars PROVE ProbeInv'
  OBVIOUS
<1>1. CASE UNCHANGED plVars
  BY <1>1 DEF ProbeInv, plVars, probing
<1>2. ASSUME NEW j \in Procs, ProcStep(j)
      PROVE  ProbeInv'
  <2>1. phase \in [Procs -> Phases] /\ probe \in [Procs -> {"none", "asked"}]
    BY DEF PLTypeOK
  <2>2. CASE Ends(j)
    <3>1. PICK how : Die(j, how)
      BY <2>2, EndsDie
    <3> QED
      BY <2>1, <3>1 DEF Die, ProbeInv
  <2>3. CASE Turns(j)
    BY <2>1, <2>3 DEF Turns, Start, StartHelper, StartHealth, PublishResources, Shutdown,
       StopHealth, HandleError, Terminate, Move, probing, ProbeInv
  <2>4. CASE Serves(j)
    BY <2>1, <2>4 DEF Serves, Send, Enter, Hang, Answer, Ask, CheckPasses, CheckFails, SetCall,
       SetProbe, probing, ProbeInv
  <2> QED
    BY <1>2, <2>2, <2>3, <2>4, Kinds
<1> QED
  BY <1>1, <1>2 DEF PLNext

\* However starts, shutdowns, signals and errors of any number of processes meet, a
\* probe that has been taken fails only while a handler has the lock.
THEOREM TakenProbesAreServed == PLSpec => ProbesFailForACause
<1> DEFINE Cause ==
      \A i \in Procs : probe[i] = "asked" /\ failures'[i] > failures[i] => lock # None
<1>1. PLInit => ProbeInv
  BY DEF PLInit, ProbeInv
<1>2. ASSUME PLTypeOK, ProbeInv, [PLNext]_plVars
      PROVE  Cause
  <2>0. failures \in [Procs -> 0 .. Threshold] /\ Threshold \in Nat
    BY <1>2, PluginLifecycleAssumption DEF PLTypeOK
  <2>1. CASE UNCHANGED plVars
    BY <2>0, <2>1 DEF plVars, probing
  <2>2. ASSUME NEW j \in Procs, ProcStep(j), NEW i \in Procs,
               probe[i] = "asked", failures'[i] > failures[i]
        PROVE  lock # None
    <3>1. ~Turns(j) /\ ~(Send(j) \/ Enter(j) \/ Hang(j) \/ Answer(j))
      BY <2>0, <2>2 DEF Turns, Start, StartHelper, StartHealth, PublishResources, Shutdown,
         StopHealth, HandleError, Terminate, Move, Send, Enter, Hang, Answer, SetCall, probing
    <3>2. ~Ends(j)
      <4>1. ASSUME Ends(j)
            PROVE  FALSE
        <5>1. PICK how : Die(j, how)
          BY <4>1, EndsDie
        <5> QED
          BY <2>0, <2>2, <5>1 DEF Die
      <4> QED
        BY <4>1
    <3>3. i = j /\ CheckFails(j)
      BY <2>0, <2>2, <3>1, <3>2, Kinds DEF Serves, Ask, CheckPasses, CheckFails, SetProbe
    <3>4. Serving(i)
      BY <1>2, <2>2 DEF ProbeInv, Serving
    <3> QED
      BY <3>3, <3>4 DEF CheckFails
  <2> QED
    BY <1>2, <2>1, <2>2 DEF PLNext
<1> QED
  BY <1>1, <1>2, ProbeKeeps, LifecycleTypeCorrect, PTL DEF PLSpec, ProbesFailForACause
================================================================================
