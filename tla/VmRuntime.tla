------------------------------ MODULE VmRuntime ------------------------------
(***************************************************************************)
(* The VM with its session: VmLifecycle, whose boot runs prepare-session   *)
(* (GuestSession) and ends as that ends.                                   *)
(***************************************************************************)
EXTENDS VmLifecycle

VARIABLES session, server, writer, data, wasReady, told, overlooked, bus

Session == INSTANCE GuestSession

sessionVars == <<session, server, writer, data, wasReady, told, overlooked, bus>>
allVars == <<vars, sessionVars>>

RuntimeInit == Init /\ Session!Init

\* Every new VM begins its session afresh.
Start(l) == RunUnit(l) /\ (IF vm' = vm THEN UNCHANGED sessionVars ELSE Session!Begin)

Launch(l) ==
    /\ \/ Open(l) \/ Lock(l) \/ FirstProbe(l) \/ ResetFailed(l) \/ Poll(l) \/ Check(l)
       \/ Timeout(l) \/ Request(l)
    /\ UNCHANGED sessionVars

\* muvm serves no request before prepare-session succeeded, and exits if it fails.
SessionDone == session = "ok" /\ BootDone /\ UNCHANGED sessionVars

SessionFails == session = "failed" /\ BootFails /\ Session!Gone

\* The guest runs as long as its VM does.
Guest(step) == vm = "booting" /\ step /\ UNCHANGED vars

Stall == BootStalls /\ UNCHANGED sessionVars

VmEnds == (Crash \/ Stopped) /\ Session!Gone

Others ==
    /\ \/ \E l \in Launchers : Expire(l) \/ Interrupt(l)
       \/ Collect \/ Stop
    /\ UNCHANGED sessionVars

RuntimeNext ==
    \/ \E l \in Launchers : Start(l) \/ Launch(l)
    \/ SessionDone \/ SessionFails \/ Stall \/ VmEnds \/ Others
    \/ Guest(Session!Next)

RuntimeSpec == RuntimeInit /\ [][RuntimeNext]_allVars

(* VmLifecycle's fairness, and that of the processes in the guest; nobody   *)
(* promises that a server dies or that a VM is stopped.                    *)
RuntimeFairness ==
    /\ \A l \in Launchers :
          /\ WF_allVars(Start(l) \/ (pc[l] # "start" /\ Launch(l)))
          /\ WF_allVars(Expire(l) /\ UNCHANGED sessionVars)
    /\ WF_allVars(SessionDone \/ SessionFails \/ Stall)
    /\ WF_allVars(Collect /\ UNCHANGED sessionVars)
    /\ WF_allVars(Stopped /\ Session!Gone)
    /\ WF_allVars(Guest(Session!SessionStep))
    /\ WF_allVars(Guest(Session!ServerStep))

FairRuntimeSpec == RuntimeSpec /\ RuntimeFairness

---------------------------------------------------------------------------
RuntimeTypeOK == TypeOK /\ Session!TypeOK

SessionHasServer == Session!SessionHasServer
NoServerIsLeft == Session!NoServerIsLeft

\* A boot is decided, whatever FEXServer does: it hangs, dies or ignores SIGTERM.
BootIsDecided == vm = "booting" ~> vm # "booting"
=============================================================================
