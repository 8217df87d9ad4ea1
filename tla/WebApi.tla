-------------------------------- MODULE WebApi --------------------------------
(***************************************************************************)
(* The web process with its requests: WebProcess starts, fails and stops;  *)
(* while it serves, it interleaves logins (Login) and triggers (Trigger).  *)
(* A crash takes all of them with it, the tables and the queue stay.       *)
(***************************************************************************)
EXTENDS WebProcess, Login, Trigger

vars == <<processVars, loginVars, triggerVars>>

Init == ProcessInit /\ LoginInit /\ TriggerInit

Quiet == /\ \A r \in Requests : ~Live(r)
         /\ \A q \in Calls : reply[q] # "open"

(* uvicorn lets the requests it has accepted finish before the lifespan ends. *)
Process ==
    /\ \/ Import \/ Startup
       \/ Quiet /\ Shutdown
    /\ UNCHANGED <<loginVars, triggerVars>>

(* get_db opens a session if init_db has assigned the session maker. *)
AcceptLogin(r) ==
    /\ phase = "serving"
    /\ IF db THEN \E c \in Codes : BeginLogin(r, c) ELSE NoSession(r)
    /\ UNCHANGED <<processVars, triggerVars>>

RunLogin(r) ==
    /\ phase = "serving"
    /\ LoginStep(r)
    /\ UNCHANGED <<processVars, triggerVars>>

AcceptTrigger(q) ==
    /\ phase = "serving"
    /\ RefuseTrigger(q) \/ \E C \in SUBSET Colleges : CallTrigger(q, C)
    /\ UNCHANGED <<processVars, loginVars>>

RunTrigger(q) ==
    /\ phase = "serving"
    /\ TriggerStep(q)
    /\ UNCHANGED <<processVars, loginVars>>

Crash == ProcessCrash /\ LoginCrash /\ TriggerCrash

Next ==
    \/ Process \/ Crash
    \/ \E r \in Requests : AcceptLogin(r) \/ RunLogin(r)
    \/ \E q \in Calls : AcceptTrigger(q) \/ RunTrigger(q)

Spec == Init /\ [][Next]_vars

(* A process that is up goes on with its start-up and with the logins it has *)
(* accepted; clients, signals and failures are not forced.                   *)
FairSpec ==
    /\ Spec
    /\ WF_vars(Startup /\ UNCHANGED <<loginVars, triggerVars>>)
    /\ \A r \in Requests : WF_vars(RunLogin(r) /\ LoginGoes(r))

TypeOK == ProcessTypeOK /\ LoginTypeOK /\ TriggerTypeOK
===============================================================================
