------------------------------ MODULE WebProcess ------------------------------
(***************************************************************************)
(* The web process: importing app.main, the lifespan of main.py with       *)
(* init_db and verify_db_connection (app/core/database.py), GET /health    *)
(* and the shutdown.  database.py assigns its globals engine and           *)
(* async_session_maker in init_db; main.py and health.py have imported the *)
(* names, and with them the values, before.                                *)
(***************************************************************************)
EXTENDS Integers

CONSTANTS
    RetrySettings,  \* values of DB_CONNECT_RETRIES
    MaxBoots        \* bound: starts of the process

ASSUME RetriesOK == RetrySettings \subseteq Int /\ MaxBoots \in Nat

VARIABLES
    phase,      \* where the process stands
    db,         \* the globals of database.py are assigned
    bound,      \* they were when main.py and health.py imported them
    tries,      \* attempts verify_db_connection has left
    pool,       \* connections of the engine: "none", "open" or "disposed"
    boots

processVars == <<phase, db, bound, tries, pool, boots>>

ProcessInit ==
    /\ phase = "down" /\ db = FALSE /\ bound = FALSE /\ tries = 0
    /\ pool = "none" /\ boots = 0

(* A fresh interpreter: the modules bind what database.py holds at import. *)
Import ==
    /\ phase \in {"down", "exited", "stopped"}
    /\ boots < MaxBoots
    /\ phase' = "imported"
    /\ db' = FALSE /\ bound' = db'
    /\ tries' = 0 /\ pool' = "none"
    /\ boots' = boots + 1

(* Faulty variant: the setting is taken as it is. *)
AttemptsUnbounded(n) == n

Attempts(n) == IF n > 1 THEN n ELSE 1

(* init_db assigns the globals; without DATABASE_URL it returns and          *)
(* verify_db_connection has nothing to verify.                              *)
InitDb(n) ==
    /\ phase = "imported"
    /\ \/ phase' = "probing" /\ db' = TRUE /\ tries' = Attempts(n)
       \/ phase' = "serving" /\ UNCHANGED <<db, tries>>
    /\ UNCHANGED <<bound, pool, boots>>

(* SELECT 1 succeeds on a connection of the pool. *)
ProbeSucceeds ==
    /\ phase = "probing"
    /\ phase' = "serving"
    /\ pool' = "open"
    /\ tries' = 0
    /\ UNCHANGED <<db, bound, boots>>

(* An attempt fails and the loop sleeps. *)
ProbeFails ==
    /\ phase = "probing"
    /\ tries > 1
    /\ tries' = tries - 1
    /\ UNCHANGED <<phase, db, bound, pool, boots>>

(* Faulty variant: the last failure is logged and the start-up goes on. *)
AbortStartupQuietly ==
    /\ phase = "probing"
    /\ tries = 1
    /\ phase' = "serving"
    /\ tries' = 0
    /\ UNCHANGED <<db, bound, pool, boots>>

(* Faulty variant: after the last attempt the loop begins again. *)
AbortStartupNever ==
    /\ phase = "probing"
    /\ tries = 1
    /\ tries' = 2
    /\ UNCHANGED <<phase, db, bound, pool, boots>>

(* The last attempt fails: reported to Sentry, then sys.exit(1). *)
AbortStartup ==
    /\ phase = "probing"
    /\ tries = 1
    /\ phase' = "exited"
    /\ tries' = 0
    /\ UNCHANGED <<db, bound, pool, boots>>

(* `async_session_maker` as health.py sees it, `engine` as main.py sees it. *)
HealthMaker == bound
MainEngine == bound

(* GET /health, which changes nothing: the status it answers when SELECT 1   *)
(* on a session of the maker, if it has one, and PING come out like this.    *)
HealthStatus(query, redis) ==
    LET dbStatus == IF HealthMaker THEN query ELSE "error"
    IN  IF dbStatus = "ok" /\ redis = "ok" THEN "ok" ELSE "degraded"

(* SIGTERM: the lifespan goes on after its yield, and disposes of the pool   *)
(* if main.py knows the engine (it does not, whatever WORK_LOG.md:115 says). *)
Shutdown ==
    /\ phase = "serving"
    /\ phase' = "stopped"
    /\ pool' = IF MainEngine THEN "disposed" ELSE pool
    /\ UNCHANGED <<db, bound, tries, boots>>

ProcessCrash ==
    /\ phase \in {"imported", "probing", "serving"}
    /\ phase' = "down"
    /\ tries' = 0
    /\ UNCHANGED <<db, bound, pool, boots>>

(* The steps of the start-up, which nothing outside has to allow. *)
Startup == \/ \E n \in RetrySettings : InitDb(n)
           \/ ProbeSucceeds \/ ProbeFails \/ AbortStartup
-------------------------------------------------------------------------------
ProcessTypeOK ==
    /\ phase \in {"down", "imported", "probing", "serving", "exited", "stopped"}
    /\ db \in BOOLEAN /\ bound \in BOOLEAN
    /\ tries \in Nat
    /\ pool \in {"none", "open", "disposed"}
    /\ boots \in 0..MaxBoots
    /\ phase = "probing" <=> tries > 0

(* database.py:53-58: a process with a database serves only after one of the *)
(* attempts of this start has reached it.                                    *)
ServesOnlyProbed == phase = "serving" /\ db => pool = "open"

(* ROADMAP.md:175: GET /health of the deployed process answers "ok".  It has *)
(* to once the process serves from a database its probe has reached, if that *)
(* and Redis answer the check.  (It does not: health.py:7 has imported the   *)
(* name async_session_maker before init_db assigned it.)                     *)
HealthTellsDatabase ==
    phase = "serving" /\ db /\ pool = "open" => HealthStatus("ok", "ok") = "ok"

(* database.py:66-90: whatever DB_CONNECT_RETRIES says, zero and negative    *)
(* values included, a start-up ends, serving or not.                         *)
StartupEnds == []<>(phase \notin {"imported", "probing"})
===============================================================================
