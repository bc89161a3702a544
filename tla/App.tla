-------------------------------- MODULE App --------------------------------
(***************************************************************************)
(* The life of one process: main(), portal_app_create(), portal_app_run()  *)
(* and portal_app_destroy() in the main thread, beside the polling thread  *)
(* that libmicrohttpd creates and the signals that may come at any moment. *)
(*                                                                         *)
(* "SIGTERM" stands for SIGTERM and SIGINT, which the code treats alike;   *)
(* at most one is pending.  The POSIX branch of portal_app_run() is        *)
(* modelled, and the process is one that inherits neither signal blocked.  *)
(***************************************************************************)
EXTENDS Config

CONSTANT Environments     \* environments the process may be started in

ASSUME AppAssumption ==
  /\ Environments \subseteq Environment
  /\ NoText \notin Numeral \cup {"1", "true", "yes"}
  /\ ULongMax >= MaxPort

VARIABLES
  environment,   \* of the process
  config,        \* the settings, once there are any
  pc,            \* where the main thread is
  res,           \* the resources: "none" yet, "live", or "gone"
  blocked,       \* is the signal blocked in the main thread
  threadBlocked, \* and in the polling thread, which inherits the mask
  pending,       \* a signal has come and is blocked
  thread,        \* the polling thread: "none", "polling" or in a "handler"
  result,        \* the local of portal_app_run(), 1 until sigwait() returns 0
  outcome        \* "running", "success", "failure" or "killed"

vars == <<environment, config, pc, res, blocked, threadBlocked, pending, thread, result, outcome>>
settings == <<environment, config>>
signals == <<blocked, threadBlocked, pending>>

Resource == {"config", "database", "server", "daemon"}
Label == {"config", "database", "server", "block", "start", "wait", "stop",
          "unmask", "destroy_server", "destroy_database", "destroy_config",
          "return"}

\* The polling thread exists exactly while the daemon does.
AppTypeOK ==
  /\ pc \in Label
  /\ res \in [Resource -> {"none", "live", "gone"}]
  /\ blocked \in BOOLEAN /\ threadBlocked \in BOOLEAN /\ pending \in BOOLEAN
  /\ thread \in {"none", "polling", "handler"}
  /\ result \in {0, 1}
  /\ outcome \in {"running", "success", "failure", "killed"}
  /\ environment \in Environment
  /\ res["config"] = "live" => config = Settings(environment)
  /\ outcome = "running" => (thread # "none" <=> res["daemon"] = "live")

Init ==
  /\ environment \in Environments /\ config = NoText
  /\ pc = "config"
  /\ res = [r \in Resource |-> "none"]
  /\ blocked = FALSE /\ threadBlocked = FALSE /\ pending = FALSE
  /\ thread = "none"
  /\ result = 1
  /\ outcome = "running"

At(label) == outcome = "running" /\ pc = label

Make(r) == res' = [res EXCEPT ![r] = "live"]
Release(r) ==
  res' = [res EXCEPT ![r] = IF @ = "live" THEN "gone" ELSE @]

-----------------------------------------------------------------------------
(* portal_app_create(): the steps, each of which may fail; a failure frees *)
(* what there is.                                                          *)

After(r) == CASE r = "config" -> "database" [] r = "database" -> "server"
              [] r = "server" -> "block"

\* portal_config_create_from_environment() copies what the environment gives;
\* it fails without DATABASE_URL, or without memory.
Configure(r) ==
  IF r = "config" THEN environment.database_url /\ config' = Settings(environment)
                  ELSE UNCHANGED config

\* Faulty variant: a failure returns at once.
CreateLeaking(r) ==
  /\ At(r)
  /\ \/ Make(r) /\ Configure(r) /\ pc' = After(r)
     \/ UNCHANGED <<res, config>> /\ pc' = "return"
  /\ UNCHANGED <<environment, signals, thread, result, outcome>>

Create(r) ==
  /\ At(r)
  /\ \/ Make(r) /\ Configure(r) /\ pc' = After(r)
     \/ UNCHANGED <<res, config>> /\ pc' = "destroy_server"
  /\ UNCHANGED <<environment, signals, thread, result, outcome>>

(* portal_app_run()                                                        *)

\* Faulty variant: the signals are not blocked before the server is started.
BlockForgotten ==
  /\ At("block")
  /\ pc' = "start"
  /\ UNCHANGED <<settings, res, signals, thread, result, outcome>>

Block ==
  /\ At("block")
  /\ \/ blocked' = TRUE /\ pc' = "start"
     \/ UNCHANGED blocked /\ pc' = "destroy_server"
  /\ UNCHANGED <<settings, res, threadBlocked, pending, thread, result, outcome>>

\* Faulty variant: a signal that came while starting is thrown away.
StartServerFlushing ==
  /\ At("start")
  /\ Make("daemon") /\ thread' = "polling" /\ pc' = "wait"
  /\ threadBlocked' = blocked /\ pending' = FALSE
  /\ UNCHANGED <<settings, blocked, result, outcome>>

StartServer ==
  /\ At("start")
  /\ \/ /\ Make("daemon") /\ thread' = "polling" /\ pc' = "wait"
        /\ threadBlocked' = blocked
     \/ UNCHANGED <<res, thread, threadBlocked>> /\ pc' = "stop"
  /\ UNCHANGED <<settings, blocked, pending, result, outcome>>

Sigwait ==
  /\ At("wait")
  /\ \/ pending /\ pending' = FALSE /\ result' = 0
     \/ UNCHANGED <<pending, result>>              \* sigwait() fails
  /\ pc' = "stop"
  /\ UNCHANGED <<settings, res, blocked, threadBlocked, thread, outcome>>

\* Faulty variant: the polling thread is told to end but not joined.
StopServerUnjoined ==
  /\ At("stop")
  /\ Release("daemon") /\ pc' = "unmask"
  /\ UNCHANGED <<settings, signals, thread, result, outcome>>

\* portal_http_server_stop(): MHD_stop_daemon() joins the polling thread, which
\* ends its round first, the handler it is in included.
StopServer ==
  /\ At("stop")
  /\ thread # "handler"
  /\ thread' = "none"
  /\ Release("daemon")
  /\ pc' = "unmask"
  /\ UNCHANGED <<settings, signals, result, outcome>>

\* The mask of before is restored; a second signal pending then kills.
Unmask ==
  /\ At("unmask")
  /\ \/ /\ blocked' = FALSE
        /\ outcome' = IF pending THEN "killed" ELSE "running"
        /\ UNCHANGED result
     \/ UNCHANGED <<blocked, outcome>> /\ result' = 1
  /\ pc' = "destroy_server"
  /\ UNCHANGED <<settings, res, threadBlocked, pending, thread>>

(* portal_app_destroy(), and the end of main()                             *)

\* Faulty variant: in the order of creation.
NextOfInCreationOrder(label) ==
  CASE label = "destroy_server" -> <<"config", "destroy_database">>
    [] label = "destroy_database" -> <<"database", "destroy_config">>
    [] label = "destroy_config" -> <<"server", "return">>

\* What each line releases, and the line after it.
NextOf(label) ==
  CASE label = "destroy_server" -> <<"server", "destroy_database">>
    [] label = "destroy_database" -> <<"database", "destroy_config">>
    [] label = "destroy_config" -> <<"config", "return">>

Destroy(label) ==
  /\ At(label)
  /\ Release(NextOf(label)[1])
  /\ pc' = NextOf(label)[2]
  /\ UNCHANGED <<settings, signals, thread, result, outcome>>

Return ==
  /\ At("return")
  /\ outcome' = IF result = 0 THEN "success" ELSE "failure"
  /\ UNCHANGED <<settings, pc, res, signals, thread, result>>

-----------------------------------------------------------------------------
(* The polling thread and the outside.                                     *)

EnterHandler ==
  /\ outcome = "running" /\ thread = "polling"
  /\ thread' = "handler"
  /\ UNCHANGED <<settings, pc, res, signals, result, outcome>>

LeaveHandler ==
  /\ outcome = "running" /\ thread = "handler"
  /\ thread' = "polling"
  /\ UNCHANGED <<settings, pc, res, signals, result, outcome>>

\* A signal kills the process if any of its threads does not block it.
Signal ==
  /\ outcome = "running"
  /\ IF ~blocked \/ (thread # "none" /\ ~threadBlocked)
     THEN outcome' = "killed" /\ UNCHANGED pending
     ELSE pending' = TRUE /\ UNCHANGED outcome
  /\ UNCHANGED <<settings, pc, res, blocked, threadBlocked, thread, result>>

Main ==
  \/ \E r \in {"config", "database", "server"} : Create(r)
  \/ Block \/ StartServer \/ Sigwait \/ StopServer \/ Unmask
  \/ \E l \in {"destroy_server", "destroy_database", "destroy_config"} : Destroy(l)
  \/ Return

Next == Main \/ EnterHandler \/ LeaveHandler \/ Signal

Spec == Init /\ [][Next]_vars

\* The main thread runs (waiting in sigwait() only for a signal), handlers end,
\* and the polling thread looks at the shutdown flag between two rounds (SF).
FairSpec ==
  /\ Spec
  /\ WF_vars(Main /\ pc' # pc /\ ~At("wait")) /\ WF_vars(Return)
  /\ WF_vars(Sigwait /\ pending)
  /\ SF_vars(StopServer) /\ WF_vars(LeaveHandler)

-----------------------------------------------------------------------------
(* Properties.                                                             *)

\* A handler reads the configuration, uses the connection and answers through
\* the server; none of them is released while the polling thread may be in one.
NoUseAfterRelease ==
  outcome = "running" /\ thread # "none" =>
    res["config"] = "live" /\ res["database"] = "live" /\ res["server"] = "live"

\* As long as there is a configuration its settings are usable: see Usable.
SettingsAreUsable ==
  res["config"] = "live" => Usable(environment, config)

\* Each resource is released before those it was built on (architecture.md:
\* "Libera en orden inverso").
ReleasedInReverse ==
  /\ res["server"] = "gone" => res["daemon"] # "live"
  /\ res["database"] = "gone" => res["server"] # "live"
  /\ res["config"] = "gone" => res["database"] # "live"

\* However main() returns, nothing is left allocated and no thread is running;
\* it returns success only if the server had been listening (app.h).
OrderlyReturn ==
  outcome \in {"success", "failure"} =>
    /\ \A r \in Resource : res[r] # "live"
    /\ thread = "none"
    /\ outcome = "success" => res["daemon"] = "gone"

\* A signal never cuts a request that is being handled.
NoRequestCut ==
  [][outcome = "running" /\ thread = "handler" => outcome' # "killed"]_vars

\* A signal that found the server starting or serving ends the process.
SignalEndsProcess == pending ~> outcome # "running"

=============================================================================
