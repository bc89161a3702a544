------------------------------ MODULE AppProofs ------------------------------
(***************************************************************************)
(* Proofs about App and Config, for every environment the process may be   *)
(* started in and every width of unsigned long that holds a port.          *)
(***************************************************************************)
EXTENDS App, TLAPS

-----------------------------------------------------------------------------
(* Configuration.                                                          *)

\* Whatever the text, the result is the fallback or a number of the range; a
\* number of the range that is written plainly is the result.
LEMMA IntegerParsed ==
  ASSUME NEW t \in Numeral \cup {NoText},
         NEW maximum \in Int, maximum <= ULongMax,
         NEW fallback \in Int, 1 <= fallback, fallback <= maximum
  PROVE  /\ ParseInteger(t, fallback, 1, maximum) \in 1..maximum
         /\ Kept(t, ParseInteger(t, fallback, 1, maximum), maximum)
<1>1. ParseInteger(t, fallback, 1, maximum) \in 1..maximum
  BY DEF ParseInteger
<1>2. ASSUME t # NoText, Whole(t), t.number \in 1..maximum
      PROVE  ParseInteger(t, fallback, 1, maximum) = t.number
  <2>1. ULongMax \in Int /\ 0 <= ULongMax
    BY NumeralsAssumption DEF ULongMax
  <2>2. t.number \in Int /\ 1 <= t.number /\ t.number <= ULongMax
    BY <1>2, <2>1
  <2>3. FitsULong(t.number)
    BY <2>1, <2>2 DEF FitsULong
  <2>4. ULong(t.number) = t.number
    BY <2>2 DEF ULong
  <2> QED
    BY <1>2, <2>3, <2>4 DEF ParseInteger
<1> QED
  BY <1>1, <1>2 DEF Kept

\* The settings of any environment are usable.
LEMMA SettingsUsable ==
  ASSUME NEW e \in Environment
  PROVE  Usable(e, Settings(e))
<1>1. /\ e.port \in Numeral \cup {NoText}
      /\ e.token_ttl \in Numeral \cup {NoText}
      /\ e.confirmation_ttl \in Numeral \cup {NoText}
      /\ e.expose \in {NoText, "1", "true", "yes", "other"}
  BY DEF Environment
<1>2. /\ Settings(e).port = ParseInteger(e.port, 8080, 1, MaxPort)
      /\ Settings(e).token_ttl = ParseInteger(e.token_ttl, 168, 1, MaxTokenHours)
      /\ Settings(e).confirmation_ttl =
           ParseInteger(e.confirmation_ttl, 24, 1, MaxConfirmationHours)
      /\ Settings(e).expose = ParseBoolean(e.expose, FALSE)
  BY DEF Settings
<1>3. /\ Settings(e).port \in 1..MaxPort
      /\ Kept(e.port, Settings(e).port, MaxPort)
  <2> DEFINE value == ParseInteger(e.port, 8080, 1, MaxPort)
  <2>1. /\ MaxPort \in Int /\ MaxPort <= ULongMax
        /\ 8080 \in Int /\ 1 <= 8080 /\ 8080 <= MaxPort
    BY AppAssumption, NumeralsAssumption
       DEF ULongMax, MaxPort, MaxTokenHours, MaxConfirmationHours
  <2>2. value \in 1..MaxPort /\ Kept(e.port, value, MaxPort)
    <3> HIDE DEF value
    <3>1. e.port \in Numeral \cup {NoText}
      BY <1>1
    <3>2. ParseInteger(e.port, 8080, 1, MaxPort) \in 1..MaxPort
      BY <3>1, <2>1, IntegerParsed
    <3>3. Kept(e.port, ParseInteger(e.port, 8080, 1, MaxPort), MaxPort)
      BY <3>1, <2>1, IntegerParsed
    <3> QED
      BY <3>2, <3>3 DEF value
  <2> QED
    BY <1>2, <2>2
<1>4. /\ Settings(e).token_ttl \in 1..MaxTokenHours
      /\ Kept(e.token_ttl, Settings(e).token_ttl, MaxTokenHours)
  <2> DEFINE value == ParseInteger(e.token_ttl, 168, 1, MaxTokenHours)
  <2>1. /\ MaxTokenHours \in Int /\ MaxTokenHours <= ULongMax
        /\ 168 \in Int /\ 1 <= 168 /\ 168 <= MaxTokenHours
    BY AppAssumption, NumeralsAssumption
       DEF ULongMax, MaxPort, MaxTokenHours, MaxConfirmationHours
  <2>2. value \in 1..MaxTokenHours /\ Kept(e.token_ttl, value, MaxTokenHours)
    BY <1>1, <2>1, IntegerParsed
  <2> QED
    BY <1>2, <2>2
<1>5. /\ Settings(e).confirmation_ttl \in 1..MaxConfirmationHours
      /\ Kept(e.confirmation_ttl, Settings(e).confirmation_ttl, MaxConfirmationHours)
  <2> DEFINE value == ParseInteger(e.confirmation_ttl, 24, 1, MaxConfirmationHours)
  <2>1. /\ MaxConfirmationHours \in Int /\ MaxConfirmationHours <= ULongMax
        /\ 24 \in Int /\ 1 <= 24 /\ 24 <= MaxConfirmationHours
    BY AppAssumption, NumeralsAssumption
       DEF ULongMax, MaxPort, MaxTokenHours, MaxConfirmationHours
  <2>2. value \in 1..MaxConfirmationHours /\ Kept(e.confirmation_ttl, value, MaxConfirmationHours)
    BY <1>1, <2>1, IntegerParsed
  <2> QED
    BY <1>2, <2>2
<1>6. Settings(e).expose <=> e.expose \in {"1", "true", "yes"}
  <2>1. CASE e.expose = NoText
    <3>1. e.expose \notin {"1", "true", "yes"}
      BY <2>1, AppAssumption
    <3>2. Settings(e).expose = FALSE
      BY <1>2, <2>1 DEF ParseBoolean
    <3> QED
      BY <3>1, <3>2
  <2>2. CASE e.expose # NoText
    <3>1. CASE e.expose \in {"1", "true", "yes"}
      <4>1. Settings(e).expose
        BY <2>2, <3>1 DEF Settings, ParseBoolean
      <4> QED
        BY <3>1, <4>1
    <3>2. CASE e.expose \notin {"1", "true", "yes"}
      <4>1. ~Settings(e).expose
        BY <2>2, <3>2 DEF Settings, ParseBoolean
      <4> QED
        BY <3>2, <4>1
    <3> QED
      BY <3>1, <3>2
  <2> QED
    BY <2>1, <2>2
<1> QED
  BY <1>3, <1>4, <1>5, <1>6 DEF Usable

-----------------------------------------------------------------------------
(* The main thread: what there is at each of its lines.                    *)

Built(S) == \A r \in Resource : res[r] = IF r \in S THEN "live" ELSE "none"
Parts == {"config", "database", "server"}

\* Until it stops the server the main thread has built what its line says;
\* from then on it releases, last built first.
Order ==
  /\ pc = "config" => Built({})
  /\ pc = "database" => Built({"config"})
  /\ pc = "server" => Built({"config", "database"})
  /\ pc \in {"block", "start"} => Built(Parts)
  /\ pc = "wait" => Built(Resource)
  /\ pc \in {"stop", "unmask"} => \A r \in Parts : res[r] = "live"
  /\ pc = "stop" => res["daemon"] # "gone"
  /\ pc \in {"unmask", "destroy_server"} => res["daemon"] # "live"
  /\ pc = "destroy_server" => \A r \in Parts : res[r] # "gone"
  /\ pc = "destroy_database" =>
       /\ res["daemon"] # "live" /\ res["server"] # "live"
       /\ res["database"] # "gone" /\ res["config"] # "gone"
  /\ pc = "destroy_config" =>
       /\ \A r \in {"daemon", "server", "database"} : res[r] # "live"
       /\ res["config"] # "gone"
  /\ pc = "return" => \A r \in Resource : res[r] # "live"

\* The polling thread lives with the daemon, and no thread takes the signals.
Threads ==
  /\ thread # "none" <=> res["daemon"] = "live"
  /\ pc \in {"start", "wait", "stop", "unmask"} => blocked
  /\ thread # "none" => threadBlocked /\ pc \in {"wait", "stop"}

\* result is 0 only after the daemon has run, and main() returns at its end.
Results ==
  /\ result = 0 => /\ res["daemon"] # "none"
                   /\ pc \notin {"config", "database", "server", "block", "start", "wait"}
  /\ outcome \in {"success", "failure"} => pc = "return"
  /\ outcome = "success" => result = 0

Inductive == AppTypeOK /\ Order /\ Threads /\ Results

\* Nothing is built at first.
LEMMA InductiveInit == Init => Inductive
<1> SUFFICES ASSUME Init
             PROVE  Inductive
  OBVIOUS
<1>1. \A r \in Resource : res[r] = "none"
  BY DEF Init
<1>2. AppTypeOK
  <2>1. environment \in Environment /\ pc \in Label
    BY AppAssumption DEF Init, Label
  <2>2. res \in [Resource -> {"none", "live", "gone"}]
    BY DEF Init
  <2>3. res["config"] # "live" /\ res["daemon"] # "live" /\ thread = "none"
    BY <1>1 DEF Init, Resource
  <2> QED
    BY <2>1, <2>2, <2>3 DEF Init, AppTypeOK
<1>3. Order
  BY <1>1 DEF Init, Order, Built
<1>4. Threads /\ Results
  BY <1>1 DEF Init, Threads, Results, Resource
<1> QED
  BY <1>2, <1>3, <1>4 DEF Inductive

\* Each step keeps the types.
LEMMA TypeNext == Inductive /\ [Next]_vars => AppTypeOK'
<1> SUFFICES ASSUME Inductive, [Next]_vars
             PROVE  AppTypeOK'
  OBVIOUS
<1> USE DEF Inductive, AppTypeOK, Label, Resource, At, Make, Release, settings, signals
<1>1. ASSUME NEW r \in {"config", "database", "server"}, Create(r)
      PROVE  AppTypeOK'
  <2>1. After(r) \in Label
    BY DEF After
  <2> QED
    BY <1>1, <2>1 DEF Create, Configure, Order, Built
<1>2. CASE Block
  BY <1>2 DEF Block
<1>3. CASE StartServer
  BY <1>3 DEF StartServer
<1>4. CASE Sigwait
  BY <1>4 DEF Sigwait
<1>5. CASE StopServer
  BY <1>5 DEF StopServer
<1>6. CASE Unmask
  BY <1>6 DEF Unmask
<1>7. ASSUME NEW l \in {"destroy_server", "destroy_database", "destroy_config"},
             Destroy(l)
      PROVE  AppTypeOK'
  <2>1. NextOf(l)[1] \in Parts /\ NextOf(l)[2] \in Label
    BY DEF NextOf, Parts
  <2> QED
    BY <1>7, <2>1 DEF Destroy, Parts
<1>8. CASE Return \/ EnterHandler \/ LeaveHandler \/ Signal \/ UNCHANGED vars
  BY <1>8 DEF Return, EnterHandler, LeaveHandler, Signal, vars, Threads
<1> QED
  BY <1>1, <1>2, <1>3, <1>4, <1>5, <1>6, <1>7, <1>8 DEF Next, Main

\* Each step of the main thread keeps what its lines have built or released.
LEMMA OrderNext == Inductive /\ [Next]_vars => Order'
<1> SUFFICES ASSUME Inductive, [Next]_vars
             PROVE  Order'
  OBVIOUS
<1> USE DEF Inductive, Order, Built, Parts, Resource, At, Make, Release
<1>1. ASSUME NEW r \in {"config", "database", "server"}, Create(r)
      PROVE  Order'
  <2>1. CASE r = "config"
    BY <1>1, <2>1 DEF Create, After, AppTypeOK
  <2>2. CASE r = "database"
    BY <1>1, <2>2 DEF Create, After, AppTypeOK
  <2>3. CASE r = "server"
    BY <1>1, <2>3 DEF Create, After, AppTypeOK
  <2> QED
    BY <2>1, <2>2, <2>3
<1>2. CASE Block
  BY <1>2 DEF Block, AppTypeOK
<1>3. CASE StartServer
  BY <1>3 DEF StartServer, AppTypeOK
<1>4. CASE Sigwait
  BY <1>4 DEF Sigwait, AppTypeOK
<1>5. CASE StopServer
  BY <1>5 DEF StopServer, AppTypeOK
<1>6. CASE Unmask
  BY <1>6 DEF Unmask, AppTypeOK
<1>7. ASSUME NEW l \in {"destroy_server", "destroy_database", "destroy_config"},
             Destroy(l)
      PROVE  Order'
  <2>1. CASE l = "destroy_server"
    BY <1>7, <2>1 DEF Destroy, NextOf, AppTypeOK
  <2>2. CASE l = "destroy_database"
    BY <1>7, <2>2 DEF Destroy, NextOf, AppTypeOK
  <2>3. CASE l = "destroy_config"
    BY <1>7, <2>3 DEF Destroy, NextOf, AppTypeOK
  <2> QED
    BY <2>1, <2>2, <2>3
<1>8. CASE Return \/ EnterHandler \/ LeaveHandler \/ Signal \/ UNCHANGED vars
  BY <1>8 DEF Return, EnterHandler, LeaveHandler, Signal, vars
<1> QED
  BY <1>1, <1>2, <1>3, <1>4, <1>5, <1>6, <1>7, <1>8 DEF Next, Main

\* Each step keeps the masks, the polling thread and the result as they were
\* meant: the polling thread begins with the signals blocked.
LEMMA ThreadsNext == Inductive /\ [Next]_vars => Threads' /\ Results'
<1> SUFFICES ASSUME Inductive, [Next]_vars
             PROVE  Threads' /\ Results'
  OBVIOUS
<1> USE DEF Inductive, Threads, Results, Order, Built, Parts, Resource, At, Make,
            Release, settings, signals
<1>1. ASSUME NEW r \in {"config", "database", "server"}, Create(r)
      PROVE  Threads' /\ Results'
  <2>1. res'["daemon"] = res["daemon"] /\ res["daemon"] = "none"
    BY <1>1 DEF Create, AppTypeOK
  <2>2. pc' \in {"database", "server", "block", "destroy_server"}
    BY <1>1 DEF Create, After
  <2> QED
    BY <1>1, <2>1, <2>2 DEF Create
<1>2. CASE Block
  BY <1>2 DEF Block, AppTypeOK
<1>3. CASE StartServer
  BY <1>3 DEF StartServer, AppTypeOK
<1>4. CASE Sigwait
  BY <1>4 DEF Sigwait, AppTypeOK
<1>5. CASE StopServer
  BY <1>5 DEF StopServer, AppTypeOK
<1>6. CASE Unmask
  BY <1>6 DEF Unmask, AppTypeOK
<1>7. ASSUME NEW l \in {"destroy_server", "destroy_database", "destroy_config"},
             Destroy(l)
      PROVE  Threads' /\ Results'
  <2>1. NextOf(l)[1] \in Parts
        /\ NextOf(l)[2] \in {"destroy_database", "destroy_config", "return"}
    BY DEF NextOf
  <2>2. res'["daemon"] = res["daemon"]
    BY <1>7, <2>1 DEF Destroy, AppTypeOK
  <2> QED
    BY <1>7, <2>1, <2>2 DEF Destroy
<1>8. CASE Return
  BY <1>8 DEF Return
<1>9. CASE EnterHandler \/ LeaveHandler \/ Signal \/ UNCHANGED vars
  BY <1>9 DEF EnterHandler, LeaveHandler, Signal, vars
<1> QED
  BY <1>1, <1>2, <1>3, <1>4, <1>5, <1>6, <1>7, <1>8, <1>9 DEF Next, Main

\* The invariant holds of every behaviour.
THEOREM AppInvariant == Spec => []Inductive
<1>1. Inductive /\ [Next]_vars => Inductive'
  BY TypeNext, OrderNext, ThreadsNext DEF Inductive
<1> QED
  BY <1>1, InductiveInit, PTL DEF Spec

-----------------------------------------------------------------------------
(* What follows from it.                                                   *)

\* The state of the process stays typed, and a configuration is that of the
\* environment the process was started in.
THEOREM AppTypeCorrect == Spec => []AppTypeOK
BY AppInvariant, PTL DEF Inductive

\* Nothing a handler uses is released while the polling thread is there.
THEOREM UseCorrect == Spec => []NoUseAfterRelease
<1>1. Inductive => NoUseAfterRelease
  BY DEF Inductive, Threads, Order, NoUseAfterRelease, Built, Parts, Resource
<1> QED
  BY <1>1, AppInvariant, PTL

\* Releases go in the reverse order of creation.
THEOREM ReleaseCorrect == Spec => []ReleasedInReverse
<1>1. Inductive => ReleasedInReverse
  BY DEF Inductive, AppTypeOK, Label, Order, ReleasedInReverse, Built, Parts, Resource
<1> QED
  BY <1>1, AppInvariant, PTL

\* main() returns with nothing left, and success only after the server ran.
THEOREM ReturnCorrect == Spec => []OrderlyReturn
<1>1. Inductive => OrderlyReturn
  BY DEF Inductive, AppTypeOK, Order, Threads, Results, OrderlyReturn, Resource
<1> QED
  BY <1>1, AppInvariant, PTL

\* The settings of a running process are usable, whatever its environment.
THEOREM SettingsCorrect == Spec => []SettingsAreUsable
<1>1. AppTypeOK => SettingsAreUsable
  BY SettingsUsable DEF AppTypeOK, SettingsAreUsable
<1> QED
  BY <1>1, AppTypeCorrect, PTL

\* No signal kills the process while a handler runs.
THEOREM RequestsUncut == Spec => NoRequestCut
<1>1. Inductive /\ [Next]_vars =>
        [outcome = "running" /\ thread = "handler" => outcome' # "killed"]_vars
  <2> SUFFICES ASSUME Inductive, Next, outcome = "running", thread = "handler"
               PROVE  outcome' # "killed"
    OBVIOUS
  <2>1. blocked /\ threadBlocked /\ pc \in {"wait", "stop"}
    BY DEF Inductive, Threads
  <2>2. CASE Signal
    BY <2>1, <2>2 DEF Signal
  <2>3. CASE Main
    BY <2>1, <2>3 DEF Main, Create, Block, StartServer, Sigwait, StopServer, Unmask,
                      Destroy, Return, At
  <2>4. CASE EnterHandler \/ LeaveHandler
    BY <2>4 DEF EnterHandler, LeaveHandler
  <2> QED
    BY <2>2, <2>3, <2>4 DEF Next
<1> QED
  BY <1>1, AppInvariant, PTL DEF Spec, NoRequestCut

=============================================================================
