-------------------------------- MODULE Dlna --------------------------------
(***************************************************************************)
(* The DLNA service (internal/dlna): Start and Stop, each with a duration  *)
(* after which the other is called by a timer; the server that Start       *)
(* launches; and the tracker that turns the requests of a client for a     *)
(* scene into a session, which it saves once no request has come for the   *)
(* session timeout.  The tracker is made once, with the service, and       *)
(* Stop ends its monitor goroutine.                                        *)
(*                                                                         *)
(* Stop keeps the mutex of the service while it waits for the monitor,     *)
(* saves the sessions and closes the server.                               *)
(***************************************************************************)
EXTENDS Naturals

CONSTANTS
  Keys,       \* pairs of a client and a scene
  MaxSessions \* bound on the sessions of each

ASSUME MaxSessionsAssumption == MaxSessions \in Nat

VARIABLES
  running,    \* Service.running
  server,     \* how far the server is
  startTimer, \* Service.startTimer: one that is "over" is not nil
  stopTimer,  \* Service.stopTimer
  due,        \* the timers that have fired and whose call has not begun
  stop,       \* the Stop that has the mutex
  monitor,    \* the goroutine of the tracker
  cancelled,  \* whether its context has been cancelled
  sessions,   \* ActivityTracker.sessions
  expired,      \* the expired sessions the monitor is saving
  rest,       \* the remaining sessions Stop is saving
  begun,      \* the sessions that have begun, of each key (not in the code)
  ended,      \* those that have been saved (not in the code)
  linked,     \* the clients whose connection is open
  down        \* whether the process has died of a panic

serviceVars == <<running, server, startTimer, stopTimer, due, stop>>
trackerVars == <<monitor, cancelled, sessions, expired, rest, begun, ended>>
dlnaVars == <<serviceVars, trackerVars, linked, down>>

Timers == {"nil", "armed", "over"}

NoStop == [at |-> "none", timed |-> FALSE, byTimer |-> FALSE]

DlnaTypeOK ==
  /\ running \in BOOLEAN /\ cancelled \in BOOLEAN /\ down \in BOOLEAN
  /\ server \in {"none", "launched", "opening", "serving"}
  /\ startTimer \in Timers /\ stopTimer \in Timers
  /\ due \subseteq {"start", "stop"}
  /\ stop \in [at : {"none", "waiting", "saving", "stuck"},
               timed : BOOLEAN, byTimer : BOOLEAN]
  /\ monitor \in {"waiting", "saving", "gone"}
  /\ sessions \in [Keys -> {"none", "active", "idle"}]
  /\ expired \subseteq Keys /\ rest \subseteq Keys /\ linked \subseteq Keys
  /\ begun \in [Keys -> 0..MaxSessions]
  /\ ended \in [Keys -> Nat]

DlnaInit ==
  /\ running = FALSE /\ server = "none"
  /\ startTimer = "nil" /\ stopTimer = "nil" /\ due = {} /\ stop = NoStop
  /\ monitor = "waiting" /\ cancelled = FALSE
  /\ sessions = [k \in Keys |-> "none"]
  /\ expired = {} /\ rest = {}
  /\ begun = [k \in Keys |-> 0] /\ ended = [k \in Keys |-> 0]
  /\ linked = {} /\ down = FALSE

-----------------------------------------------------------------------------
(* The service.  A call needs the mutex. *)

Unlocked == stop = NoStop /\ ~down

(* A duration sets a timer only if there is none; one that was there is    *)
(* stopped first, which does not make it nil.                              *)
SetOnce(timer) == IF timer = "nil" THEN "armed" ELSE "over"

(* When the interfaces cannot be listed a service that is not running      *)
(* stays so, and no timer is set.                                          *)
DoStart(timed) ==
  /\ Unlocked
  /\ running' = TRUE
  /\ server' = IF running THEN server ELSE "launched"
  /\ startTimer' = IF running THEN startTimer ELSE "nil"
  /\ stopTimer' = IF timed THEN SetOnce(stopTimer) ELSE stopTimer
  /\ UNCHANGED <<stop, trackerVars, linked, down>>

Start(timed) == DoStart(timed) /\ UNCHANGED due

StartFails == Unlocked /\ ~running /\ "start" \in due /\ due' = due \ {"start"}
              /\ UNCHANGED <<running, server, startTimer, stopTimer, stop, trackerVars, linked, down>>

StopIdle(timed) ==
  /\ Unlocked /\ ~running
  /\ startTimer' = IF timed THEN SetOnce(startTimer) ELSE startTimer
  /\ UNCHANGED <<running, server, stopTimer, stop, trackerVars, linked, down>>

(* Stop of a service that runs: the tracker first.                         *)
StopRunning(timed, byTimer) ==
  /\ Unlocked /\ running
  /\ stop' = [at |-> "waiting", timed |-> timed, byTimer |-> byTimer]
  /\ cancelled' = TRUE
  /\ UNCHANGED <<running, server, startTimer, stopTimer, monitor, sessions, expired, rest,
                 begun, ended, linked, down>>

Stop(timed) == (StopIdle(timed) \/ StopRunning(timed, FALSE)) /\ UNCHANGED due

(* A timer that has fired can no longer be stopped: its call comes when    *)
(* the mutex is free.                                                      *)
StartTimerFires ==
  /\ startTimer = "armed" /\ "start" \notin due /\ ~down
  /\ startTimer' = "over" /\ due' = due \cup {"start"}
  /\ UNCHANGED <<running, server, stopTimer, stop, trackerVars, linked, down>>

StopTimerFires ==
  /\ stopTimer = "armed" /\ "stop" \notin due /\ ~down
  /\ stopTimer' = "over" /\ due' = due \cup {"stop"}
  /\ UNCHANGED <<running, server, startTimer, stop, trackerVars, linked, down>>

StartDue == "start" \in due /\ DoStart(FALSE) /\ due' = due \ {"start"}

StopDue ==
  /\ "stop" \in due /\ due' = due \ {"stop"}
  /\ StopIdle(FALSE) \/ StopRunning(FALSE, TRUE)

TakeRest ==
  /\ stop.at = "waiting" /\ monitor = "gone"
  /\ stop' = [stop EXCEPT !.at = "saving"]
  /\ rest' = {k \in Keys : sessions[k] # "none"}
  /\ sessions' = [k \in Keys |-> "none"]
  /\ UNCHANGED <<running, server, startTimer, stopTimer, due, monitor, cancelled, expired,
                 begun, ended, linked, down>>

SaveRest(k) ==
  /\ stop.at = "saving" /\ k \in rest
  /\ rest' = rest \ {k}
  /\ ended' = [ended EXCEPT ![k] = @ + 1]
  /\ UNCHANGED <<serviceVars, monitor, cancelled, sessions, expired, begun, linked, down>>

(* Server.Close, and what is left of Stop.                                 *)
CloseServer ==
  /\ stop.at = "saving" /\ rest = {}
  /\ server = "serving"
  /\ running' = FALSE /\ server' = "none"
  /\ stopTimer' = "nil"
  /\ startTimer' = IF stop.timed THEN SetOnce(startTimer) ELSE startTimer
  /\ stop' = NoStop
  /\ UNCHANGED <<due, trackerVars, linked, down>>

(* Before the goroutine of the server has made its channels Close panics,  *)
(* with the mutex given back; the API recovers from that, a timer does not.*)
(* When it has made only the first one Close ends the listener and then    *)
(* never returns.                                                          *)
CloseTooEarly ==
  /\ stop.at = "saving" /\ rest = {}
  /\ \/ server = "launched" /\ stop' = NoStop /\ down' = stop.byTimer /\ UNCHANGED server
     \/ server = "opening" /\ stop' = [stop EXCEPT !.at = "stuck"] /\ server' = "none" /\ UNCHANGED down
  /\ UNCHANGED <<running, startTimer, stopTimer, due, trackerVars, linked>>

(* Server.Serve, in a goroutine. *)
ServerOpens ==
  /\ server \in {"launched", "opening"} /\ ~down
  /\ server' = IF server = "launched" THEN "opening" ELSE "serving"
  /\ UNCHANGED <<running, startTimer, stopTimer, due, stop, trackerVars, linked, down>>

(* The port could not be opened: the goroutine asks nil for its address.   *)
ServerPanics ==
  /\ server = "launched" /\ ~down
  /\ down' = TRUE
  /\ UNCHANGED <<serviceVars, trackerVars, linked>>

-----------------------------------------------------------------------------
(* The tracker *)

(* Close ends the listener of the server, not the connections it has.      *)
RecordRequest(k) ==
  /\ server = "serving" \/ k \in linked
  /\ ~down
  /\ linked' = linked \cup {k}
  /\ sessions' = [sessions EXCEPT ![k] = "active"]
  /\ IF sessions[k] = "none"
     THEN begun[k] < MaxSessions /\ begun' = [begun EXCEPT ![k] = @ + 1]
     ELSE UNCHANGED begun
  /\ UNCHANGED <<serviceVars, monitor, cancelled, expired, rest, ended, down>>

HangUp(k) ==
  /\ k \in linked /\ linked' = linked \ {k}
  /\ UNCHANGED <<serviceVars, trackerVars, down>>

(* The session timeout passes without a request. *)
GoesQuiet(k) ==
  /\ sessions[k] = "active" /\ ~down
  /\ sessions' = [sessions EXCEPT ![k] = "idle"]
  /\ UNCHANGED <<serviceVars, monitor, cancelled, expired, rest, begun, ended, linked, down>>

ExpireKept == \* mutant: the expired sessions are not deleted
  /\ monitor = "waiting" /\ ~down
  /\ expired' = {k \in Keys : sessions[k] = "idle"}
  /\ expired' # {}
  /\ monitor' = "saving"
  /\ UNCHANGED <<serviceVars, cancelled, sessions, rest, begun, ended, linked, down>>

(* processExpiredSessions.  When its context has been cancelled, too, the  *)
(* monitor may still do another round.                                     *)
Expire ==
  /\ monitor = "waiting" /\ ~down
  /\ expired' = {k \in Keys : sessions[k] = "idle"}
  /\ expired' # {}
  /\ sessions' = [k \in Keys |-> IF sessions[k] = "idle" THEN "none" ELSE sessions[k]]
  /\ monitor' = "saving"
  /\ UNCHANGED <<serviceVars, cancelled, rest, begun, ended, linked, down>>

(* processCompletedSession: nothing is tried again if it fails.            *)
SaveExpired(k) ==
  /\ k \in expired /\ ~down
  /\ expired' = expired \ {k}
  /\ monitor' = IF expired' = {} THEN "waiting" ELSE "saving"
  /\ ended' = [ended EXCEPT ![k] = @ + 1]
  /\ UNCHANGED <<serviceVars, cancelled, sessions, rest, begun, linked, down>>

MonitorEnds ==
  /\ monitor = "waiting" /\ cancelled /\ ~down
  /\ monitor' = "gone"
  /\ UNCHANGED <<serviceVars, cancelled, sessions, expired, rest, begun, ended, linked, down>>

-----------------------------------------------------------------------------

Monitor == Expire \/ MonitorEnds \/ \E k \in Keys : SaveExpired(k)

Service ==
  \/ \E timed \in BOOLEAN : Start(timed) \/ Stop(timed)
  \/ StartFails \/ StartDue \/ StopDue \/ StartTimerFires \/ StopTimerFires
  \/ TakeRest \/ CloseServer \/ CloseTooEarly \/ ServerOpens \/ ServerPanics
  \/ \E k \in Keys : SaveRest(k)

Client(k) == RecordRequest(k) \/ HangUp(k) \/ GoesQuiet(k)

DlnaNext == Service \/ Monitor \/ \E k \in Keys : Client(k)

DlnaSpec == DlnaInit /\ [][DlnaNext]_dlnaVars

-----------------------------------------------------------------------------
(* Properties *)

One(b) == IF b THEN 1 ELSE 0

(* Although Stop takes over the sessions of a monitor that may be saving   *)
(* some, and requests go on meanwhile, each session is saved once: none is *)
(* counted as two views, and none is dropped on the way.                   *)
SessionsSavedOnce ==
  \A k \in Keys :
    begun[k] = ended[k] + One(sessions[k] # "none") + One(k \in expired) + One(k \in rest)
=============================================================================
