---------------------------- MODULE StreamClient ----------------------------
(***************************************************************************)
(* The client's end of the event stream: when the app wants a stream, the  *)
(* SSEClient that opens, watches and reopens it, and the change of user    *)
(* that disposes of one client and makes another.                          *)
(*                                                                         *)
(* The client has one thread: a step is what runs between two awaits.      *)
(* What a stream carries is the business of EventStream.                   *)
(***************************************************************************)
EXTENDS Naturals

CONSTANTS
  Users, Nobody,
  NoToken,     \* no token has been looked up
  MaxClients,       \* bound on the clients made
  MaxClientFaults   \* bound on lookups that fail, streams that end or are reopened

\* What the constants have to be.
ASSUME StreamClientAssumption ==
  /\ Nobody \notin Users /\ NoToken \notin Users \cup {Nobody}
  /\ MaxClients \in Nat \ {0} /\ MaxClientFaults \in Nat

VARIABLES
  clients,       \* the SSEClients made so far
  current,       \* useServerEvents' client
  active,        \* the app is in the foreground
  enabled,       \* the kill switch lets server events run
  session,       \* the user of the stored session
  mounted,       \* useServerEvents is mounted
  clientFaults

clientVars == <<clients, current, active, enabled, session, mounted, clientFaults>>

hook == <<current, active, enabled, session, mounted>>

ClientIds == 1..MaxClients

\* token: what getToken has read; stream: the user whose stream is open, over
\* while the request is done but not closed.
NewClient == [requested |-> FALSE, disposed |-> FALSE, connecting |-> FALSE,
              token |-> NoToken, stream |-> Nobody, over |-> FALSE,
              watchdog |-> FALSE, timer |-> FALSE]

ClientTypeOK ==
  /\ clients \in [ClientIds ->
       [requested : BOOLEAN, disposed : BOOLEAN, connecting : BOOLEAN,
        token : Users \cup {Nobody, NoToken}, stream : Users \cup {Nobody},
        over : BOOLEAN, watchdog : BOOLEAN, timer : BOOLEAN]]
  /\ current \in ClientIds
  /\ {active, enabled, mounted} \subseteq BOOLEAN
  /\ session \in Users \cup {Nobody}
  /\ clientFaults \in 0..MaxClientFaults

ClientInit ==
  /\ clients = [c \in ClientIds |-> NewClient]
  /\ current = 1
  /\ active \in BOOLEAN /\ enabled \in BOOLEAN
  /\ session \in Users \cup {Nobody}
  /\ mounted = FALSE
  /\ clientFaults = 0

ClientFault == clientFaults < MaxClientFaults /\ clientFaults' = clientFaults + 1

-----------------------------------------------------------------------------
(* SSEClient: what its methods make of a client                            *)

\* connect, up to the token lookup: one lookup at a time.
Connected(k) ==
  IF k.disposed THEN k ELSE [k EXCEPT !.requested = TRUE, !.connecting = TRUE]

\* closeConnection: the handlers of the request are taken off.
Closed(k) == [k EXCEPT !.stream = Nobody, !.over = FALSE, !.watchdog = FALSE]

\* disconnect
Disconnected(k) == [Closed(k) EXCEPT !.requested = FALSE, !.timer = FALSE]

\* dispose
Disposed(k) == [Disconnected(k) EXCEPT !.disposed = TRUE]

\* scheduleReconnect
Rescheduled(k) ==
  IF k.disposed \/ k.timer THEN k
  ELSE [k EXCEPT !.watchdog = FALSE, !.timer = TRUE]

\* Slip: what was decided before the lookup holds after it.
WantedAnyway(k) == TRUE

Wanted(k) == ~ k.disposed /\ k.requested

\* openStream, after the lookup.
Opened(k, u) == [Closed(k) EXCEPT !.stream = u, !.watchdog = TRUE]

Live(k) == k.stream # Nobody /\ ~ k.over

-----------------------------------------------------------------------------
(* A client goes on by itself                                              *)

Becomes(c, k) == clients' = [clients EXCEPT ![c] = k] /\ UNCHANGED hook

\* getToken is answered; its auth deadline makes it an answer without a token.
LookUp(c) ==
  /\ clients[c].connecting /\ clients[c].token = NoToken
  /\ \/ Becomes(c, [clients[c] EXCEPT !.token = session]) /\ UNCHANGED clientFaults
     \/ Becomes(c, [clients[c] EXCEPT !.token = Nobody]) /\ ClientFault

\* Slip: without a token there is nothing to be done.
OpenGivingUp(c) ==
  LET k == clients[c]
      done == [k EXCEPT !.connecting = FALSE, !.token = NoToken]
  IN
  /\ k.token # NoToken
  /\ Becomes(c, IF ~ Wanted(k) \/ k.token = Nobody THEN done ELSE Opened(done, k.token))
  /\ UNCHANGED clientFaults

Open(c) ==
  LET k == clients[c]
      done == [k EXCEPT !.connecting = FALSE, !.token = NoToken]
  IN
  /\ k.token # NoToken
  /\ Becomes(c, IF ~ Wanted(k) THEN done
                ELSE IF k.token = Nobody THEN Rescheduled(done)
                ELSE Opened(done, k.token))
  /\ UNCHANGED clientFaults

\* onprogress: the stream is alive. At the cap of a response it is reopened at
\* once, or after a delay if it brought no event.
Progress(c) ==
  /\ Live(clients[c])
  /\ \/ Becomes(c, [clients[c] EXCEPT !.watchdog = TRUE])
     \/ Becomes(c, Connected(Closed(clients[c])))
     \/ Becomes(c, Rescheduled(Closed(clients[c])))
  /\ ClientFault

\* onerror or onloadend: an error, a refusal, the end of the response.
StreamEnds(c) ==
  /\ Live(clients[c]) /\ ClientFault
  /\ Becomes(c, Rescheduled([clients[c] EXCEPT !.over = TRUE]))

\* Nothing came for a minute.
WatchdogFires(c) ==
  LET k == [clients[c] EXCEPT !.watchdog = FALSE] IN
  /\ clients[c].watchdog /\ ClientFault
  /\ Becomes(c, IF k.disposed THEN k ELSE Connected(Closed(k)))

ReconnectTimer(c) ==
  /\ clients[c].timer
  /\ Becomes(c, Connected([clients[c] EXCEPT !.timer = FALSE]))
  /\ UNCHANGED clientFaults

-----------------------------------------------------------------------------
(* useServerEvents                                                         *)

\* connectIfEnabled
ConnectIfEnabled(k, on) == IF on THEN Connected(k) ELSE k

Mount ==
  /\ ~ mounted
  /\ mounted' = TRUE
  /\ clients' = [clients EXCEPT ![current] = ConnectIfEnabled(@, enabled)]
  /\ UNCHANGED <<current, active, enabled, session, clientFaults>>

AppState ==
  /\ active' = ~ active
  /\ clients' = IF ~ mounted THEN clients
                ELSE [clients EXCEPT ![current] =
                        IF active' THEN ConnectIfEnabled(@, enabled) ELSE Disconnected(@)]
  /\ UNCHANGED <<current, enabled, session, mounted, clientFaults>>

KillSwitch ==
  /\ enabled' = ~ enabled
  /\ clients' = IF ~ mounted THEN clients
                ELSE [clients EXCEPT ![current] =
                        IF ~ enabled' THEN Disconnected(@)
                        ELSE ConnectIfEnabled(@, active)]
  /\ UNCHANGED <<current, active, session, mounted, clientFaults>>

\* The screens of a session go, and come back with a client of their own.
Unmount ==
  /\ mounted /\ current < MaxClients
  /\ mounted' = FALSE
  /\ current' = current + 1
  /\ clients' = [clients EXCEPT ![current] = Disposed(@)]
  /\ UNCHANGED <<active, enabled, session, clientFaults>>

\* The sign-out cleanup: the new client starts without a last event id.
ChangeUser(u) ==
  /\ u # session /\ current < MaxClients
  /\ session' = u
  /\ IF mounted
     THEN /\ current' = current + 1
          /\ clients' = [clients EXCEPT
               ![current] = Disposed(@),
               ![current + 1] = IF active THEN ConnectIfEnabled(@, enabled) ELSE @]
     ELSE UNCHANGED <<clients, current>>
  /\ UNCHANGED <<active, enabled, mounted, clientFaults>>

-----------------------------------------------------------------------------

GoOn(c) == LookUp(c) \/ Open(c) \/ ReconnectTimer(c)

ClientNext ==
  \/ \E c \in ClientIds : GoOn(c) \/ Progress(c) \/ StreamEnds(c) \/ WatchdogFires(c)
  \/ Mount \/ Unmount \/ AppState \/ KillSwitch
  \/ \E u \in Users \cup {Nobody} : ChangeUser(u)

ClientSpec == ClientInit /\ [][ClientNext]_clientVars

\* Lookups end, by their deadline at the latest, and timers fire.
ClientFairness ==
  \A c \in ClientIds :
    /\ WF_clientVars(LookUp(c))
    /\ WF_clientVars(Open(c))
    /\ WF_clientVars(ReconnectTimer(c))

ClientFairSpec == ClientSpec /\ ClientFairness

-----------------------------------------------------------------------------
(* Properties                                                              *)

\* A stream is open only for the current client, while the app wants it, and
\* for the user who is signed in, through lookups that are answered after a
\* disconnect, a sign-out or another sign-in.
NoStreamUnlessWanted ==
  \A c \in ClientIds : clients[c].stream # Nobody =>
    c = current /\ clients[c].requested /\ enabled /\ clients[c].stream = session

StreamWanted == mounted /\ active /\ enabled /\ session # Nobody

\* After faults end, a stream the app wants and a user is signed in for opens.
StreamComesBack == StreamWanted ~> Live(clients[current]) \/ ~ StreamWanted
=============================================================================
