----------------------------- MODULE AlertSocket -----------------------------
(***************************************************************************)
(* The live connection of the dashboard (src/app-service/frontend): the    *)
(* WebSockets that initAlertSocket opens and reopens.  Every rendering of  *)
(* the page calls it, nothing ever closes a socket again, and all of them  *)
(* share the two variables ws and reconnectTimer of alerts.js, although    *)
(* each socket has handlers of its own.                                    *)
(*                                                                         *)
(* The browser runs one event at a time; the handlers of a socket that     *)
(* fails, onerror and then onclose, run in the same task.  A socket of the *)
(* model stands for one object after another: a closed one raises no event *)
(* and may be used again.                                                  *)
(*                                                                         *)
(* Left out: the ping intervals of onopen, whose text the server ignores;  *)
(* onmessage, which shows one copy of an alert for each open socket; and a *)
(* URL the WebSocket constructor would refuse.                             *)
(***************************************************************************)
EXTENDS Naturals, FiniteSets

CONSTANTS
    Sockets,      \* WebSocket objects
    NoSocket,     \* null
    MaxLogins,    \* bound of the model: logins submitted
    MaxFailures   \* bound of the model: connections that fail or drop

ASSUME SocketAssumption ==
    /\ NoSocket \notin Sockets
    /\ {MaxLogins, MaxFailures} \subseteq Nat

VARIABLES
    page,            \* what is rendered: "login" or "app"
    submitted,       \* calls of login() that have not returned
    link,            \* the state of each socket; "failing" is one that was
                     \* closed before it had opened
    ws,              \* alerts.js: the socket created last
    reconnectTimer,  \* timeouts pending
    logins,          \* history: calls of initAlertSocket
    failures         \* history: connections that have failed or dropped

pageVars == <<page, submitted>>
socketVars == <<link, ws, reconnectTimer>>
vars == <<pageVars, socketVars, logins, failures>>

Live == {s \in Sockets : link[s] # "closed"}

Init ==
    /\ page = "login"
    /\ submitted = 0
    /\ link = [s \in Sockets |-> "closed"]
    /\ ws = NoSocket
    /\ reconnectTimer = 0
    /\ logins = 0
    /\ failures = 0

-----------------------------------------------------------------------------
(* initAlertSocket                                                         *)

(* ws.close() *)
Closed(l, s) ==
    IF s = NoSocket THEN l
    ELSE [l EXCEPT ![s] = CASE @ = "connecting" -> "failing"
                            [] @ = "open" -> "closing"
                            [] OTHER -> @]

(* A plausible bug: the socket that is replaced is closed first. *)
ConnectClosesOld ==
    \E s \in Sockets \ Live :
        /\ link' = [Closed(link, ws) EXCEPT ![s] = "connecting"]
        /\ ws' = s

connect ==
    \E s \in Sockets \ Live :
        /\ link' = [link EXCEPT ![s] = "connecting"]
        /\ ws' = s

(* A plausible bug: onerror sets a timeout too. *)
SocketEndsRetriesTwice(s, error) ==
    /\ link' = Closed([link EXCEPT ![s] = "closed"], IF error THEN ws ELSE NoSocket)
    /\ reconnectTimer' = IF error THEN 2 ELSE 1
    /\ UNCHANGED ws

(* A plausible bug: only a page that is logged in reconnects. *)
SocketEndsLoggedIn(s, error) ==
    /\ link' = Closed([link EXCEPT ![s] = "closed"], IF error THEN ws ELSE NoSocket)
    /\ reconnectTimer' = IF page = "app" THEN 1 ELSE 0
    /\ UNCHANGED ws

(* The socket is closed: onerror, after an error, closes ws, whichever     *)
(* socket that is by now, and onclose sets the timeout anew.               *)
SocketEnds(s, error) ==
    /\ link' = Closed([link EXCEPT ![s] = "closed"], IF error THEN ws ELSE NoSocket)
    /\ reconnectTimer' = 1
    /\ UNCHANGED ws

(* A timeout of three seconds; the events of a socket that is failing are  *)
(* queued already and come before it.                                      *)
Reconnect ==
    /\ reconnectTimer > 0
    /\ \A s \in Sockets : link[s] # "failing"
    /\ reconnectTimer' = reconnectTimer - 1
    /\ connect
    /\ UNCHANGED <<pageVars, logins, failures>>

Opens(s) ==
    /\ link[s] = "connecting"
    /\ link' = [link EXCEPT ![s] = "open"]
    /\ UNCHANGED <<pageVars, ws, reconnectTimer, logins, failures>>

(* The server or the network refuses the connection. *)
ConnectFails(s) ==
    /\ link[s] = "connecting"
    /\ failures < MaxFailures
    /\ failures' = failures + 1
    /\ SocketEnds(s, TRUE)
    /\ UNCHANGED <<pageVars, logins>>

(* The connection is lost, with or without an error event. *)
Drops(s) ==
    /\ link[s] = "open"
    /\ failures < MaxFailures
    /\ failures' = failures + 1
    /\ \E error \in BOOLEAN : SocketEnds(s, error)
    /\ UNCHANGED <<pageVars, logins>>

(* close() ends: with an error if the socket had not opened. *)
CloseEnds(s) ==
    /\ link[s] \in {"closing", "failing"}
    /\ SocketEnds(s, link[s] = "failing")
    /\ UNCHANGED <<pageVars, logins, failures>>

-----------------------------------------------------------------------------
(* main.js                                                                 *)

(* doLogin, again by a second click before the first has returned. *)
Submit ==
    /\ page = "login"
    /\ logins + submitted < MaxLogins
    /\ submitted' = submitted + 1
    /\ UNCHANGED <<page, socketVars, logins, failures>>

LoginFails ==
    /\ submitted > 0
    /\ submitted' = submitted - 1
    /\ UNCHANGED <<page, socketVars, logins, failures>>

(* renderApp, after a login or at once when the page finds a token. *)
RenderApp ==
    /\ page' = "app"
    /\ connect
    /\ logins' = logins + 1
    /\ UNCHANGED <<reconnectTimer, failures>>

LoginSucceeds ==
    /\ submitted > 0
    /\ submitted' = submitted - 1
    /\ RenderApp

(* The button, or any answer 401 (api.js); the sockets stay. *)
Logout ==
    /\ page = "app"
    /\ page' = "login"
    /\ UNCHANGED <<submitted, socketVars, logins, failures>>

(* Nothing to do until the user or the network does something. *)
Quiet ==
    /\ reconnectTimer = 0
    /\ \A s \in Live : link[s] = "open"
    /\ UNCHANGED vars

BrowserStep ==
    \/ Reconnect
    \/ \E s \in Sockets : Opens(s) \/ CloseEnds(s)

Next ==
    \/ BrowserStep
    \/ \E s \in Sockets : ConnectFails(s) \/ Drops(s)
    \/ Submit
    \/ LoginFails
    \/ LoginSucceeds
    \/ Logout
    \/ Quiet

Spec == Init /\ [][Next]_vars

(* The browser runs its timeouts and delivers the events of each socket; a *)
(* server that does not refuse a connection answers it.                    *)
FairSpec ==
    /\ Spec
    /\ WF_vars(Reconnect)
    /\ \A s \in Sockets : WF_vars(Opens(s)) /\ WF_vars(CloseEnds(s))

-----------------------------------------------------------------------------
(* Properties                                                              *)

TypeOK ==
    /\ page \in {"login", "app"}
    /\ submitted \in 0..MaxLogins
    /\ link \in [Sockets -> {"connecting", "open", "closing", "failing", "closed"}]
    /\ ws \in Sockets \cup {NoSocket}
    /\ reconnectTimer \in {0, 1}
    /\ logins \in 0..MaxLogins
    /\ failures \in 0..MaxFailures
    /\ logins + submitted <= MaxLogins

(* Reconnecting neither multiplies the sockets nor gives up, whatever      *)
(* fails at the same time: there is always one under way, and never more   *)
(* than the page was rendered; with a single rendering it is ws, so that   *)
(* onerror closes no other socket than its own (alerts.js:34-42).          *)
OneSocketPerLogin ==
    /\ Cardinality(Live) + reconnectTimer <= logins
    /\ logins > 0 => Live # {} \/ reconnectTimer > 0
    /\ logins = 1 => Live \subseteq {ws}

(* Once connections no longer fail the dashboard is connected for good:    *)
(* sockets that close each other through the shared ws do not go on so for *)
(* ever (alerts.js:34-42).                                                 *)
Settles == <>[](logins > 0 => ws # NoSocket /\ link[ws] = "open")
=============================================================================
