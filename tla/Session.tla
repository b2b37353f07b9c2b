-------------------------------- MODULE Session --------------------------------
(***************************************************************************)
(* The session of the dashboard: the client's requests, which refresh the  *)
(* access cookie together when it is not accepted any more (lib/api.ts),   *)
(* the user that the provider holds (lib/auth-context.tsx), the guard that *)
(* shows the dashboard to a user (dashboard/layout.tsx), and the way back  *)
(* in (login/page.tsx).  A cookie is written when its answer arrives.      *)
(***************************************************************************)
EXTENDS Naturals, FiniteSets

CONSTANTS
  None,
  Slots,       \* bound on the requests in flight: what tells them apart
  MaxTokens    \* bound on the access tokens that are ever issued

VARIABLES page, server, flight

vars == <<page, server, flight>>

Tokens == 1..MaxTokens

Ops == {"check", "capabilities", "data", "logout", "login", "profile", "refresh"}

(* "ok" carries what the server set: an access token, or None.              *)
States == {"sent", "ok", "unauthorized", "error", "waiting"}

(* access is the cookie a request goes out with, retried whether it went    *)
(* out again after a refresh, mounted whether the provider that waits for   *)
(* it is still there.                                                       *)
Call == [op : Ops, slot : Slots \cup {None}, state : States, access : Tokens \cup {None}, refresh : BOOLEAN,
         issued : Tokens \cup {None}, retried : BOOLEAN, mounted : BOOLEAN]

(* The provider's state, and the cookies of the browser.                    *)
Page == [route : {"dashboard", "login"}, user : BOOLEAN, isLoading : BOOLEAN, refreshInFlight : BOOLEAN,
         access : Tokens \cup {None}, refresh : BOOLEAN]

Server == [valid : SUBSET Tokens, issued : 0..MaxTokens, refreshable : BOOLEAN]

TypeOK == page \in Page /\ server \in Server /\ flight \subseteq Call

-----------------------------------------------------------------------------
(* Endpoints that must never trigger a refresh. *)
SESSION_ENDPOINTS == {"login", "logout", "refresh"}

Refreshes == {c \in flight : c.op = "refresh"}
Waiting == {c \in flight : c.state = "waiting"}

Free == Slots \ {c.slot : c \in flight}
ASlot == CHOOSE slot \in Free : TRUE

(* fetch, with the cookies as they are. *)
Fetched(op, slot, p) ==
  [op |-> op, slot |-> slot, state |-> "sent", access |-> p.access, refresh |-> p.refresh,
   issued |-> None, retried |-> FALSE, mounted |-> TRUE]

Begin(op) ==
  /\ Free # {} /\ flight' = flight \cup {Fetched(op, ASlot, page)}
  /\ UNCHANGED <<page, server>>

(* Whatever the dashboard asks for, and the capabilities that the tenant     *)
(* context asks for again.                                                  *)
ask == page.route = "dashboard" /\ page.user /\ (Begin("data") \/ Begin("capabilities"))

logout == page.route = "dashboard" /\ page.user /\ Begin("logout")

login == page.route = "login" /\ ~(\E c \in flight : c.mounted /\ c.op \in {"login", "profile"}) /\ Begin("login")

-----------------------------------------------------------------------------
(* The server, and what becomes of its answers on the way. *)

Answer(c, answered) == flight' = (flight \ {c}) \cup {answered}

(* The cookies are read, and nothing is remembered of them: tokens are not   *)
(* revoked by a logout, and a refresh does not invalidate what it replaces. *)
Serve(c) ==
  /\ c.state = "sent" /\ c.op \notin {"login", "refresh"}
  /\ Answer(c, [c EXCEPT !.state = IF c.access \in server.valid THEN "ok" ELSE "unauthorized"])
  /\ UNCHANGED <<page, server>>

Issue(c) ==
  /\ server.issued < MaxTokens
  /\ server' = [server EXCEPT !.issued = @ + 1, !.valid = @ \cup {server.issued + 1},
                              !.refreshable = @ \/ c.op = "login"]
  /\ Answer(c, [c EXCEPT !.state = "ok", !.issued = server.issued + 1])
  /\ UNCHANGED page

ServeLogin(c) == c.state = "sent" /\ c.op = "login" /\ Issue(c)

ServeRefresh(c) ==
  /\ c.state = "sent" /\ c.op = "refresh"
  /\ IF c.refresh /\ server.refreshable THEN Issue(c)
     ELSE Answer(c, [c EXCEPT !.state = "unauthorized"]) /\ UNCHANGED <<page, server>>

(* Another failure, before or after the server has done what it does. *)
Lose(c) ==
  /\ c.state \in {"sent", "ok"}
  /\ Answer(c, [c EXCEPT !.state = "error", !.issued = None])
  /\ UNCHANGED <<page, server>>

Expire ==
  /\ \E token \in server.valid : server' = [server EXCEPT !.valid = @ \ {token}]
  /\ UNCHANGED <<page, flight>>

(* The refresh token's own end, which a refresh in time puts off. *)
ExpireRefresh ==
  /\ server.refreshable
  /\ server' = [server EXCEPT !.refreshable = FALSE]
  /\ UNCHANGED <<page, flight>>

-----------------------------------------------------------------------------
(* request: a 401 waits for the refresh in flight, or starts one. *)

Refreshable(c) == c.state = "unauthorized" /\ ~c.retried /\ c.op \notin SESSION_ENDPOINTS

(* mutant: every 401 starts a refresh of its own *)
refreshSessionAlways(c) ==
  /\ Refreshable(c)
  /\ flight' = (flight \ {c}) \cup {[c EXCEPT !.state = "waiting"], Fetched("refresh", c.slot, page)}
  /\ page' = [page EXCEPT !.refreshInFlight = TRUE]
  /\ UNCHANGED server

refreshSession(c) ==
  /\ Refreshable(c)
  /\ flight' = (flight \ {c}) \cup {[c EXCEPT !.state = "waiting"]}
       \cup (IF page.refreshInFlight THEN {} ELSE {Fetched("refresh", None, page)})
  /\ page' = [page EXCEPT !.refreshInFlight = TRUE]
  /\ UNCHANGED server

(* What a request that succeeds, or throws, does to the user; a provider    *)
(* that is gone changes nothing.                                            *)
Succeeds(c, p) ==
  IF ~c.mounted THEN p
  ELSE CASE c.op \in {"check", "capabilities", "profile"} -> [p EXCEPT !.user = TRUE, !.isLoading = FALSE]
         [] c.op = "logout" -> [p EXCEPT !.user = FALSE]
         [] OTHER -> p

(* mutant: asking for the capabilities decides who is signed in, as the check does *)
ThrowsChecking(c, p) ==
  IF ~c.mounted THEN p
  ELSE CASE c.op \in {"check", "capabilities"} -> [p EXCEPT !.user = FALSE, !.isLoading = FALSE]
         [] c.op = "logout" -> [p EXCEPT !.user = FALSE]
         [] OTHER -> p

Throws(c, p) ==
  IF ~c.mounted THEN p
  ELSE CASE c.op = "check" -> [p EXCEPT !.user = FALSE, !.isLoading = FALSE]
         [] c.op = "logout" -> [p EXCEPT !.user = FALSE]
         [] OTHER -> p

(* The refresh is answered: all that wait for it go out again, once, with   *)
(* the cookies it brought.                                                  *)
Refreshed(r) ==
  LET p == [page EXCEPT !.refreshInFlight = FALSE, !.access = r.issued, !.refresh = TRUE] IN
  /\ r.op = "refresh" /\ r.state = "ok"
  /\ page' = p
  /\ flight' = (flight \ ({r} \cup Waiting))
       \cup {[Fetched(c.op, c.slot, p) EXCEPT !.retried = TRUE, !.mounted = c.mounted] : c \in Waiting}
  /\ UNCHANGED server

(* It failed: each of them tells the handler that the session has expired,  *)
(* the provider's that is mounted by now, and throws.                       *)
RefreshFailed(r) ==
  /\ r.op = "refresh" /\ r.state \in {"unauthorized", "error"}
  /\ page' = [page EXCEPT !.refreshInFlight = FALSE, !.user = FALSE,
                          !.isLoading = @ /\ ~\E c \in Waiting : c.op = "check" /\ c.mounted]
  /\ flight' = flight \ ({r} \cup Waiting)
  /\ UNCHANGED server

(* A login goes on to ask for the profile, with the cookies it set.         *)
LoggedIn(c) ==
  LET p == [page EXCEPT !.access = c.issued, !.refresh = TRUE] IN
  /\ c.op = "login" /\ c.state = "ok"
  /\ page' = p
  /\ flight' = (flight \ {c}) \cup {Fetched("profile", c.slot, p)}
  /\ UNCHANGED server

(* With the profile the login page leaves for the dashboard, whose layout   *)
(* brings a provider of its own: it checks who is signed in anew.           *)
ProfileFetched(c) ==
  /\ c.op = "profile" /\ c.state = "ok" /\ page.route = "login"
  /\ page' = [page EXCEPT !.route = "dashboard", !.user = FALSE, !.isLoading = TRUE]
  /\ flight' = {[d EXCEPT !.mounted = FALSE] : d \in flight \ {c}} \cup {Fetched("check", c.slot, page)}
  /\ UNCHANGED server

Succeeded(c) ==
  /\ c.op \notin {"login", "profile", "refresh"} /\ c.state = "ok"
  /\ page' = Succeeds(c, IF c.op = "logout" THEN [page EXCEPT !.access = None, !.refresh = FALSE] ELSE page)
  /\ flight' = flight \ {c}
  /\ UNCHANGED server

Failed(c) ==
  /\ c.op # "refresh" /\ c.state \in {"unauthorized", "error"} /\ ~Refreshable(c)
  /\ page' = Throws(c, page)
  /\ flight' = flight \ {c}
  /\ UNCHANGED server

(* The guard.  The login page's provider is another one, and checks, too.   *)
Redirect ==
  /\ page.route = "dashboard" /\ ~page.user /\ ~page.isLoading
  /\ page' = [page EXCEPT !.route = "login", !.isLoading = TRUE]
  /\ Free # {} /\ flight' = {[c EXCEPT !.mounted = FALSE] : c \in flight} \cup {Fetched("check", ASlot, page)}
  /\ UNCHANGED server

-----------------------------------------------------------------------------
(* The dashboard is opened with cookies of an earlier session. *)
Init ==
  /\ page = [route |-> "dashboard", user |-> FALSE, isLoading |-> TRUE, refreshInFlight |-> FALSE,
             access |-> 1, refresh |-> TRUE]
  /\ server = [valid |-> {1}, issued |-> 1, refreshable |-> TRUE]
  /\ flight = {Fetched("check", CHOOSE slot \in Slots : TRUE, page)}

Next ==
  \/ ask \/ logout \/ login \/ Redirect
  \/ Expire \/ ExpireRefresh
  \/ \E c \in flight :
       \/ Serve(c) \/ ServeLogin(c) \/ ServeRefresh(c) \/ Lose(c)
       \/ refreshSession(c) \/ Refreshed(c) \/ RefreshFailed(c)
       \/ LoggedIn(c) \/ ProfileFetched(c) \/ Succeeded(c) \/ Failed(c)

Spec == Init /\ [][Next]_vars

-----------------------------------------------------------------------------
(* Properties *)

(* "a shared promise keeps a burst of 401s from firing a burst of           *)
(* refreshes": there is at most one, requests wait for it only while there  *)
(* is, and the client knows whether there is.                               *)
OneRefresh ==
  /\ page.refreshInFlight <=> Refreshes # {}
  /\ \A r, s \in Refreshes : r = s
  /\ Waiting # {} => Refreshes # {}

(* "A transient failure here shouldn't sign anyone out": the user is given  *)
(* up only by a logout or a refresh that failed, or for a new provider.     *)
KeepsUser ==
  page.user /\ ~page'.user /\ page'.route = page.route =>
    \E c \in flight \ flight' :
      \/ c.op = "logout"
      \/ c.op = "refresh" /\ c.state # "ok"

SessionKept == [][KeepsUser]_vars
=============================================================================
