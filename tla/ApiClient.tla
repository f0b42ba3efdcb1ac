----------------------------- MODULE ApiClient -----------------------------
(***************************************************************************)
(* The session of a browser: apiFetch, login, register and the token       *)
(* refresh of frontend/src/lib, which several pages and tabs run           *)
(* concurrently over one localStorage entry, against the stateless tokens  *)
(* of the backend's AuthService.                                           *)
(*                                                                         *)
(* A token is the serial number of its pair: signTokens issues an access   *)
(* and a refresh token for the same user at once.  Tokens of a kind live   *)
(* equally long, so they expire in the order they were issued, and an      *)
(* access token (15 min) expires before its refresh token (7 days).        *)
(***************************************************************************)
EXTENDS Naturals, Sequences, FiniteSets

CONSTANTS
  Users, Nobody,
  Registered,   \* the users with an account from the start
  Calls,        \* apiFetch calls that may be in flight at once
  MaxTokens     \* bound: token pairs issued

ASSUME UsersAssumption ==
  /\ Nobody \notin Users
  /\ Registered \subseteq Users
ASSUME CallsAssumption ==
  /\ IsFiniteSet(Calls)
  /\ MaxTokens \in Nat

VARIABLES
  storage,      \* localStorage: the session
  call,         \* per call: where its apiFetch is
  accounts,     \* User rows
  issued,       \* the user of each token pair
  accessEnd,    \* the last pair whose access token has expired
  refreshEnd,   \* the last pair whose refresh token has expired
  mixed,        \* history: were another user's tokens merged into the session?
  mixedCalls    \* history: the calls in flight that use such a session

server == <<accounts, issued, accessEnd, refreshEnd>>
history == <<mixed, mixedCalls>>
vars == <<storage, call, server, history>>

\* An operation any page asks for; one that needs the admin token, which is
\* refused with the same status 401; and signing in.
Request == [op : {"act", "admin"}] \cup [op : {"login", "register"}, user : Users]
SigningIn(request) == request.op \in {"login", "register"}

NoSession == [token |-> 0, player |-> Nobody]
Session == [token : 1 .. MaxTokens, player : Users]
Idle == [step |-> "idle"]

\* `session` is what the first apiFetch loaded, `bearer` the token sent last,
\* `token` the pair in the last answer, `runs` for whom the server executed it.
InFlight == [step : {"sent", "answered", "refreshing", "refreshed"},
             request : Request, session : Session \cup {NoSession},
             bearer : 0 .. MaxTokens, retry : BOOLEAN,
             status : {"none", "ok", "unauthorized", "rejected"},
             token : 0 .. MaxTokens, runs : Seq(Users \cup {Nobody})]

(* The session, the calls and the tokens are well-formed, and no token is  *)
(* used that was not issued.                                               *)
TypeOK ==
  /\ storage \in Session \cup {NoSession}
  /\ call \in [Calls -> InFlight \cup {Idle}]
  /\ accounts \subseteq Users
  /\ issued \in Seq(Users) /\ Len(issued) <= MaxTokens
  /\ accessEnd \in 0 .. Len(issued) /\ refreshEnd \in 0 .. accessEnd
  /\ storage.token <= Len(issued)
  /\ \A c \in Calls : call[c] # Idle =>
       /\ call[c].session.token <= Len(issued)
       /\ call[c].bearer <= Len(issued) /\ call[c].token <= Len(issued)
  /\ mixed \in BOOLEAN /\ mixedCalls \subseteq Calls

Init ==
  /\ storage = NoSession
  /\ call = [c \in Calls |-> Idle]
  /\ accounts = Registered
  /\ issued = <<>>
  /\ accessEnd = 0 /\ refreshEnd = 0
  /\ mixed = FALSE /\ mixedCalls = {}

-----------------------------------------------------------------------------
(* The server.                                                             *)

Authorized(token) == token > accessEnd
Refreshable(token) == token > refreshEnd

\* JwtAuthGuard, AuthService, PlanetService and UniverseController: how a
\* request may end.  Asking for another user's planet is "unauthorized" as well.
Outcomes(request, bearer) ==
  CASE request.op = "act" ->
         IF Authorized(bearer) THEN {"ok", "unauthorized", "rejected"}
         ELSE {"unauthorized"}
    [] request.op = "admin" -> {"ok", "unauthorized"}
    [] request.op = "login" ->
         IF request.user \in accounts THEN {"ok", "unauthorized"}
         ELSE {"unauthorized"}
    [] request.op = "register" ->
         IF request.user \in accounts THEN {"rejected"} ELSE {"ok", "rejected"}

\* For whom the server executes a request.
Subject(request, bearer) ==
  CASE request.op = "act" -> issued[bearer]
    [] request.op = "admin" -> Nobody
    [] OTHER -> request.user   \* signing in

\* signTokens; the bound is kept by Begin.
Issue(user) == Len(issued) < MaxTokens /\ issued' = Append(issued, user)

Answer(c) ==
  LET x == call[c]
  IN  /\ x.step = "sent"
      /\ \E status \in Outcomes(x.request, x.bearer) :
           LET signedIn == status = "ok" /\ SigningIn(x.request)
           IN  /\ IF signedIn THEN Issue(x.request.user) ELSE UNCHANGED issued
               /\ accounts' = IF signedIn THEN accounts \cup {x.request.user}
                              ELSE accounts
               /\ call' = [call EXCEPT ![c] =
                    [x EXCEPT !.step = "answered", !.status = status,
                              !.token = IF signedIn THEN Len(issued') ELSE 0,
                              !.runs = IF status # "ok" THEN @
                                       ELSE Append(@, Subject(x.request, x.bearer))]]
      /\ UNCHANGED <<storage, accessEnd, refreshEnd, history>>

\* AuthService.refresh looks at the token only.
AnswerRefresh(c) ==
  LET old == call[c].session.token
  IN  /\ call[c].step = "refreshing"
      /\ IF Refreshable(old) THEN Issue(issued[old]) ELSE UNCHANGED issued
      /\ call' = [call EXCEPT ![c].step = "refreshed",
                              ![c].token = IF Refreshable(old) THEN Len(issued')
                                           ELSE 0]
      /\ UNCHANGED <<storage, accounts, accessEnd, refreshEnd, history>>

ExpireAccess ==
  /\ accessEnd < Len(issued)
  /\ accessEnd' = accessEnd + 1
  /\ UNCHANGED <<storage, call, accounts, issued, refreshEnd, history>>

ExpireRefresh ==
  /\ refreshEnd < accessEnd
  /\ refreshEnd' = refreshEnd + 1
  /\ UNCHANGED <<storage, call, accounts, issued, accessEnd, history>>

-----------------------------------------------------------------------------
(* The client.                                                             *)

Fetch(request, session, bearer, retry, runs) ==
  [step |-> "sent", request |-> request, session |-> session,
   bearer |-> bearer, retry |-> retry, status |-> "none", token |-> 0,
   runs |-> runs]

Busy == {c \in Calls : call[c] # Idle}

\* A call issues at most two pairs.
MayBegin == Len(issued) + 2 * (Cardinality(Busy) + 1) <= MaxTokens   \* bound

Begin(c) ==
  /\ call[c] = Idle /\ MayBegin
  /\ \E request \in Request :
       call' = [call EXCEPT ![c] =
         Fetch(request, storage, storage.token, TRUE, <<>>)]
  /\ mixedCalls' = IF mixed THEN mixedCalls \cup {c} ELSE mixedCalls
  /\ UNCHANGED <<storage, server, mixed>>

End(c) ==
  /\ call' = [call EXCEPT ![c] = Idle]
  /\ mixedCalls' = mixedCalls \ {c}

\* A variant that keeps what the former user left.
SessionOfTokens(c) == [storage EXCEPT !.token = call[c].token]

\* What login and register save.
NewSession(c) == [token |-> call[c].token, player |-> call[c].request.user]

NeedsRefresh(c) ==
  call[c].status = "unauthorized" /\ call[c].session # NoSession /\ call[c].retry

Receive(c) ==
  /\ call[c].step = "answered"
  /\ IF NeedsRefresh(c)
     THEN call' = [call EXCEPT ![c].step = "refreshing"] /\ UNCHANGED mixedCalls
     ELSE End(c)
  /\ IF call[c].status = "ok" /\ SigningIn(call[c].request)
     THEN storage' = NewSession(c) /\ mixed' = FALSE
     ELSE UNCHANGED <<storage, mixed>>
  /\ UNCHANGED server

\* A variant that does not look whether there still is a session.
UpdateTokensAlways(session, token) == [session EXCEPT !.token = token]

\* updateTokens, on what localStorage holds when the refresh is answered.
UpdateTokens(session, token) ==
  IF session = NoSession THEN NoSession ELSE [session EXCEPT !.token = token]

\* The tokens the call has got are not of the user the session now is of: the
\* call was made in the session of another one, or in a mixed one.
Mixes(c) ==
  /\ storage # NoSession
  /\ c \in mixedCalls \/ call[c].session.player # storage.player
Mingle(c) ==
  /\ mixed' = Mixes(c)
  /\ mixedCalls' = IF Mixes(c) THEN mixedCalls \cup {c} ELSE mixedCalls

\* A variant whose second apiFetch may be retried like the first.
RetryOnAndOn(c) ==
  /\ call[c].step = "refreshed" /\ call[c].token # 0
  /\ storage' = UpdateTokens(storage, call[c].token)
  /\ call' = [call EXCEPT ![c] = Fetch(call[c].request, call[c].session,
                                       storage'.token, TRUE, call[c].runs)]
  /\ Mingle(c)
  /\ UNCHANGED server

\* The second and last apiFetch sends what localStorage then holds.
Retry(c) ==
  /\ call[c].step = "refreshed" /\ call[c].token # 0
  /\ storage' = UpdateTokens(storage, call[c].token)
  /\ call' = [call EXCEPT ![c] = Fetch(call[c].request, call[c].session,
                                       storage'.token, FALSE, call[c].runs)]
  /\ Mingle(c)
  /\ UNCHANGED server

\* A variant that refreshes until it succeeds.
RefreshAgain(c) ==
  /\ call[c].step = "refreshed" /\ call[c].token = 0
  /\ call' = [call EXCEPT ![c].step = "refreshing"]
  /\ UNCHANGED <<storage, server, history>>

GiveUp(c) ==
  /\ call[c].step = "refreshed" /\ call[c].token = 0
  /\ storage' = NoSession /\ mixed' = FALSE
  /\ End(c)
  /\ UNCHANGED server

\* A variant that sends a request again when the network fails.
ResendLost(c) ==
  /\ call[c].step \in {"sent", "answered"}
  /\ call' = [call EXCEPT ![c].step = "sent"]
  /\ UNCHANGED <<storage, server, history>>

\* fetch rejects, before or after the server has executed the request, or the
\* page is closed.
Lose(c) ==
  /\ call[c].step \in {"sent", "answered"}
  /\ End(c)
  /\ UNCHANGED <<storage, server, mixed>>

\* refreshToken catches: a refresh that fails in the network is refused.
LoseRefresh(c) ==
  /\ call[c].step \in {"refreshing", "refreshed"}
  /\ call' = [call EXCEPT ![c].step = "refreshed", ![c].token = 0]
  /\ UNCHANGED <<storage, server, history>>

\* The page is closed while it refreshes.
Close(c) ==
  /\ call[c].step \in {"refreshing", "refreshed"}
  /\ End(c)
  /\ UNCHANGED <<storage, server, mixed>>

Logout ==
  /\ storage' = NoSession /\ mixed' = FALSE
  /\ UNCHANGED <<call, server, mixedCalls>>

Progress(c) == Answer(c) \/ AnswerRefresh(c) \/ Receive(c) \/ Retry(c) \/ GiveUp(c)

Next ==
  \/ \E c \in Calls :
       Begin(c) \/ Progress(c) \/ Lose(c) \/ LoseRefresh(c) \/ Close(c)
  \/ Logout \/ ExpireAccess \/ ExpireRefresh

Spec == Init /\ [][Next]_vars

\* Requests are answered or rejected, and the page runs what awaits them.
FairSpec == Spec /\ \A c \in Calls : WF_vars(Progress(c))

-----------------------------------------------------------------------------

(* After a logout, or after a refresh that failed, only signing in gives   *)
(* the browser a session: the answer to a refresh that was under way in    *)
(* another page does not revive it (updateTokens reads localStorage        *)
(* again).                                                                 *)
SignsIn(c) ==
  call[c].step = "answered" /\ call[c].status = "ok" /\ SigningIn(call[c].request)
LogoutSticks ==
  [][storage = NoSession /\ storage' # NoSession =>
       \E c \in Calls : SignsIn(c) /\ storage' = NewSession(c)]_vars

(* The retry after a refresh never repeats a request that was executed: an *)
(* order is placed at most once per call of apiFetch.                      *)
ExecutedAtMostOnce ==
  \A c \in Calls : call[c] # Idle => Len(call[c].runs) <= 1

(* A call ends: it is retried once, however often its token is refused.    *)
CallEnds == \A c \in Calls : call[c] # Idle ~> call[c] = Idle

\* At most so many of its own steps are left of a call.
StepsLeft(x) ==
  CASE x.step = "sent" -> IF x.retry THEN 7 ELSE 3
    [] x.step = "answered" -> IF x.retry THEN 6 ELSE 2
    [] x.step = "refreshing" -> 5
    [] x.step = "refreshed" -> IF x.token # 0 THEN 4 ELSE 1
    [] x.step = "idle" -> 0

Advance ==
  \A c \in Calls : call[c] # Idle /\ call'[c] # call[c] =>
    StepsLeft(call'[c]) < StepsLeft(call[c])

(* No answer, loss or expiry takes a call back: each of its steps brings   *)
(* it nearer to its end, the retry after a refresh included.               *)
CallAdvances == [][Advance]_vars

(* The tokens and the profile of the session belong to the same user, also *)
(* when users sign in and out while calls are in flight, except after the  *)
(* one step that can mix them: a retry merges the refreshed tokens of a    *)
(* former session into the session another user has opened since, which it *)
(* is until somebody signs in or out.                                      *)
SessionOfOneUser ==
  storage # NoSession /\ ~mixed => issued[storage.token] = storage.player

(* A request is executed for the user in whose session it was made, never  *)
(* for one who has signed in since, although the retry loads the session   *)
(* again; except when its own retry mixes the two, or when it was made in  *)
(* a session that was already mixed.                                       *)
ActsForItsUser ==
  \A c \in Calls \ mixedCalls : call[c] # Idle /\ call[c].request.op = "act" =>
    \A k \in 1 .. Len(call[c].runs) : call[c].runs[k] = call[c].session.player
=============================================================================
