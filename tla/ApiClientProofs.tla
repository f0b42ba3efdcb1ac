--------------------------- MODULE ApiClientProofs ---------------------------
(***************************************************************************)
(* Theorems about ApiClient, for any number of users, calls and tokens.    *)
(***************************************************************************)
EXTENDS ApiClient, TLAPS

-----------------------------------------------------------------------------
(* Types.                                                                  *)

Steps == {"sent", "answered", "refreshing", "refreshed"}

HistoryOK == mixed \in BOOLEAN /\ mixedCalls \subseteq Calls

\* Token pairs are only added.
Issues == \/ UNCHANGED issued
          \/ \E user \in Users : Issue(user)

\* One call moves, and mentions only tokens that are issued.
Moves(c, r) ==
  /\ call' = [call EXCEPT ![c] = r]
  /\ r \in InFlight \cup {Idle}
  /\ r # Idle => /\ r.session.token <= Len(issued')
                 /\ r.bearer <= Len(issued') /\ r.token <= Len(issued')

(* A call that has taken a step is in flight.                              *)
LEMMA FlightType ==
  ASSUME TypeOK, NEW c \in Calls, call[c] # Idle
  PROVE  /\ call[c] \in InFlight
         /\ call[c].step \in Steps
         /\ call[c].session \in Session \cup {NoSession}
         /\ call[c].session.token \in 0 .. Len(issued)
         /\ call[c].bearer \in 0 .. Len(issued)
         /\ call[c].token \in 0 .. Len(issued)
         /\ Len(issued) \in Nat /\ Len(issued) <= MaxTokens
<1>1. call[c] \in InFlight
  BY DEF TypeOK
<1>2. /\ call[c].session \in Session \cup {NoSession}
      /\ call[c].bearer \in 0 .. MaxTokens /\ call[c].token \in 0 .. MaxTokens
      /\ call[c].step \in Steps
  BY <1>1 DEF InFlight, Steps
<1>3. call[c].session.token \in 0 .. MaxTokens
  BY <1>2, CallsAssumption DEF Session, NoSession
<1>4. Len(issued) \in Nat
  BY DEF TypeOK
<1> QED
  BY <1>1, <1>2, <1>3, <1>4, CallsAssumption DEF TypeOK

(* The tokens a step adds come after the ones there were.                  *)
LEMMA IssuesType ==
  ASSUME TypeOK, Issues
  PROVE  /\ issued' \in Seq(Users) /\ Len(issued') \in Nat
         /\ Len(issued') <= MaxTokens
         /\ Len(issued) <= Len(issued')
         /\ \A k \in 1 .. Len(issued) : issued'[k] = issued[k]
<1>1. issued \in Seq(Users) /\ Len(issued) \in Nat /\ Len(issued) <= MaxTokens
  BY DEF TypeOK
<1>2. CASE UNCHANGED issued
  BY <1>1, <1>2
<1>3. ASSUME NEW user \in Users, Issue(user)
      PROVE  /\ issued' \in Seq(Users) /\ Len(issued') \in Nat
             /\ Len(issued') <= MaxTokens
             /\ Len(issued) <= Len(issued')
             /\ \A k \in 1 .. Len(issued) : issued'[k] = issued[k]
  <2>1. issued' = Append(issued, user) /\ Len(issued) < MaxTokens
    BY <1>3 DEF Issue
  <2>2. issued' \in Seq(Users) /\ Len(issued') = Len(issued) + 1
    BY <1>1, <2>1
  <2> QED
    BY <1>1, <2>1, <2>2, CallsAssumption
<1> QED
  BY <1>2, <1>3 DEF Issues

(* A step that moves one call keeps the types.                             *)
LEMMA MoveType ==
  ASSUME TypeOK, Issues, NEW c \in Calls, NEW r, Moves(c, r), HistoryOK',
         storage' \in Session \cup {NoSession}, storage'.token <= Len(issued'),
         accounts' \subseteq Users, UNCHANGED <<accessEnd, refreshEnd>>
  PROVE  TypeOK'
<1>1. /\ issued' \in Seq(Users) /\ Len(issued') \in Nat
      /\ Len(issued) \in Nat
      /\ Len(issued') <= MaxTokens /\ Len(issued) <= Len(issued')
  BY IssuesType DEF TypeOK
<1>2. call' \in [Calls -> InFlight \cup {Idle}]
  BY DEF TypeOK, Moves
<1>3. accessEnd' \in 0 .. Len(issued') /\ refreshEnd' \in 0 .. accessEnd'
  BY <1>1 DEF TypeOK
<1>4. ASSUME NEW d \in Calls, call'[d] # Idle
      PROVE  /\ call'[d].session.token <= Len(issued')
             /\ call'[d].bearer <= Len(issued') /\ call'[d].token <= Len(issued')
  <2>1. CASE d = c
    BY <1>4, <2>1 DEF Moves, TypeOK
  <2>2. CASE d # c
    <3>1. call'[d] = call[d]
      BY <2>2 DEF Moves, TypeOK
    <3> QED
      BY <1>1, <1>4, <3>1, FlightType
  <2> QED
    BY <2>1, <2>2
<1> QED
  BY <1>1, <1>2, <1>3, <1>4 DEF TypeOK, HistoryOK, Idle

(* An answer keeps the types: an authorized request has an issued token.   *)
LEMMA AnswerType ==
  ASSUME TypeOK, NEW c \in Calls, Answer(c), HistoryOK'
  PROVE  TypeOK' /\ Issues
<1> DEFINE x == call[c]
<1>1. x # Idle
  BY DEF Answer, Idle
<1>2. /\ x \in InFlight /\ x.request \in Request
      /\ x.bearer \in 0 .. Len(issued) /\ x.session.token \in 0 .. Len(issued)
      /\ x.runs \in Seq(Users \cup {Nobody})
  BY <1>1, FlightType DEF InFlight
<1>3. PICK status \in Outcomes(x.request, x.bearer) :
        LET signedIn == status = "ok" /\ SigningIn(x.request)
        IN  /\ IF signedIn THEN Issue(x.request.user) ELSE UNCHANGED issued
            /\ accounts' = IF signedIn THEN accounts \cup {x.request.user}
                           ELSE accounts
            /\ call' = [call EXCEPT ![c] =
                 [x EXCEPT !.step = "answered", !.status = status,
                           !.token = IF signedIn THEN Len(issued') ELSE 0,
                           !.runs = IF status # "ok" THEN @
                                    ELSE Append(@, Subject(x.request, x.bearer))]]
  BY DEF Answer
<1> DEFINE signedIn == status = "ok" /\ SigningIn(x.request)
           runs == IF status # "ok" THEN x.runs
                   ELSE Append(x.runs, Subject(x.request, x.bearer))
           token == IF signedIn THEN Len(issued') ELSE 0
           r == [x EXCEPT !.step = "answered", !.status = status,
                          !.token = token, !.runs = runs]
<1>4. SigningIn(x.request) => x.request.user \in Users
  BY <1>2 DEF Request, SigningIn
<1>5. Issues
  BY <1>3, <1>4 DEF Issues
<1>6. Len(issued') \in Nat /\ Len(issued') <= MaxTokens /\ Len(issued) <= Len(issued')
  BY <1>5, IssuesType
<1>7. Len(issued) \in Nat
  BY DEF TypeOK
<1>8. status \in {"ok", "unauthorized", "rejected"}
  BY <1>2 DEF Outcomes, Request
<1>9. status = "ok" => Subject(x.request, x.bearer) \in Users \cup {Nobody}
  <2> SUFFICES ASSUME status = "ok"
               PROVE  Subject(x.request, x.bearer) \in Users \cup {Nobody}
    OBVIOUS
  <2>1. CASE x.request.op = "act"
    <3>1. Authorized(x.bearer)
      BY <2>1 DEF Outcomes
    <3>2. x.bearer \in 1 .. Len(issued)
      BY <1>2, <3>1 DEF Authorized, TypeOK
    <3> QED
      BY <2>1, <3>2 DEF Subject, TypeOK
  <2>2. CASE x.request.op = "admin"
    BY <2>2 DEF Subject
  <2>3. CASE SigningIn(x.request)
    BY <1>4, <2>3 DEF Subject, SigningIn
  <2> QED
    BY <1>2, <2>1, <2>2, <2>3 DEF Request, SigningIn
<1>10. runs \in Seq(Users \cup {Nobody})
  BY <1>2, <1>9
<1>11. token \in 0 .. MaxTokens /\ token <= Len(issued')
  BY <1>6, CallsAssumption
<1>12. call' = [call EXCEPT ![c] = r]
  BY <1>3
<1> HIDE DEF runs, token, signedIn
<1>13. r \in InFlight /\ r.session = x.session /\ r.bearer = x.bearer /\ r.token = token
  BY <1>2, <1>8, <1>10, <1>11 DEF InFlight
<1>14. Moves(c, r)
  BY <1>2, <1>6, <1>7, <1>11, <1>12, <1>13 DEF Moves
<1>15. /\ storage' \in Session \cup {NoSession} /\ storage'.token <= Len(issued')
       /\ UNCHANGED <<accessEnd, refreshEnd>>
  <2>1. storage.token <= Len(issued) /\ storage.token \in Nat
    BY CallsAssumption DEF TypeOK, Session, NoSession
  <2> QED
    BY <1>6, <1>7, <2>1 DEF Answer, TypeOK
<1>16. accounts' \subseteq Users
  BY <1>3, <1>4 DEF TypeOK
<1> HIDE DEF r
<1> QED
  BY <1>5, <1>14, <1>15, <1>16, MoveType

(* The answer to a refresh keeps the types.                                *)
LEMMA AnswerRefreshType ==
  ASSUME TypeOK, NEW c \in Calls, AnswerRefresh(c), HistoryOK'
  PROVE  TypeOK' /\ Issues
<1> DEFINE x == call[c]
           token == IF Refreshable(x.session.token) THEN Len(issued') ELSE 0
           r == [x EXCEPT !.step = "refreshed", !.token = token]
<1>1. x # Idle
  BY DEF AnswerRefresh, Idle
<1>2. /\ x \in InFlight /\ x.bearer \in 0 .. Len(issued)
      /\ x.session.token \in 0 .. Len(issued) /\ Len(issued) \in Nat
  BY <1>1, FlightType
<1>3. Issues
  <2>1. CASE Refreshable(x.session.token)
    <3>1. x.session.token \in 1 .. Len(issued)
      BY <1>2, <2>1 DEF Refreshable, TypeOK
    <3>2. issued[x.session.token] \in Users
      BY <3>1 DEF TypeOK
    <3> QED
      BY <2>1, <3>2 DEF AnswerRefresh, Issues
  <2>2. CASE ~Refreshable(x.session.token)
    BY <2>2 DEF AnswerRefresh, Issues
  <2> QED
    BY <2>1, <2>2
<1>4. Len(issued') \in Nat /\ Len(issued') <= MaxTokens /\ Len(issued) <= Len(issued')
  BY <1>3, IssuesType
<1>5. token \in 0 .. MaxTokens /\ token <= Len(issued')
  BY <1>4, CallsAssumption
<1>6. call' = [call EXCEPT ![c] = r]
  BY <1>1, <1>2 DEF AnswerRefresh, TypeOK
<1> HIDE DEF token
<1>7. r \in InFlight /\ r.session = x.session /\ r.bearer = x.bearer /\ r.token = token
  BY <1>2, <1>5 DEF InFlight
<1>8. Moves(c, r)
  BY <1>2, <1>4, <1>5, <1>6, <1>7 DEF Moves
<1>9. /\ storage' \in Session \cup {NoSession} /\ storage'.token <= Len(issued')
      /\ accounts' \subseteq Users /\ UNCHANGED <<accessEnd, refreshEnd>>
  <2>1. storage.token <= Len(issued) /\ storage.token \in Nat
    BY CallsAssumption DEF TypeOK, Session, NoSession
  <2> QED
    BY <1>2, <1>4, <2>1 DEF AnswerRefresh, TypeOK
<1> HIDE DEF r
<1> QED
  BY <1>3, <1>8, <1>9, MoveType

(* A request is sent with a token of the session, which is issued.         *)
LEMMA FetchType ==
  ASSUME TypeOK, NEW c \in Calls, NEW request \in Request,
         NEW session \in Session \cup {NoSession}, NEW bearer \in 0 .. Len(issued),
         NEW retry \in BOOLEAN, NEW runs \in Seq(Users \cup {Nobody}),
         session.token <= Len(issued), UNCHANGED issued,
         call' = [call EXCEPT ![c] = Fetch(request, session, bearer, retry, runs)]
  PROVE  Moves(c, Fetch(request, session, bearer, retry, runs))
<1> DEFINE r == Fetch(request, session, bearer, retry, runs)
<1>1. Len(issued) \in Nat /\ Len(issued) <= MaxTokens
  BY DEF TypeOK
<1>2. bearer \in 0 .. MaxTokens
  BY <1>1, CallsAssumption
<1>3. r \in InFlight
  BY <1>2, CallsAssumption DEF Fetch, InFlight
<1>4. r.session = session /\ r.bearer = bearer /\ r.token = 0
  BY DEF Fetch
<1> HIDE DEF r
<1> QED
  BY <1>1, <1>3, <1>4 DEF Moves, r

(* The session keeps its type when the client updates its tokens.          *)
LEMMA StorageType ==
  ASSUME TypeOK
  PROVE  /\ storage.token \in 0 .. Len(issued) /\ Len(issued) \in Nat
         /\ \A token \in 1 .. Len(issued) :
              /\ UpdateTokens(storage, token) \in Session \cup {NoSession}
              /\ UpdateTokens(storage, token).token \in 0 .. Len(issued)
<1>1. Len(issued) \in Nat /\ Len(issued) <= MaxTokens
  BY DEF TypeOK
<1>2. storage.token \in 0 .. Len(issued)
  BY <1>1, CallsAssumption DEF TypeOK, Session, NoSession
<1>3. ASSUME NEW token \in 1 .. Len(issued)
      PROVE  /\ UpdateTokens(storage, token) \in Session \cup {NoSession}
             /\ UpdateTokens(storage, token).token \in 0 .. Len(issued)
  <2>1. token \in 1 .. MaxTokens
    BY <1>1, CallsAssumption
  <2>2. CASE storage = NoSession
    BY <1>1, <2>2 DEF UpdateTokens, NoSession
  <2>3. CASE storage # NoSession
    <3>1. storage \in Session
      BY <2>3 DEF TypeOK
    <3>2. UpdateTokens(storage, token) = [storage EXCEPT !.token = token]
      BY <2>3 DEF UpdateTokens
    <3> QED
      BY <1>1, <2>1, <3>1, <3>2 DEF Session
  <2> QED
    BY <2>2, <2>3
<1> QED
  BY <1>1, <1>2, <1>3

(* Beginning a call keeps the types.                                       *)
LEMMA BeginType ==
  ASSUME TypeOK, NEW c \in Calls, Begin(c), HistoryOK'
  PROVE  TypeOK'
<1>1. PICK request \in Request :
        call' = [call EXCEPT ![c] = Fetch(request, storage, storage.token, TRUE, <<>>)]
  BY DEF Begin
<1>2. UNCHANGED <<storage, accounts, issued, accessEnd, refreshEnd>>
  BY DEF Begin, server
<1>3. storage.token \in 0 .. Len(issued) /\ Len(issued) \in Nat
  BY StorageType
<1>4. storage \in Session \cup {NoSession} /\ accounts \subseteq Users
  BY DEF TypeOK
<1>5. <<>> \in Seq(Users \cup {Nobody}) /\ TRUE \in BOOLEAN
  OBVIOUS
<1>6. UNCHANGED issued /\ storage.token <= Len(issued)
  BY <1>2, <1>3
<1> DEFINE r == Fetch(request, storage, storage.token, TRUE, <<>>)
<1>7. Moves(c, r)
  BY <1>1, <1>3, <1>4, <1>5, <1>6, FetchType
<1>8. /\ storage' \in Session \cup {NoSession} /\ storage'.token <= Len(issued')
      /\ accounts' \subseteq Users /\ UNCHANGED <<accessEnd, refreshEnd>>
  BY <1>2, <1>4, <1>6
<1> HIDE DEF r
<1> QED
  BY <1>6, <1>7, <1>8, MoveType DEF Issues

(* A call that ends keeps the types, whatever it leaves in localStorage.   *)
LEMMA EndType ==
  ASSUME TypeOK, NEW c \in Calls, End(c), HistoryOK',
         UNCHANGED <<accounts, issued, accessEnd, refreshEnd>>,
         storage' \in Session \cup {NoSession}, storage'.token <= Len(issued)
  PROVE  TypeOK'
<1>1. Moves(c, Idle)
  BY DEF Moves, End
<1>2. accounts' \subseteq Users
  BY DEF TypeOK
<1> QED
  BY <1>1, <1>2, MoveType DEF Issues

(* A call that goes on without a new token keeps the types.                *)
LEMMA StepType ==
  ASSUME TypeOK, NEW c \in Calls, call[c] # Idle, NEW step \in Steps,
         HistoryOK',
         NEW token \in {0, call[c].token},
         call' = [call EXCEPT ![c] = [call[c] EXCEPT !.step = step, !.token = token]],
         UNCHANGED <<accounts, issued, accessEnd, refreshEnd>>,
         storage' \in Session \cup {NoSession}, storage'.token <= Len(issued)
  PROVE  TypeOK'
<1> DEFINE r == [call[c] EXCEPT !.step = step, !.token = token]
<1>1. /\ call[c] \in InFlight /\ call[c].token \in 0 .. Len(issued)
      /\ call[c].bearer \in 0 .. Len(issued)
      /\ call[c].session.token \in 0 .. Len(issued)
      /\ Len(issued) \in Nat /\ Len(issued) <= MaxTokens
  BY FlightType
<1>2. token \in 0 .. Len(issued) /\ token \in 0 .. MaxTokens
  BY <1>1, CallsAssumption
<1>3. /\ r \in InFlight /\ r.session = call[c].session
      /\ r.bearer = call[c].bearer /\ r.token = token
  BY <1>1, <1>2 DEF InFlight, Steps
<1> HIDE DEF r
<1>4. Moves(c, r)
  BY <1>1, <1>2, <1>3 DEF Moves, r
<1>5. accounts' \subseteq Users
  BY DEF TypeOK
<1> QED
  BY <1>4, <1>5, MoveType DEF Issues

-----------------------------------------------------------------------------
(* One execution, and the invariant the types need.                        *)

\* What a call has done: its request is executed by the answer "ok" only, which
\* has the new tokens when the request signs in.
Executed(x) == x.step = "answered" /\ x.status = "ok"
CallOK(x) == x # Idle =>
  /\ Executed(x) /\ SigningIn(x.request) => x.token # 0
  /\ ~Executed(x) => x.runs = <<>>
  /\ Len(x.runs) <= 1

CallInv == \A c \in Calls : CallOK(call[c])
TypeInv == TypeOK /\ CallInv

(* Receiving an answer keeps the types: a sign-in has new tokens.          *)
LEMMA ReceiveType ==
  ASSUME TypeInv, NEW c \in Calls, Receive(c), HistoryOK'
  PROVE  TypeOK'
<1> USE DEF TypeInv
<1>1. call[c] # Idle /\ UNCHANGED <<accounts, issued, accessEnd, refreshEnd>>
  BY DEF Receive, Idle, server
<1>2. /\ call[c] \in InFlight /\ call[c].request \in Request
      /\ call[c].token \in 0 .. Len(issued) /\ Len(issued) <= MaxTokens
  BY <1>1, FlightType DEF InFlight
<1>3. storage' \in Session \cup {NoSession} /\ storage'.token <= Len(issued)
  <2>1. CASE call[c].status = "ok" /\ SigningIn(call[c].request)
    <3>1. storage' = NewSession(c)
      BY <2>1 DEF Receive
    <3>2. call[c].token # 0
      BY <1>1, <2>1 DEF Receive, CallInv, CallOK, Executed
    <3>3. call[c].request.user \in Users
      BY <1>2, <2>1 DEF Request, SigningIn
    <3>4. Len(issued) \in Nat
      BY DEF TypeOK
    <3>5. call[c].token \in 1 .. MaxTokens
      BY <1>2, <3>2, <3>4, CallsAssumption
    <3> QED
      BY <1>2, <3>1, <3>3, <3>5 DEF NewSession, Session
  <2>2. CASE ~(call[c].status = "ok" /\ SigningIn(call[c].request))
    BY <2>2 DEF Receive, TypeOK
  <2> QED
    BY <2>1, <2>2
<1>4. CASE NeedsRefresh(c)
  <2>1. call' = [call EXCEPT ![c] = [call[c] EXCEPT !.step = "refreshing"]]
    BY <1>4 DEF Receive
  <2>2. [call[c] EXCEPT !.step = "refreshing"]
          = [call[c] EXCEPT !.step = "refreshing", !.token = call[c].token]
    BY <1>2 DEF InFlight
  <2>3. "refreshing" \in Steps /\ call[c].token \in {0, call[c].token}
    BY DEF Steps
  <2>4. call' = [call EXCEPT ![c] =
                   [call[c] EXCEPT !.step = "refreshing", !.token = call[c].token]]
    BY <2>1, <2>2
  <2> QED
    BY <1>1, <1>3, <2>3, <2>4, StepType
<1>5. CASE ~NeedsRefresh(c)
  <2>1. End(c)
    BY <1>5 DEF Receive
  <2> QED
    BY <1>1, <1>3, <2>1, EndType
<1> QED
  BY <1>4, <1>5

(* The retry keeps the types.                                              *)
LEMMA RetryType ==
  ASSUME TypeInv, NEW c \in Calls, Retry(c), HistoryOK'
  PROVE  TypeOK'
<1> DEFINE x == call[c]
           now == UpdateTokens(storage, x.token)
           r == Fetch(x.request, x.session, now.token, FALSE, x.runs)
<1>1. /\ x # Idle /\ x.token # 0 /\ storage' = now
      /\ call' = [call EXCEPT ![c] = r]
      /\ UNCHANGED issued /\ UNCHANGED <<accounts, accessEnd, refreshEnd>>
  BY DEF Retry, Idle, server
<1>2. /\ x.request \in Request /\ x.session \in Session \cup {NoSession}
      /\ x.runs \in Seq(Users \cup {Nobody}) /\ FALSE \in BOOLEAN
      /\ x.session.token \in 0 .. Len(issued) /\ x.token \in 0 .. Len(issued)
      /\ Len(issued) \in Nat
  BY <1>1, FlightType DEF InFlight, TypeInv
<1>3. x.token \in 1 .. Len(issued) /\ x.session.token <= Len(issued)
  BY <1>1, <1>2
<1>4. now \in Session \cup {NoSession} /\ now.token \in 0 .. Len(issued)
  BY <1>3, StorageType DEF TypeInv
<1>5. TypeOK /\ accounts \subseteq Users
  BY DEF TypeInv, TypeOK
<1> HIDE DEF x, now
<1>6. Moves(c, r)
  BY <1>1, <1>2, <1>3, <1>4, <1>5, FetchType
<1>7. storage' \in Session \cup {NoSession} /\ storage'.token <= Len(issued')
  BY <1>1, <1>2, <1>4
<1> HIDE DEF r
<1> QED
  BY <1>1, <1>5, <1>6, <1>7, MoveType DEF Issues

(* Giving up, losing an answer, and closing a page keep the types.         *)
LEMMA OtherType ==
  ASSUME TypeOK, NEW c \in Calls, HistoryOK',
         GiveUp(c) \/ Lose(c) \/ LoseRefresh(c) \/ Close(c)
  PROVE  TypeOK'
<1>1. storage.token <= Len(issued) /\ Len(issued) \in Nat
  BY DEF TypeOK
<1>2. storage \in Session \cup {NoSession}
  BY DEF TypeOK
<1>3. NoSession \in Session \cup {NoSession} /\ NoSession.token <= Len(issued)
  BY <1>1 DEF NoSession
<1>4. UNCHANGED <<accounts, issued, accessEnd, refreshEnd>>
  BY DEF GiveUp, Lose, LoseRefresh, Close, server
<1>5. CASE GiveUp(c)
  <2>1. storage' = NoSession /\ End(c)
    BY <1>5 DEF GiveUp
  <2> QED
    BY <1>3, <1>4, <2>1, EndType
<1>6. CASE Lose(c) \/ Close(c)
  <2>1. storage' = storage /\ End(c)
    BY <1>6 DEF Lose, Close
  <2> QED
    BY <1>1, <1>2, <1>4, <2>1, EndType
<1>7. CASE LoseRefresh(c)
  <2>1. storage' = storage /\ call[c] # Idle
    BY <1>7 DEF LoseRefresh, Idle
  <2>2. call' = [call EXCEPT ![c] = [call[c] EXCEPT !.step = "refreshed", !.token = 0]]
    <3>1. call[c] \in InFlight
      BY <2>1, FlightType
    <3> QED
      BY <1>7, <3>1 DEF LoseRefresh, TypeOK, InFlight
  <2>3. "refreshed" \in Steps /\ 0 \in {0, call[c].token}
    BY DEF Steps
  <2> QED
    BY <1>1, <1>2, <1>4, <2>1, <2>2, <2>3, StepType
<1> QED
  BY <1>5, <1>6, <1>7

(* Logging out and the passing of time keep the types.                     *)
LEMMA QuietType ==
  ASSUME TypeOK, Logout \/ ExpireAccess \/ ExpireRefresh, HistoryOK'
  PROVE  TypeOK'
<1>1. /\ Len(issued) \in Nat
      /\ mixed' \in BOOLEAN /\ mixedCalls' \subseteq Calls
  BY DEF TypeOK, HistoryOK
<1>2. CASE Logout
  <2>1. storage' = NoSession /\ UNCHANGED <<call, accounts, issued, accessEnd, refreshEnd>>
    BY <1>2 DEF Logout, server
  <2>2. storage' \in Session \cup {NoSession} /\ storage'.token <= Len(issued)
    BY <1>1, <2>1 DEF NoSession
  <2> QED
    BY <1>1, <2>1, <2>2 DEF TypeOK
<1>3. CASE ExpireAccess
  BY <1>1, <1>3 DEF ExpireAccess, TypeOK
<1>4. CASE ExpireRefresh
  BY <1>1, <1>4 DEF ExpireRefresh, TypeOK
<1> QED
  BY <1>2, <1>3, <1>4

(* Every step keeps the types of what is recorded.                         *)
LEMMA NextHistory ==
  ASSUME TypeOK, [Next]_vars
  PROVE  HistoryOK'
<1>1. HistoryOK
  BY DEF TypeOK, HistoryOK
<1>2. CASE UNCHANGED history
  BY <1>1, <1>2 DEF history, HistoryOK
<1>3. ASSUME NEW c \in Calls, Begin(c) PROVE HistoryOK'
  BY <1>1, <1>3 DEF Begin, HistoryOK
<1>4. ASSUME NEW c \in Calls, Receive(c) PROVE HistoryOK'
  BY <1>1, <1>4 DEF Receive, End, HistoryOK
<1>5. ASSUME NEW c \in Calls, Retry(c) PROVE HistoryOK'
  <2>1. /\ mixed' = Mixes(c)
        /\ mixedCalls' = IF Mixes(c) THEN mixedCalls \cup {c} ELSE mixedCalls
    BY <1>5 DEF Retry, Mingle
  <2>2. Mixes(c) \in BOOLEAN
    BY DEF Mixes
  <2> QED
    BY <1>1, <2>1, <2>2 DEF HistoryOK
<1>6. ASSUME NEW c \in Calls, GiveUp(c) \/ Lose(c) \/ Close(c) PROVE HistoryOK'
  BY <1>1, <1>6 DEF GiveUp, Lose, Close, End, HistoryOK
<1>7. CASE Logout
  BY <1>1, <1>7 DEF Logout, HistoryOK
<1>8. ASSUME NEW c \in Calls, Answer(c) \/ AnswerRefresh(c) \/ LoseRefresh(c)
      PROVE  HistoryOK'
  BY <1>2, <1>8 DEF Answer, AnswerRefresh, LoseRefresh
<1>9. CASE ExpireAccess \/ ExpireRefresh \/ UNCHANGED vars
  BY <1>2, <1>9 DEF ExpireAccess, ExpireRefresh, vars
<1> QED
  BY <1>3, <1>4, <1>5, <1>6, <1>7, <1>8, <1>9 DEF Next, Progress

(* Every step keeps the types.                                             *)
LEMMA NextType ==
  ASSUME TypeInv, [Next]_vars
  PROVE  TypeOK'
<1>1. TypeOK
  BY DEF TypeInv
<1>10. HistoryOK'
  BY NextHistory DEF TypeInv
<1>2. ASSUME NEW c \in Calls, Begin(c) PROVE TypeOK'
  BY <1>1, <1>2, <1>10, BeginType
<1>3. ASSUME NEW c \in Calls, Answer(c) PROVE TypeOK'
  BY <1>1, <1>3, <1>10, AnswerType
<1>4. ASSUME NEW c \in Calls, AnswerRefresh(c) PROVE TypeOK'
  BY <1>1, <1>4, <1>10, AnswerRefreshType
<1>5. ASSUME NEW c \in Calls, Receive(c) PROVE TypeOK'
  BY <1>5, <1>10, ReceiveType
<1>6. ASSUME NEW c \in Calls, Retry(c) PROVE TypeOK'
  BY <1>6, <1>10, RetryType
<1>7. ASSUME NEW c \in Calls, GiveUp(c) \/ Lose(c) \/ LoseRefresh(c) \/ Close(c)
      PROVE  TypeOK'
  BY <1>1, <1>7, <1>10, OtherType
<1>8. CASE Logout \/ ExpireAccess \/ ExpireRefresh
  BY <1>1, <1>8, <1>10, QuietType
<1>9. CASE UNCHANGED vars
  BY <1>1, <1>9 DEF TypeOK, vars, server, history
<1> QED
  BY <1>2, <1>10, <1>3, <1>4, <1>5, <1>6, <1>7, <1>8, <1>9 DEF Next, Progress

(* The steps of a call keep what it has done: the request is sent again    *)
(* only after an answer that says it was not executed.                     *)
LEMMA NextCalls ==
  ASSUME TypeInv, [Next]_vars
  PROVE  CallInv'
<1> USE DEF TypeInv
<1>1. ASSUME NEW c \in Calls, NEW r, call' = [call EXCEPT ![c] = r], CallOK(r)
      PROVE  CallInv'
  <2> SUFFICES ASSUME NEW d \in Calls
               PROVE  CallOK(call'[d])
    BY DEF CallInv
  <2>1. call'[c] = r /\ (d # c => call'[d] = call[d])
    BY <1>1 DEF TypeOK
  <2> QED
    BY <1>1, <2>1 DEF CallInv
<1>2. CallOK(Idle)
  BY DEF CallOK
<1>3. ASSUME NEW request, NEW session, NEW bearer, NEW retry
      PROVE  CallOK(Fetch(request, session, bearer, retry, <<>>))
  BY DEF CallOK, Executed, Fetch
<1>4. ASSUME NEW c \in Calls, Begin(c) PROVE CallInv'
  BY <1>1, <1>3, <1>4 DEF Begin
<1>5. ASSUME NEW c \in Calls, Answer(c) PROVE CallInv'
  <2> DEFINE x == call[c]
  <2>1. PICK status \in Outcomes(x.request, x.bearer) :
          LET signedIn == status = "ok" /\ SigningIn(x.request)
          IN  /\ IF signedIn THEN Issue(x.request.user) ELSE UNCHANGED issued
              /\ call' = [call EXCEPT ![c] =
                   [x EXCEPT !.step = "answered", !.status = status,
                             !.token = IF signedIn THEN Len(issued') ELSE 0,
                             !.runs = IF status # "ok" THEN @
                                      ELSE Append(@, Subject(x.request, x.bearer))]]
    BY <1>5 DEF Answer
  <2> DEFINE signedIn == status = "ok" /\ SigningIn(x.request)
             token == IF signedIn THEN Len(issued') ELSE 0
             runs == IF status # "ok" THEN x.runs
                     ELSE Append(x.runs, Subject(x.request, x.bearer))
             r == [x EXCEPT !.step = "answered", !.status = status,
                            !.token = token, !.runs = runs]
  <2>2. x # Idle /\ x.step = "sent"
    BY <1>5 DEF Answer, Idle
  <2>3. x \in InFlight
    BY <2>2, FlightType
  <2>4. x.runs = <<>>
    BY <2>2 DEF CallInv, CallOK, Executed
  <2>5. /\ status # "ok" => runs = <<>>
        /\ Len(runs) <= 1
    BY <2>4
  <2>6. signedIn => token # 0
    <3> SUFFICES ASSUME signedIn PROVE Len(issued') # 0
      OBVIOUS
    <3>1. issued' = Append(issued, x.request.user) /\ issued \in Seq(Users)
      BY <2>1 DEF Issue, TypeOK
    <3>2. x.request.user \in Users
      BY <2>3 DEF InFlight, Request, SigningIn
    <3>3. Len(issued') = Len(issued) + 1 /\ Len(issued) \in Nat
      BY <3>1, <3>2
    <3> QED
      BY <3>3
  <2>7. call' = [call EXCEPT ![c] = r]
    BY <2>1
  <2> HIDE DEF token, runs
  <2>8. /\ r.step = "answered" /\ r.status = status /\ r.token = token
        /\ r.runs = runs /\ r.request = x.request
    BY <2>3 DEF InFlight
  <2>9. CallOK(r)
    BY <2>5, <2>6, <2>8 DEF CallOK, Executed
  <2> HIDE DEF r
  <2> QED
    BY <1>1, <2>7, <2>9
<1>6. ASSUME NEW c \in Calls, NEW x, NEW step \in Steps \ {"answered"}, NEW token,
             x \in InFlight, x.runs = <<>>,
             call' = [call EXCEPT ![c] = [x EXCEPT !.step = step, !.token = token]]
      PROVE  CallInv'
  <2> DEFINE r == [x EXCEPT !.step = step, !.token = token]
  <2>1. r.step = step /\ r.runs = <<>>
    BY <1>6 DEF InFlight
  <2>2. CallOK(r)
    BY <2>1 DEF CallOK, Executed, Steps
  <2> HIDE DEF r
  <2>3. call' = [call EXCEPT ![c] = r]
    BY <1>6 DEF r
  <2> QED
    BY <1>1, <2>2, <2>3
<1>7. ASSUME NEW c \in Calls, AnswerRefresh(c) \/ LoseRefresh(c) PROVE CallInv'
  <2>1. call[c] # Idle /\ call[c].step # "answered"
    BY <1>7 DEF AnswerRefresh, LoseRefresh, Idle
  <2>2. call[c] \in InFlight /\ call[c].runs = <<>>
    BY <2>1, FlightType DEF CallInv, CallOK, Executed
  <2> DEFINE token == IF AnswerRefresh(c) /\ Refreshable(call[c].session.token)
                      THEN Len(issued') ELSE 0
  <2>3. call' = [call EXCEPT ![c] = [call[c] EXCEPT !.step = "refreshed", !.token = token]]
    BY <1>7, <2>2 DEF AnswerRefresh, LoseRefresh, TypeOK, InFlight
  <2>4. "refreshed" \in Steps \ {"answered"}
    BY DEF Steps
  <2> HIDE DEF token
  <2> QED
    BY <1>6, <2>2, <2>3, <2>4
<1>8. ASSUME NEW c \in Calls, Receive(c) PROVE CallInv'
  <2>1. CASE NeedsRefresh(c)
    <3>1. call[c] # Idle
      BY <1>8 DEF Receive, Idle
    <3>2. call[c] \in InFlight /\ call[c].runs = <<>>
      BY <2>1, <3>1, FlightType DEF NeedsRefresh, CallInv, CallOK, Executed
    <3>3. [call[c] EXCEPT !.step = "refreshing"]
            = [call[c] EXCEPT !.step = "refreshing", !.token = call[c].token]
      BY <3>2 DEF InFlight
    <3>4. call' = [call EXCEPT ![c] =
                     [call[c] EXCEPT !.step = "refreshing", !.token = call[c].token]]
      BY <1>8, <2>1, <3>3 DEF Receive
    <3>5. "refreshing" \in Steps \ {"answered"}
      BY DEF Steps
    <3> QED
      BY <1>6, <3>2, <3>4, <3>5
  <2>2. CASE ~NeedsRefresh(c)
    BY <1>1, <1>2, <1>8, <2>2 DEF Receive, End
  <2> QED
    BY <2>1, <2>2
<1>9. ASSUME NEW c \in Calls, Retry(c) PROVE CallInv'
  <2>1. call[c] # Idle /\ call[c].step # "answered"
    BY <1>9 DEF Retry, Idle
  <2>2. call[c].runs = <<>>
    BY <2>1 DEF CallInv, CallOK, Executed
  <2> QED
    BY <1>1, <1>3, <1>9, <2>2 DEF Retry
<1>10. ASSUME NEW c \in Calls, GiveUp(c) \/ Lose(c) \/ Close(c) PROVE CallInv'
  BY <1>1, <1>2, <1>10 DEF GiveUp, Lose, Close, End
<1>11. CASE Logout \/ ExpireAccess \/ ExpireRefresh \/ UNCHANGED vars
  <2>1. UNCHANGED call
    BY <1>11 DEF Logout, ExpireAccess, ExpireRefresh, vars
  <2> QED
    BY <2>1 DEF CallInv
<1> QED
  BY <1>4, <1>5, <1>7, <1>8, <1>9, <1>10, <1>11 DEF Next, Progress

(* What the types rest on is true from the start and kept by every step.   *)
LEMMA TypeInvariant == Spec => []TypeInv
<1>1. Init => TypeInv
  <2>1. Init => HistoryOK
    BY Zenon DEF Init, HistoryOK
  <2>2. HistoryOK /\ Init => TypeInv
    BY UsersAssumption, CallsAssumption
    DEF Init, HistoryOK, TypeInv, TypeOK, CallInv, CallOK, NoSession, Idle
  <2> QED
    BY <2>1, <2>2
<1>2. TypeInv /\ [Next]_vars => TypeInv'
  BY NextType, NextCalls DEF TypeInv
<1> QED
  BY <1>1, <1>2, PTL DEF Spec

(* Sessions, calls and tokens are well-formed: no page ever uses a token   *)
(* the server has not issued.                                              *)
THEOREM SessionTypes == Spec => []TypeOK
<1>1. TypeInv => TypeOK
  BY DEF TypeInv
<1> QED
  BY <1>1, TypeInvariant, PTL

(* apiFetch executes a request at most once, however calls, refreshes,     *)
(* sign-ins and logouts interleave and whatever the network loses.         *)
THEOREM AtMostOnce == Spec => []ExecutedAtMostOnce
<1>1. TypeInv => ExecutedAtMostOnce
  BY DEF TypeInv, CallInv, CallOK, ExecutedAtMostOnce
<1> QED
  BY <1>1, TypeInvariant, PTL

(* Only a sign-in gives the browser a session; a late refresh does not.    *)
THEOREM LogoutIsFinal == Spec => LogoutSticks
<1> DEFINE A == storage = NoSession /\ storage' # NoSession =>
                  \E c \in Calls : SignsIn(c) /\ storage' = NewSession(c)
<1>1. [Next]_vars => [A]_vars
  <2> SUFFICES ASSUME Next, storage = NoSession, storage' # NoSession
               PROVE  \E c \in Calls : SignsIn(c) /\ storage' = NewSession(c)
    BY DEF vars
  <2>1. ~Logout /\ ~ExpireAccess /\ ~ExpireRefresh
    BY DEF Logout, ExpireAccess, ExpireRefresh
  <2>2. PICK c \in Calls : Begin(c) \/ Progress(c) \/ Lose(c) \/ LoseRefresh(c) \/ Close(c)
    BY <2>1 DEF Next
  <2>3. ~Begin(c) /\ ~Lose(c) /\ ~LoseRefresh(c) /\ ~Close(c)
    BY DEF Begin, Lose, LoseRefresh, Close
  <2>4. ~Answer(c) /\ ~AnswerRefresh(c) /\ ~GiveUp(c) /\ ~Retry(c)
    BY DEF Answer, AnswerRefresh, GiveUp, Retry, UpdateTokens
  <2>5. Receive(c)
    BY <2>2, <2>3, <2>4 DEF Progress
  <2> QED
    BY <2>5 DEF Receive, SignsIn
<1> QED
  BY <1>1, PTL DEF Spec, LogoutSticks

(* When the record of one call in flight is replaced by one that is nearer *)
(* to its end, every call that changes advances.                           *)
LEMMA CallMove ==
  ASSUME TypeOK, NEW c \in Calls, NEW r, call' = [call EXCEPT ![c] = r],
         call[c] = Idle \/ r = call[c] \/ StepsLeft(r) < StepsLeft(call[c]),
         NEW d \in Calls, call[d] # Idle, call'[d] # call[d]
  PROVE  StepsLeft(call'[d]) < StepsLeft(call[d])
<1>1. call'[c] = r /\ (d # c => call'[d] = call[d])
  BY DEF TypeOK
<1> QED
  BY <1>1

(* Every step of a call brings it nearer to its end, so that a call with   *)
(* its refresh and retry takes seven steps at most: what CallEnds rests on.*)
THEOREM CallsAdvance == Spec => CallAdvances
<1>1. TypeInv /\ [Next]_vars => [Advance]_vars
  <2> SUFFICES ASSUME TypeOK, Next
               PROVE  Advance
    BY DEF TypeInv
  <2>1. StepsLeft(Idle) = 0
    BY DEF StepsLeft, Idle
  <2>2. ASSUME NEW c \in Calls, Begin(c) PROVE Advance
    BY <2>2, CallMove DEF Advance, Begin
  <2>3. ASSUME NEW c \in Calls, call[c] # Idle, End(c) PROVE Advance
    <3>1. StepsLeft(call[c]) > 0
      BY <2>3, FlightType DEF StepsLeft, Steps
    <3> QED
      BY <2>1, <2>3, <3>1, CallMove DEF Advance, End
  <2>4. ASSUME NEW c \in Calls, NEW r, call[c] # Idle, call' = [call EXCEPT ![c] = r],
               \/ call[c].step = "sent" /\ r.step = "answered" /\ r.retry = call[c].retry
               \/ call[c].step = "answered" /\ call[c].retry /\ r.step = "refreshing"
               \/ call[c].step = "refreshing" /\ r.step = "refreshed"
               \/ call[c].step = "refreshed" /\ call[c].token # 0
                    /\ r.step = "refreshed" /\ r.token = 0
               \/ call[c].step = "refreshed" /\ call[c].token # 0
                    /\ r.step = "sent" /\ ~r.retry
        PROVE  Advance
    <3>1. StepsLeft(r) < StepsLeft(call[c])
      BY <2>4 DEF StepsLeft
    <3> QED
      BY <2>4, <3>1, CallMove DEF Advance
  <2>5. ASSUME NEW c \in Calls, Answer(c) PROVE Advance
    <3>1. call[c] # Idle /\ call[c].step = "sent"
      BY <2>5 DEF Answer, Idle
    <3>2. call[c] \in InFlight
      BY <3>1, FlightType
    <3>3. PICK status, token, runs :
            call' = [call EXCEPT ![c] =
              [call[c] EXCEPT !.step = "answered", !.status = status,
                              !.token = token, !.runs = runs]]
      BY <2>5 DEF Answer
    <3> DEFINE r == [call[c] EXCEPT !.step = "answered", !.status = status,
                                    !.token = token, !.runs = runs]
    <3>4. r.step = "answered" /\ r.retry = call[c].retry
      BY <3>2 DEF InFlight
    <3>5. call' = [call EXCEPT ![c] = r]
      BY <3>3
    <3> HIDE DEF r
    <3> QED
      BY <2>4, <3>1, <3>4, <3>5
  <2>6. ASSUME NEW c \in Calls, AnswerRefresh(c) \/ LoseRefresh(c) PROVE Advance
    <3>1. call[c] # Idle /\ call[c].step \in {"refreshing", "refreshed"}
      BY <2>6 DEF AnswerRefresh, LoseRefresh, Idle
    <3>2. call[c] \in InFlight
      BY <3>1, FlightType
    <3>3. PICK token :
            /\ call' = [call EXCEPT ![c] = [call[c] EXCEPT !.step = "refreshed", !.token = token]]
            /\ call[c].step = "refreshed" => token = 0
      BY <2>6, <3>2 DEF AnswerRefresh, LoseRefresh, TypeOK, InFlight
    <3> DEFINE r == [call[c] EXCEPT !.step = "refreshed", !.token = token]
    <3>4. /\ r.step = "refreshed" /\ r.token = token
          /\ call[c].step = "refreshed" /\ call[c].token = 0 => r = call[c]
      BY <3>2, <3>3 DEF InFlight
    <3>5. call' = [call EXCEPT ![c] = r]
      BY <3>3
    <3> HIDE DEF r
    <3>6. CASE call[c].step = "refreshed" /\ call[c].token = 0
      BY <3>4, <3>5, <3>6 DEF TypeOK, Advance
    <3>7. CASE ~(call[c].step = "refreshed" /\ call[c].token = 0)
      BY <2>4, <3>1, <3>3, <3>4, <3>5, <3>7
    <3> QED
      BY <3>6, <3>7
  <2>7. ASSUME NEW c \in Calls, Receive(c) PROVE Advance
    <3>1. call[c] # Idle /\ call[c].step = "answered"
      BY <2>7 DEF Receive, Idle
    <3>2. CASE NeedsRefresh(c)
      <4> DEFINE r == [call[c] EXCEPT !.step = "refreshing"]
      <4>1. call[c] \in InFlight
        BY <3>1, FlightType
      <4>2. r.step = "refreshing" /\ call[c].retry
        BY <3>2, <4>1 DEF InFlight, NeedsRefresh
      <4>3. call' = [call EXCEPT ![c] = r]
        BY <2>7, <3>2 DEF Receive
      <4> HIDE DEF r
      <4> QED
        BY <2>4, <3>1, <4>2, <4>3
    <3>3. CASE ~NeedsRefresh(c)
      BY <2>3, <2>7, <3>1, <3>3 DEF Receive
    <3> QED
      BY <3>2, <3>3
  <2>8. ASSUME NEW c \in Calls, Retry(c) PROVE Advance
    <3> DEFINE r == Fetch(call[c].request, call[c].session, storage'.token, FALSE,
                          call[c].runs)
    <3>1. /\ call[c] # Idle /\ call[c].step = "refreshed" /\ call[c].token # 0
          /\ call' = [call EXCEPT ![c] = r]
      BY <2>8 DEF Retry, Idle
    <3>2. r.step = "sent" /\ ~r.retry
      BY DEF Fetch
    <3> HIDE DEF r
    <3> QED
      BY <2>4, <3>1, <3>2
  <2>9. ASSUME NEW c \in Calls, GiveUp(c) \/ Lose(c) \/ Close(c) PROVE Advance
    <3>1. call[c] # Idle /\ End(c)
      BY <2>9 DEF GiveUp, Lose, Close, Idle
    <3> QED
      BY <2>3, <3>1
  <2>10. CASE Logout \/ ExpireAccess \/ ExpireRefresh
    BY <2>10 DEF Logout, ExpireAccess, ExpireRefresh, Advance
  <2> QED
    BY <2>2, <2>5, <2>6, <2>7, <2>8, <2>9, <2>10 DEF Next, Progress
<1> QED
  BY <1>1, TypeInvariant, PTL DEF Spec, CallAdvances

-----------------------------------------------------------------------------
(* Users.                                                                  *)

\* The tokens of a call belong to the user of its session.
OwnTokens(x, owner) == x # Idle =>
  /\ x.session # NoSession => owner[x.session.token] = x.session.player
  /\ x.bearer # 0 => x.session # NoSession /\ owner[x.bearer] = x.session.player
  /\ x.step \in {"refreshing", "refreshed"} => x.session # NoSession
  /\ x.step = "refreshed" /\ x.token # 0 => owner[x.token] = x.session.player
  /\ x.request.op = "act" => \A k \in 1 .. Len(x.runs) : x.runs[k] = x.session.player

\* The tokens of a sign-in belong to the user who signs in.
OwnSignIn(x, owner) ==
  x # Idle /\ Executed(x) /\ SigningIn(x.request) => owner[x.token] = x.request.user

UserInv ==
  /\ storage # NoSession /\ ~mixed => issued[storage.token] = storage.player
  /\ \A c \in Calls \ mixedCalls : OwnTokens(call[c], issued)
  /\ \A c \in Calls : OwnSignIn(call[c], issued)

(* A token keeps its owner.                                                *)
LEMMA OwnTokensKept ==
  ASSUME TypeInv, Issues, NEW c \in Calls
  PROVE  /\ OwnTokens(call[c], issued) => OwnTokens(call[c], issued')
         /\ OwnSignIn(call[c], issued) => OwnSignIn(call[c], issued')
<1> DEFINE x == call[c]
<1> SUFFICES ASSUME x # Idle
             PROVE  /\ OwnTokens(x, issued) => OwnTokens(x, issued')
                    /\ OwnSignIn(x, issued) => OwnSignIn(x, issued')
  BY DEF OwnTokens, OwnSignIn
<1>1. \A k \in 1 .. Len(issued) : issued'[k] = issued[k]
  BY IssuesType DEF TypeInv
<1>2. /\ x.session \in Session \cup {NoSession} /\ Len(issued) \in Nat
      /\ x.session.token \in 0 .. Len(issued)
      /\ x.bearer \in 0 .. Len(issued) /\ x.token \in 0 .. Len(issued)
  BY FlightType DEF TypeInv
<1>3. x.session # NoSession => x.session.token # 0
  BY <1>2, CallsAssumption DEF Session
<1>4. Executed(x) /\ SigningIn(x.request) => x.token # 0
  BY DEF TypeInv, CallInv, CallOK
<1> HIDE DEF x
<1>5. OwnTokens(x, issued) => OwnTokens(x, issued')
  BY <1>1, <1>2, <1>3 DEF OwnTokens
<1>6. OwnSignIn(x, issued) => OwnSignIn(x, issued')
  BY <1>1, <1>2, <1>4 DEF OwnSignIn
<1> QED
  BY <1>5, <1>6

(* When one call moves, the others keep their tokens.                      *)
LEMMA UserMove ==
  ASSUME TypeInv, UserInv, Issues, NEW c \in Calls, NEW r,
         call' = [call EXCEPT ![c] = r], mixedCalls' \ {c} = mixedCalls \ {c},
         c \notin mixedCalls' => OwnTokens(r, issued'), OwnSignIn(r, issued'),
         storage' # NoSession /\ ~mixed' => issued'[storage'.token] = storage'.player
  PROVE  UserInv'
<1>1. call'[c] = r /\ \A d \in Calls : d # c => call'[d] = call[d]
  BY DEF TypeInv, TypeOK
<1>2. ASSUME NEW d \in Calls \ mixedCalls'
      PROVE  OwnTokens(call'[d], issued')
  <2>1. CASE d = c
    BY <1>1, <1>2, <2>1
  <2>2. CASE d # c
    <3>1. d \in Calls \ mixedCalls
      BY <1>2, <2>2
    <3>2. OwnTokens(call[d], issued)
      BY <3>1 DEF UserInv
    <3>3. OwnTokens(call[d], issued')
      BY <3>2, OwnTokensKept
    <3> QED
      BY <1>1, <2>2, <3>3
  <2> QED
    BY <2>1, <2>2
<1>3. ASSUME NEW d \in Calls
      PROVE  OwnSignIn(call'[d], issued')
  <2>1. CASE d = c
    BY <1>1, <2>1
  <2>2. CASE d # c
    <3>1. OwnSignIn(call[d], issued')
      BY OwnTokensKept DEF UserInv
    <3> QED
      BY <1>1, <2>2, <3>1
  <2> QED
    BY <2>1, <2>2
<1> QED
  BY <1>2, <1>3 DEF UserInv

(* The user of the session is the owner of its token, after a step that    *)
(* leaves the session alone.                                               *)
LEMMA SessionKept ==
  ASSUME TypeInv, UserInv, Issues, UNCHANGED <<storage, mixed>>
  PROVE  storage' # NoSession /\ ~mixed' => issued'[storage'.token] = storage'.player
<1> SUFFICES ASSUME storage # NoSession, ~mixed
             PROVE  issued'[storage.token] = storage.player
  OBVIOUS
<1>1. \A k \in 1 .. Len(issued) : issued'[k] = issued[k]
  BY IssuesType DEF TypeInv
<1>2. storage.token \in 0 .. Len(issued) /\ Len(issued) \in Nat
  BY StorageType DEF TypeInv
<1>3. storage.token # 0
  BY CallsAssumption DEF TypeInv, TypeOK, Session
<1>4. issued[storage.token] = storage.player
  BY DEF UserInv
<1> QED
  BY <1>1, <1>2, <1>3, <1>4

(* A call begins with the session it has loaded.                           *)
LEMMA BeginUser ==
  ASSUME TypeInv, UserInv, NEW c \in Calls, Begin(c)
  PROVE  UserInv'
<1>1. PICK request \in Request :
        call' = [call EXCEPT ![c] = Fetch(request, storage, storage.token, TRUE, <<>>)]
  BY DEF Begin
<1> DEFINE r == Fetch(request, storage, storage.token, TRUE, <<>>)
<1>2. /\ UNCHANGED <<storage, issued, mixed>>
      /\ mixedCalls' = IF mixed THEN mixedCalls \cup {c} ELSE mixedCalls
  BY DEF Begin, server
<1>3. /\ r.session = storage /\ r.bearer = storage.token /\ r.step = "sent"
      /\ r.request = request /\ r.runs = <<>>
  BY DEF Fetch
<1>4. storage # NoSession /\ ~mixed => issued[storage.token] = storage.player
  BY DEF UserInv
<1>5. storage.token # 0 => storage # NoSession
  BY DEF NoSession
<1>6. call' = [call EXCEPT ![c] = r]
  BY <1>1
<1> HIDE DEF r
<1>7. c \notin mixedCalls' => OwnTokens(r, issued')
  BY <1>2, <1>3, <1>4, <1>5 DEF OwnTokens
<1>8. OwnSignIn(r, issued')
  BY <1>3 DEF OwnSignIn, Executed
<1>9. storage' # NoSession /\ ~mixed' => issued'[storage'.token] = storage'.player
  BY <1>2, <1>4
<1>10. mixedCalls' \ {c} = mixedCalls \ {c}
  BY <1>2
<1>11. Issues
  BY <1>2 DEF Issues
<1> QED
  BY <1>6, <1>7, <1>8, <1>9, <1>10, <1>11, UserMove

(* A request is executed for the owner of its token.                       *)
LEMMA AnswerUser ==
  ASSUME TypeInv, UserInv, NEW c \in Calls, Answer(c)
  PROVE  UserInv'
<1> USE DEF TypeInv
<1> DEFINE x == call[c]
<1>1. PICK status \in Outcomes(x.request, x.bearer) :
        LET signedIn == status = "ok" /\ SigningIn(x.request)
        IN  /\ IF signedIn THEN Issue(x.request.user) ELSE UNCHANGED issued
            /\ call' = [call EXCEPT ![c] =
                 [x EXCEPT !.step = "answered", !.status = status,
                           !.token = IF signedIn THEN Len(issued') ELSE 0,
                           !.runs = IF status # "ok" THEN @
                                    ELSE Append(@, Subject(x.request, x.bearer))]]
  BY DEF Answer
<1> DEFINE signedIn == status = "ok" /\ SigningIn(x.request)
           token == IF signedIn THEN Len(issued') ELSE 0
           runs == IF status # "ok" THEN x.runs
                   ELSE Append(x.runs, Subject(x.request, x.bearer))
           r == [x EXCEPT !.step = "answered", !.status = status,
                          !.token = token, !.runs = runs]
<1>2. x # Idle /\ x.step = "sent" /\ UNCHANGED <<storage, mixed, mixedCalls>>
  BY DEF Answer, Idle, history
<1>3. x \in InFlight /\ x.request \in Request /\ x.bearer \in 0 .. Len(issued)
  BY <1>2, FlightType DEF InFlight
<1>4. x.runs = <<>>
  BY <1>2 DEF CallInv, CallOK, Executed
<1>5. Issues
  BY <1>2, AnswerType DEF TypeOK, HistoryOK
<1>6. call' = [call EXCEPT ![c] = r]
  BY <1>1
<1>7. c \notin mixedCalls => OwnTokens(x, issued)
  BY DEF UserInv
<1>8. c \notin mixedCalls => OwnTokens(x, issued')
  BY <1>5, <1>7, OwnTokensKept
<1>9. signedIn => issued'[token] = x.request.user
  <2> SUFFICES ASSUME signedIn
               PROVE  issued'[Len(issued')] = x.request.user
    OBVIOUS
  <2>1. issued' = Append(issued, x.request.user) /\ issued \in Seq(Users)
    BY <1>1 DEF Issue, TypeOK
  <2>2. x.request.user \in Users
    BY <1>3 DEF Request, SigningIn
  <2>3. Len(issued') = Len(issued) + 1 /\ Len(issued) \in Nat
    BY <2>1, <2>2
  <2> QED
    BY <2>1, <2>2, <2>3
<1>10. c \notin mixedCalls /\ x.request.op = "act" =>
         \A k \in 1 .. Len(runs) : runs[k] = x.session.player
  <2> SUFFICES ASSUME c \notin mixedCalls, x.request.op = "act", status = "ok"
               PROVE  \A k \in 1 .. Len(runs) : runs[k] = x.session.player
    BY <1>4
  <2>1. Authorized(x.bearer)
    BY DEF Outcomes
  <2>2. x.bearer # 0
    BY <1>3, <2>1 DEF Authorized, TypeOK
  <2>3. issued[x.bearer] = x.session.player
    BY <1>2, <1>7, <2>2 DEF OwnTokens
  <2>4. Subject(x.request, x.bearer) = x.session.player
    BY <2>3 DEF Subject
  <2>5. runs = <<x.session.player>>
    BY <1>4, <2>4
  <2> HIDE DEF runs
  <2>6. Len(runs) = 1 /\ runs[1] = x.session.player
    BY <2>5
  <2> QED
    BY <2>6
<1> HIDE DEF token, runs
<1>11. /\ r.step = "answered" /\ r.status = status /\ r.token = token
       /\ r.runs = runs /\ r.request = x.request /\ r.session = x.session
       /\ r.bearer = x.bearer
  BY <1>3 DEF InFlight
<1> HIDE DEF r
<1>12. c \notin mixedCalls' => OwnTokens(r, issued')
  <2> SUFFICES ASSUME c \notin mixedCalls
               PROVE  OwnTokens(r, issued')
    BY <1>2
  <2>1. /\ x.session # NoSession => issued'[x.session.token] = x.session.player
        /\ x.bearer # 0 => x.session # NoSession /\ issued'[x.bearer] = x.session.player
    BY <1>2, <1>8 DEF OwnTokens
  <2> QED
    BY <1>10, <1>11, <2>1 DEF OwnTokens
<1>13. OwnSignIn(r, issued')
  BY <1>9, <1>11 DEF OwnSignIn, Executed
<1>14. storage' # NoSession /\ ~mixed' => issued'[storage'.token] = storage'.player
  BY <1>2, <1>5, SessionKept
<1> QED
  BY <1>2, <1>5, <1>6, <1>12, <1>13, <1>14, UserMove

(* A refresh issues tokens for the owner of the refresh token.             *)
LEMMA AnswerRefreshUser ==
  ASSUME TypeInv, UserInv, NEW c \in Calls, AnswerRefresh(c) \/ LoseRefresh(c)
  PROVE  UserInv'
<1> USE DEF TypeInv
<1> DEFINE x == call[c]
           old == x.session.token
           token == IF AnswerRefresh(c) /\ Refreshable(old) THEN Len(issued') ELSE 0
           r == [x EXCEPT !.step = "refreshed", !.token = token]
<1>1. /\ x # Idle /\ x.step \in {"refreshing", "refreshed"}
      /\ UNCHANGED <<storage, mixed, mixedCalls>>
  BY DEF AnswerRefresh, LoseRefresh, Idle, history
<1>2. x \in InFlight /\ old \in 0 .. Len(issued)
  BY <1>1, FlightType
<1>3. Issues
  <2>1. CASE AnswerRefresh(c)
    BY <1>1, <2>1, AnswerRefreshType DEF TypeOK, HistoryOK
  <2>2. CASE LoseRefresh(c)
    BY <2>2 DEF LoseRefresh, server, Issues
  <2> QED
    BY <2>1, <2>2
<1>4. call' = [call EXCEPT ![c] = r]
  BY <1>2 DEF AnswerRefresh, LoseRefresh, TypeOK, InFlight
<1>5. c \notin mixedCalls => OwnTokens(x, issued)
  BY DEF UserInv
<1>6. c \notin mixedCalls => OwnTokens(x, issued')
  BY <1>3, <1>5, OwnTokensKept
<1>7. c \notin mixedCalls /\ token # 0 => issued'[token] = x.session.player
  <2> SUFFICES ASSUME c \notin mixedCalls, AnswerRefresh(c), Refreshable(old)
               PROVE  issued'[Len(issued')] = x.session.player
    OBVIOUS
  <2>1. old \in 1 .. Len(issued) /\ Len(issued) \in Nat /\ issued \in Seq(Users)
    BY <1>2 DEF Refreshable, TypeOK
  <2>2. issued' = Append(issued, issued[old])
    BY DEF AnswerRefresh, Issue
  <2>3. issued[old] = x.session.player
    BY <1>1, <1>5 DEF OwnTokens
  <2>4. issued[old] \in Users
    BY <2>1
  <2>5. Len(issued') = Len(issued) + 1
    BY <2>1, <2>2, <2>4
  <2> QED
    BY <2>1, <2>2, <2>3, <2>4, <2>5
<1> HIDE DEF token
<1>8. /\ r.step = "refreshed" /\ r.token = token /\ r.runs = x.runs
      /\ r.request = x.request /\ r.session = x.session /\ r.bearer = x.bearer
  BY <1>2 DEF InFlight
<1> HIDE DEF r
<1>9. c \notin mixedCalls' => OwnTokens(r, issued')
  BY <1>1, <1>6, <1>7, <1>8 DEF OwnTokens
<1>10. OwnSignIn(r, issued')
  BY <1>8 DEF OwnSignIn, Executed
<1>11. storage' # NoSession /\ ~mixed' => issued'[storage'.token] = storage'.player
  BY <1>1, <1>3, SessionKept
<1> QED
  BY <1>1, <1>3, <1>4, <1>9, <1>10, <1>11, UserMove

(* The session of a sign-in is of the user who signed in, whatever the     *)
(* call was begun with.                                                    *)
LEMMA ReceiveUser ==
  ASSUME TypeInv, UserInv, NEW c \in Calls, Receive(c)
  PROVE  UserInv'
<1> USE DEF TypeInv
<1> DEFINE x == call[c]
           r == IF NeedsRefresh(c) THEN [x EXCEPT !.step = "refreshing"] ELSE Idle
<1>1. x # Idle /\ x.step = "answered" /\ UNCHANGED issued /\ Issues
  BY DEF Receive, Idle, server, Issues
<1>2. x \in InFlight
  BY <1>1, FlightType
<1>3. /\ call' = [call EXCEPT ![c] = r] /\ mixedCalls' \ {c} = mixedCalls \ {c}
      /\ NeedsRefresh(c) => UNCHANGED mixedCalls
  BY DEF Receive, End
<1>4. (c \notin mixedCalls => OwnTokens(x, issued)) /\ OwnSignIn(x, issued)
  BY DEF UserInv
<1>5. storage' # NoSession /\ ~mixed' => issued'[storage'.token] = storage'.player
  <2>1. CASE x.status = "ok" /\ SigningIn(x.request)
    <3>1. storage' = NewSession(c)
      BY <2>1 DEF Receive
    <3>2. issued[x.token] = x.request.user
      BY <1>1, <1>4, <2>1 DEF OwnSignIn, Executed
    <3> QED
      BY <1>1, <3>1, <3>2 DEF NewSession
  <2>2. CASE ~(x.status = "ok" /\ SigningIn(x.request))
    <3>1. UNCHANGED <<storage, mixed>>
      BY <2>2 DEF Receive
    <3> QED
      BY <1>1, <3>1, SessionKept
  <2> QED
    BY <2>1, <2>2
<1>6. (c \notin mixedCalls' => OwnTokens(r, issued')) /\ OwnSignIn(r, issued')
  <2>1. CASE NeedsRefresh(c)
    <3>1. /\ r.step = "refreshing" /\ r.token = x.token /\ r.runs = x.runs
          /\ r.request = x.request /\ r.session = x.session /\ r.bearer = x.bearer
      BY <1>2, <2>1 DEF InFlight
    <3>2. x.session # NoSession
      BY <2>1 DEF NeedsRefresh
    <3> HIDE DEF r
    <3>3. c \notin mixedCalls' => OwnTokens(r, issued')
      BY <1>1, <1>3, <1>4, <2>1, <3>1, <3>2 DEF OwnTokens
    <3> QED
      BY <3>1, <3>3 DEF OwnSignIn, Executed
  <2>2. CASE ~NeedsRefresh(c)
    <3>1. r = Idle
      BY <2>2
    <3> HIDE DEF r
    <3> QED
      BY <3>1 DEF OwnTokens, OwnSignIn
  <2> QED
    BY <2>1, <2>2
<1> HIDE DEF r
<1> QED
  BY <1>1, <1>3, <1>5, <1>6, UserMove

(* The retry puts the refreshed tokens into the session of the same user,  *)
(* or both are recorded as mixed.                                          *)
LEMMA RetryUser ==
  ASSUME TypeInv, UserInv, NEW c \in Calls, Retry(c)
  PROVE  UserInv'
<1> USE DEF TypeInv
<1> DEFINE x == call[c]
           now == UpdateTokens(storage, x.token)
           r == Fetch(x.request, x.session, now.token, FALSE, x.runs)
<1>1. /\ x # Idle /\ x.step = "refreshed" /\ x.token # 0
      /\ storage' = now /\ call' = [call EXCEPT ![c] = r]
      /\ UNCHANGED issued /\ Issues
  BY DEF Retry, Idle, server, Issues
<1>2. /\ mixed' = Mixes(c)
      /\ mixedCalls' = IF Mixes(c) THEN mixedCalls \cup {c} ELSE mixedCalls
  BY DEF Retry, Mingle
<1>3. c \notin mixedCalls =>
        /\ OwnTokens(x, issued)
        /\ x.session # NoSession /\ issued[x.token] = x.session.player
        /\ issued[x.session.token] = x.session.player
  BY <1>1 DEF UserInv, OwnTokens
<1>4. x.runs = <<>>
  BY <1>1 DEF CallInv, CallOK, Executed
<1>5. now # NoSession =>
        storage # NoSession /\ now.token = x.token /\ now.player = storage.player
  BY <1>1 DEF UpdateTokens, TypeOK, Session
<1>6. now # NoSession /\ ~Mixes(c) =>
        c \notin mixedCalls /\ now.player = x.session.player
  BY <1>5 DEF Mixes
<1>7. now.token # 0 => now # NoSession
  BY DEF NoSession
<1>8. /\ r.session = x.session /\ r.bearer = now.token /\ r.step = "sent"
      /\ r.request = x.request /\ r.runs = x.runs
  BY DEF Fetch
<1> HIDE DEF now, r
<1>9. c \notin mixedCalls' => OwnTokens(r, issued')
  <2> SUFFICES ASSUME c \notin mixedCalls, ~Mixes(c)
               PROVE  OwnTokens(r, issued')
    BY <1>2
  <2>1. r.bearer # 0 => issued'[r.bearer] = x.session.player
    BY <1>1, <1>3, <1>5, <1>7, <1>8
  <2> QED
    BY <1>1, <1>3, <1>4, <1>8, <2>1 DEF OwnTokens
<1>10. OwnSignIn(r, issued')
  BY <1>8 DEF OwnSignIn, Executed
<1>11. storage' # NoSession /\ ~mixed' => issued'[storage'.token] = storage'.player
  BY <1>1, <1>2, <1>3, <1>5, <1>6
<1>12. mixedCalls' \ {c} = mixedCalls \ {c}
  BY <1>2
<1> QED
  BY <1>1, <1>9, <1>10, <1>11, <1>12, UserMove

(* A call that ends leaves the session alone or clears it.                 *)
LEMMA EndUser ==
  ASSUME TypeInv, UserInv, NEW c \in Calls, GiveUp(c) \/ Lose(c) \/ Close(c)
  PROVE  UserInv'
<1>1. /\ call' = [call EXCEPT ![c] = Idle] /\ Issues
      /\ mixedCalls' \ {c} = mixedCalls \ {c}
      /\ storage' = NoSession \/ UNCHANGED <<storage, mixed>>
  BY DEF GiveUp, Lose, Close, End, server, Issues
<1>2. storage' # NoSession /\ ~mixed' => issued'[storage'.token] = storage'.player
  BY <1>1, SessionKept
<1>3. OwnTokens(Idle, issued') /\ OwnSignIn(Idle, issued')
  BY DEF OwnTokens, OwnSignIn
<1> QED
  BY <1>1, <1>2, <1>3, UserMove

(* Every step keeps the users apart, or records what it mixes.             *)
LEMMA NextUser ==
  ASSUME TypeInv, UserInv, [Next]_vars
  PROVE  UserInv'
<1>1. ASSUME NEW c \in Calls, Begin(c) PROVE UserInv'
  BY <1>1, BeginUser
<1>2. ASSUME NEW c \in Calls, Progress(c) PROVE UserInv'
  BY <1>2, AnswerUser, AnswerRefreshUser, ReceiveUser, RetryUser, EndUser DEF Progress
<1>3. ASSUME NEW c \in Calls, Lose(c) \/ LoseRefresh(c) \/ Close(c) PROVE UserInv'
  BY <1>3, AnswerRefreshUser, EndUser
<1>4. CASE Logout \/ ExpireAccess \/ ExpireRefresh \/ UNCHANGED vars
  <2>1. /\ UNCHANGED <<call, issued, mixedCalls>>
        /\ storage' = NoSession \/ UNCHANGED <<storage, mixed>>
    BY <1>4 DEF Logout, ExpireAccess, ExpireRefresh, server, history, vars
  <2> QED
    BY <2>1 DEF UserInv
<1> QED
  BY <1>1, <1>2, <1>3, <1>4 DEF Next

(* What the session and the calls hold belongs to one user at every step,  *)
(* but for what is recorded as mixed.                                      *)
LEMMA UserInvariant == Spec => []UserInv
<1>1. Init => UserInv
  BY DEF Init, UserInv, OwnTokens, OwnSignIn
<1>2. TypeInv /\ UserInv /\ [Next]_vars => UserInv'
  BY NextUser
<1> QED
  BY <1>1, <1>2, TypeInvariant, PTL DEF Spec

(* The tokens and the profile of a session belong to one user, whatever    *)
(* sign-ins, refreshes, logouts and expirations interleave; a retry into   *)
(* the session of another user is the only step that ends this.            *)
THEOREM OneUser == Spec => []SessionOfOneUser
<1>1. UserInv => SessionOfOneUser
  BY DEF UserInv, SessionOfOneUser
<1> QED
  BY <1>1, UserInvariant, PTL

(* Requests are executed for the user of the session they were made in,    *)
(* also when they are retried, whoever signs in meanwhile; a retry into    *)
(* the session of another user is the only way to another one.             *)
THEOREM OwnRequests == Spec => []ActsForItsUser
<1>1. UserInv => ActsForItsUser
  BY DEF UserInv, OwnTokens, ActsForItsUser
<1> QED
  BY <1>1, UserInvariant, PTL
=============================================================================
