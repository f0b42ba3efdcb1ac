------------------------------- MODULE LiveView -------------------------------
(***************************************************************************)
(* What a player sees: the queue and the balance of the overview page      *)
(* (frontend/src/app/overview/page.tsx), kept up to date by the events of  *)
(* the backend's real-time gateway and by reloads, while handlers place    *)
(* orders and workers finish them.                                         *)
(*                                                                         *)
(* One player with one planet.  The database is reduced to which orders    *)
(* exist and which are finished; Astraxis says how they get there.  A read *)
(* is dated by the number of commits before it.                            *)
(*                                                                         *)
(* External: events of one sender reach a page in the order they were      *)
(* emitted, those of several in any order (socket.io over Redis); who is   *)
(* not in the room when an event is emitted never gets it, and what is on  *)
(* its way to a page is lost with its connection; HTTP answers overtake    *)
(* each other and anything else.                                           *)
(***************************************************************************)
EXTENDS Naturals, Sequences, FiniteSets

CONSTANTS
  Items,        \* the orders that may be placed
  Research,     \* those for research
  Tabs,         \* browser tabs with the overview page
  Handlers,     \* requests the backend handles at once
  Workers,      \* queue workers
  Slots,        \* bound: reloads a page has in flight at once
  Faults,       \* which of "crash", "drop", "fail", "signOut" happen
  Nothing       \* no item, no tab

ASSUME ItemsAssumption ==
  /\ IsFiniteSet(Items) /\ Research \subseteq Items /\ Nothing \notin Items \cup Tabs
ASSUME SendersAssumption ==
  Handlers \cap Workers = {} /\ Slots \subseteq Nat \ {0} /\ IsFiniteSet(Slots)

VARIABLES
  ordered,      \* items that have been committed, each with its debit
  done,         \* items that are finished
  handler,      \* a handler past its commit: its item and the tab that awaits it
  worker,       \* the item a worker has finished and not announced
  bus,          \* events on their way, per tab and sender
  session,      \* is the player's session saved in the browser, for all tabs?
  joined,       \* is the socket of the page in the room of the player?
  page,         \* the page's React state, with what it knows of its age
  reloads       \* its calls of fetchOverview

backend == <<ordered, done, handler, worker>>
vars == <<backend, bus, session, joined, page, reloads>>

Senders == Handlers \cup Workers
Pending == ordered \ done
Commits == Cardinality(ordered) + Cardinality(done)
Debits == Cardinality(ordered)
MaxCommits == 2 * Cardinality(Items)

-----------------------------------------------------------------------------
(* Events and answers.                                                     *)

\* A list of pending items, and when it was read; `partial` if it leaves out
\* what it should show.
List == [items : SUBSET Items, at : 0 .. MaxCommits, partial : BOOLEAN]
Event == [kind : {"queue:update"}, list : List]
         \cup [kind : {"resources:update"}, funds : 0 .. Cardinality(Items)]
         \cup [kind : {"queue:finished"}]

WholeList == [items |-> Pending, at |-> Commits, partial |-> FALSE]
\* A variant that forgets the research orders.
ListOfPlanetItems == [WholeList EXCEPT !.items = Pending \ Research]

\* What startBuilding, startShips and updateProductionFactor read after their
\* transaction, and what startResearch reads.
ListAfter(item) ==
  IF item \in Research
  THEN [WholeList EXCEPT !.items = Pending \cap Research,
                         !.partial = Pending \ Research # {}]
  ELSE WholeList

Update(list) == [kind |-> "queue:update", list |-> list]
Resources(funds) == [kind |-> "resources:update", funds |-> funds]
Finished == [kind |-> "queue:finished"]

\* To the room of the player.
Emit(sender, events) ==
  bus' = [t \in Tabs |-> IF ~joined[t] THEN bus[t]
                         ELSE [bus[t] EXCEPT ![sender] = @ \o events]]

\* What is on its way to a page is lost.
Silence(t) == bus' = [bus EXCEPT ![t] = [s \in Senders |-> <<>>]]

\* The queue part of getOverview's answer.
OverviewQueue == WholeList

\* fetchOverview: asked for, when `from` orders had been debited; answered.
NoReload == [step |-> "none"]
Reload == [step : {"asked"}, own : Items \cup {Nothing}, from : 0 .. Cardinality(Items)]
          \cup [step : {"answered"}, funds : 0 .. Cardinality(Items), list : List]

\* History: `due` and `fundsDue` date the page's last call of reload; `lapsed` says
\* which of its list and its balance that call will not bring up to date, because
\* it returned early, a reload failed, or something older has come in since.
Shown == {"list", "funds"}
ClosedPage == [open |-> FALSE, loaded |-> FALSE,
               list |-> [items |-> {}, at |-> 0, partial |-> FALSE],
               funds |-> 0, due |-> 0, fundsDue |-> 0, lapsed |-> {}]
Page == [open : BOOLEAN, loaded : BOOLEAN, list : List, funds : 0 .. Cardinality(Items),
         due : 0 .. MaxCommits, fundsDue : 0 .. Cardinality(Items),
         lapsed : SUBSET Shown]
\* What is older than the page's last call of reload.
Behind(p) == (IF p.list.at < p.due THEN {"list"} ELSE {})
             \cup (IF p.funds < p.fundsDue THEN {"funds"} ELSE {})

Quiet == [item |-> Nothing, funds |-> 0, by |-> Nothing, busy |-> FALSE]
Busy == [busy : {TRUE}, item : Items \cup {Nothing},
         funds : 0 .. Cardinality(Items), by : Tabs \cup {Nothing}]

InFlight(t) == {s \in Slots : reloads[t][s] # NoReload}

(* The rows, messages and pages are well-formed, and a page that is left   *)
(* takes its socket and its reloads with it.                               *)
TypeOK ==
  /\ ordered \subseteq Items /\ done \subseteq ordered
  /\ handler \in [Handlers -> Busy \cup {Quiet}]
  /\ worker \in [Workers -> Items \cup {Nothing}]
  /\ bus \in [Tabs -> [Senders -> Seq(Event)]]
  /\ session \in BOOLEAN /\ joined \in [Tabs -> BOOLEAN]
  /\ page \in [Tabs -> Page]
  /\ reloads \in [Tabs -> [Slots -> Reload \cup {NoReload}]]
  /\ \A t \in Tabs : ~page[t].open => ~joined[t] /\ InFlight(t) = {}
  /\ \A t \in Tabs, s \in Senders : bus[t][s] # <<>> => joined[t]

Init ==
  /\ ordered = {} /\ done = {}
  /\ handler = [h \in Handlers |-> Quiet]
  /\ worker = [w \in Workers |-> Nothing]
  /\ bus = [t \in Tabs |-> [s \in Senders |-> <<>>]]
  /\ session = TRUE /\ joined = [t \in Tabs |-> FALSE]
  /\ page = [t \in Tabs |-> ClosedPage]
  /\ reloads = [t \in Tabs |-> [s \in Slots |-> NoReload]]

-----------------------------------------------------------------------------
(* Handlers and workers.                                                   *)

\* fetchOverview is called; `own` is the order the page has just placed.
Fetch(t, own) ==
  \E s \in Slots \ InFlight(t) :
    /\ \A r \in Slots \ InFlight(t) : s <= r
    /\ reloads' = [reloads EXCEPT ![t][s] =
         [step |-> "asked", own |-> own, from |-> Debits]]

\* The page calls reload at p.
Expects(p) == [p EXCEPT !.due = Commits, !.fundsDue = Debits, !.lapsed = {}]
GivesUp(p) == [p EXCEPT !.lapsed = Behind(p)]

\* A variant that does not reload while it is loading.
AsksUnlessLoading(t, p, own) ==
  /\ page' = [page EXCEPT ![t] = IF session THEN Expects(p) ELSE GivesUp(Expects(p))]
  /\ IF session /\ InFlight(t) = {} THEN Fetch(t, own) ELSE UNCHANGED reloads

\* reload returns at once when the session is gone.
Asks(t, p, own) ==
  \/ /\ session /\ Fetch(t, own)
     /\ page' = [page EXCEPT ![t] = Expects(p)]
  \/ /\ ~session /\ UNCHANGED reloads
     /\ page' = [page EXCEPT ![t] = GivesUp(Expects(p))]

\* Bound: nobody takes on a request or a job before his last events have arrived.
Heard(sender) == \A t \in Tabs : bus[t][sender] = <<>>

\* An order of this page (handleBuilding, handleShips, handleResearch) or of
\* another one, up to its commit.  A page has its buttons once a reload has come
\* back ("Chargement..." before that), and sends the order with the token of the session;
\* a session that goes while it is under way is as well gone after the commit.
Order(h, i, t) ==
  /\ handler[h] = Quiet /\ Heard(h) /\ i \in Items \ ordered
  /\ t \in Tabs => page[t].open /\ page[t].loaded /\ session
  /\ ordered' = ordered \cup {i}
  /\ handler' = [handler EXCEPT ![h] =
       [busy |-> TRUE, item |-> i, funds |-> Debits + 1, by |-> t]]
  /\ UNCHANGED <<done, worker, bus, session, joined, page, reloads>>

\* updateProductionFactor, which the page of a building asks for.
UpdateFactor(h) ==
  /\ handler[h] = Quiet /\ Heard(h)
  /\ handler' = [handler EXCEPT ![h] =
       [busy |-> TRUE, item |-> Nothing, funds |-> Debits, by |-> Nothing]]
  /\ UNCHANGED <<ordered, done, worker, bus, session, joined, page, reloads>>

\* The handler adds the job, reads the pending items, emits and answers; the
\* page that awaits the answer reloads.
Announce(h) ==
  LET x == handler[h]
  IN  /\ x.busy
      /\ Emit(h, <<Update(ListAfter(x.item))>> \o
                 (IF x.item = Nothing THEN <<>> ELSE <<Resources(x.funds)>>))
      /\ handler' = [handler EXCEPT ![h] = Quiet]
      /\ IF x.by \in Tabs THEN Asks(x.by, page[x.by], x.item)
         ELSE UNCHANGED <<page, reloads>>
      /\ UNCHANGED <<ordered, done, worker, session, joined>>

\* The process dies, and the request fails.
HandlerFails(h) ==
  /\ "crash" \in Faults /\ handler[h].busy
  /\ handler' = [handler EXCEPT ![h] = Quiet]
  /\ UNCHANGED <<ordered, done, worker, bus, session, joined, page, reloads>>

\* finalizeQueueItem commits.
Finish(w) ==
  /\ worker[w] = Nothing /\ Heard(w)
  /\ \E i \in Pending :
       /\ done' = done \cup {i}
       /\ worker' = [worker EXCEPT ![w] = i]
  /\ UNCHANGED <<ordered, handler, bus, session, joined, page, reloads>>

\* process reads what is pending, and emits.
AnnounceFinished(w) ==
  /\ worker[w] # Nothing
  /\ Emit(w, <<Finished, Update(WholeList)>>)
  /\ worker' = [worker EXCEPT ![w] = Nothing]
  /\ UNCHANGED <<ordered, done, handler, session, joined, page, reloads>>

\* The worker dies; when its job runs again, the item is done and process
\* returns before it emits.
WorkerFails(w) ==
  /\ "crash" \in Faults /\ worker[w] # Nothing
  /\ worker' = [worker EXCEPT ![w] = Nothing]
  /\ UNCHANGED <<ordered, done, handler, bus, session, joined, page, reloads>>

-----------------------------------------------------------------------------
(* The page's socket.                                                      *)

\* Another tab logs out, or loses the session to a refresh that is refused; it
\* logs in again, as the same player.
SignOut ==
  /\ "signOut" \in Faults /\ session
  /\ session' = FALSE
  /\ UNCHANGED <<backend, bus, joined, page, reloads>>
SignIn ==
  /\ ~session
  /\ session' = TRUE
  /\ UNCHANGED <<backend, bus, joined, page, reloads>>

\* The page is opened: without a session it leaves for the login; else it creates
\* its socket and reloads.
Open(t) ==
  /\ session /\ ~page[t].open
  /\ Asks(t, [ClosedPage EXCEPT !.open = TRUE], Nothing)
  /\ UNCHANGED <<backend, bus, session, joined>>

\* A variant that forgets to disconnect.
CloseConnected(t) ==
  /\ page[t].open
  /\ page' = [page EXCEPT ![t] = ClosedPage]
  /\ reloads' = [reloads EXCEPT ![t] = [s \in Slots |-> NoReload]]
  /\ UNCHANGED <<backend, bus, session, joined>>

\* The page is left: the effect's clean-up disconnects, and what is awaited has
\* no page to act on any more.
Close(t) ==
  /\ page[t].open
  /\ page' = [page EXCEPT ![t] = ClosedPage]
  /\ reloads' = [reloads EXCEPT ![t] = [s \in Slots |-> NoReload]]
  /\ Silence(t)
  /\ joined' = [joined EXCEPT ![t] = FALSE]
  /\ handler' = [h \in Handlers |-> IF handler[h].by = t
                                    THEN [handler[h] EXCEPT !.by = Nothing]
                                    ELSE handler[h]]
  /\ UNCHANGED <<ordered, done, worker, session>>

\* handleConnection accepts the token of the handshake, and handleSubscribe lets
\* the page join the room.  The token is the one the page was opened with: once
\* it has expired the server disconnects the client, which then does not connect
\* again (socket.io), so that a page need not ever join.
Join(t) ==
  /\ page[t].open /\ ~joined[t]
  /\ joined' = [joined EXCEPT ![t] = TRUE]
  /\ UNCHANGED <<backend, bus, session, page, reloads>>

\* The connection is lost; the client will connect again and does not reload.
Drop(t) ==
  /\ "drop" \in Faults /\ joined[t]
  /\ joined' = [joined EXCEPT ![t] = FALSE]
  /\ Silence(t)
  /\ UNCHANGED <<backend, session, page, reloads>>

-----------------------------------------------------------------------------
(* What the page does with events and answers.                             *)

\* Page q takes the place of p; what was up to date may be behind again.
Replaces(q, p) ==
  [q EXCEPT !.lapsed = Behind(q) \cap (@ \cup (Shown \ Behind(p)))]
\* setQueue, setResources
Show(p, list) == Replaces([p EXCEPT !.list = list], p)
ShowFunds(p, funds) == Replaces([p EXCEPT !.funds = funds], p)

OnUpdate(t, e) ==
  /\ e.kind = "queue:update"
  /\ page' = [page EXCEPT ![t] = Show(@, e.list)]
  /\ UNCHANGED reloads

OnResources(t, e) ==
  /\ e.kind = "resources:update"
  /\ page' = [page EXCEPT ![t] = ShowFunds(@, e.funds)]
  /\ UNCHANGED reloads

OnFinished(t, e) ==
  /\ e.kind = "queue:finished"
  /\ Asks(t, page[t], Nothing)

\* An event arrives at the page.
Deliver(t, s) ==
  /\ bus[t][s] # <<>>
  /\ bus' = [bus EXCEPT ![t][s] = Tail(@)]
  /\ LET e == Head(bus[t][s])
     IN  OnUpdate(t, e) \/ OnResources(t, e) \/ OnFinished(t, e)
  /\ UNCHANGED <<backend, session, joined>>

\* getOverview reads the balance in a transaction, some time after it was asked,
\* and then the queue.
ReadOverview(t, s) ==
  /\ reloads[t][s].step = "asked"
  /\ \E funds \in reloads[t][s].from .. Debits :
       reloads' = [reloads EXCEPT ![t][s] =
         [step |-> "answered", funds |-> funds, list |-> OverviewQueue]]
  /\ UNCHANGED <<backend, bus, session, joined, page>>

ApplyReload(t, s) ==
  LET x == reloads[t][s]
  IN  /\ x.step = "answered"
      /\ page' = [page EXCEPT ![t] =
           [ShowFunds(Show(@, x.list), x.funds) EXCEPT !.loaded = TRUE]]
      /\ reloads' = [reloads EXCEPT ![t][s] = NoReload]
      /\ UNCHANGED <<backend, bus, session, joined>>

\* fetchOverview throws: the page says so and shows what it had.
ReloadFails(t, s) ==
  /\ "fail" \in Faults /\ reloads[t][s].step = "answered"
  /\ page' = [page EXCEPT ![t] = [GivesUp(@) EXCEPT !.loaded = TRUE]]
  /\ reloads' = [reloads EXCEPT ![t][s] = NoReload]
  /\ UNCHANGED <<backend, bus, session, joined>>

-----------------------------------------------------------------------------

Arrive(t) == \E s \in Senders : Deliver(t, s)
ReloadStep(t, s) == ReadOverview(t, s) \/ ApplyReload(t, s)

Next ==
  \/ \E h \in Handlers :
       \/ \E i \in Items, t \in Tabs \cup {Nothing} : Order(h, i, t)
       \/ UpdateFactor(h) \/ Announce(h) \/ HandlerFails(h)
  \/ \E w \in Workers : Finish(w) \/ AnnounceFinished(w) \/ WorkerFails(w)
  \/ SignOut \/ SignIn
  \/ \E t \in Tabs :
       \/ Open(t) \/ Close(t) \/ Join(t) \/ Drop(t) \/ Arrive(t)
       \/ \E s \in Slots : ReloadStep(t, s) \/ ReloadFails(t, s)

Spec == Init /\ [][Next]_vars

-----------------------------------------------------------------------------

\* Nothing is under way that would still change what the page shows.
Resting(t) ==
  /\ page[t].open /\ InFlight(t) = {}
  /\ \A s \in Senders : bus[t][s] = <<>>
  /\ \A h \in Handlers : handler[h] = Quiet
  /\ \A w \in Workers : worker[w] = Nothing

(* Once everything is at rest, the page shows a list and a balance at      *)
(* least as new as its last call of reload: a queue:finished it heard, an  *)
(* order of its own, or its opening.  What it missed while its socket was  *)
(* down does not matter.  There are three exceptions, and no other: that   *)
(* call returned early without a session; a reload failed; an older answer *)
(* or event came in after what was due.  A list that is as new as the last *)
(* commit is exactly the pending orders, unless it comes from a research   *)
(* order, which leaves the others out.                                     *)
RestingView ==
  \A t \in Tabs : Resting(t) =>
    /\ Behind(page[t]) \subseteq page[t].lapsed
    /\ page[t].list.at = Commits => page[t].list.items = Pending \/ page[t].list.partial

(* What README.md:42-44 says of the overview page ("file d'attente avec     *)
(* countdown", "mises a jour en temps reel"): when nothing fails and        *)
(* everything is at rest, its queue is at least as new as the last news     *)
(* that made it reload.                                                     *)
UpToDate == \A t \in Tabs : Resting(t) => "list" \notin Behind(page[t])

(* The answer to the reload that follows an order of this page has that    *)
(* order, unless it is finished by then: the reload is asked for when the  *)
(* order has been answered (handleBuilding, handleShips, handleResearch).  *)
OwnOrderShown ==
  [][\A t \in Tabs, s \in Slots :
       ReadOverview(t, s) /\ reloads[t][s].own # Nothing =>
         reloads[t][s].own \in reloads'[t][s].list.items \cup done]_vars
=============================================================================
