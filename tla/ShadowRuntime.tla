--------------------------- MODULE ShadowRuntime ---------------------------
(* Shadow Mode: shadow/runtime.py with the market window it reads and the
   journal it restores itself from.  One asyncio loop runs the collector's
   sink, the decision worker and the health worker; a task keeps the loop
   until it awaits, so the other tasks move only when pc = "idle".  Every
   journal append is an action of its own: the process may be killed between
   any two, and (when Faults) an append may raise, leaving nothing behind. *)
EXTENDS MarketWindow, FiniteSets, Sequences

CONSTANTS
  Interval, Offset,  \* the decision grid
  Delay,             \* processing_delay_ms
  Grace,             \* SETTLEMENT_GRACE_SECONDS
  Day,               \* NS_PER_DAY
  LossLimit,         \* rolling_24h_loss_fraction
  Returns,           \* equity returns a position can realise
  Faults,            \* may an append raise?
  MaxTime, MaxRuns, MaxDials, LastDecision   \* bounds of the model

ASSUME RuntimeAssumption ==
  /\ {Interval, Day, LossLimit} \subseteq Nat \ {0}
  /\ {Offset, Delay, Grace, MaxTime, MaxRuns, MaxDials, LastDecision} \subseteq Nat
  /\ Returns \subseteq Int
  /\ Faults \in BOOLEAN

VARIABLES
  now,       \* time.time_ns(), in ticks
  journal,   \* the candidate and run_stopped events of events-*.jsonl
  pc,        \* where the loop is: "idle" when every task awaits
  runs,      \* processes started so far
  dialled,   \* connections opened so far: a session id each
  wire,      \* the collector's open connection
  stop,      \* stop_event
  decision,  \* the decision evaluate() is working on
  pending,   \* the decision that holds the global slot
  last,      \* last_decision_at_ns
  equity,    \* simulated equity; returns add up here, as logarithms would
  realized,  \* realized_24h: records [at, amount]
  rolling    \* rolling_24h_return

money  == <<equity, realized, rolling>>
memory == <<wire, stop, decision, pending, last, money, windowVars>>
vars   == <<now, journal, pc, runs, dialled, memory>>

AppendOutcomes == IF Faults THEN BOOLEAN ELSE {TRUE}

-----------------------------------------------------------------------------
\* The journal's events, with what a later start or a reader learns from them:
\* when and for how much a candidate settled, the equity reported, and the
\* session of the window at selection and at settlement.
Event(type, id, at, amount, total, sid) ==
  [type |-> type, id |-> id, at |-> at, amount |-> amount, equity |-> total,
   session |-> sid]

Selected(id)             == Event("selected", id, 0, 0, 0, session)
Settled(id, amount, sum) == Event("settled", id, now, amount, sum, session)
Unresolved(id)           == Event("unresolved", id, 0, 0, 0, None)
Stopped                  == Event("stopped", None, 0, 0, equity, None)

Log(ok, e) == journal' = IF ok THEN Append(journal, e) ELSE journal

Resolving == {"settled", "unresolved"}

\* The selection at place i is still open at the end of j.
OpenAt(j, i) ==
  /\ j[i].type = "selected"
  /\ \A k \in (i + 1)..Len(j) : ~(j[k].type \in Resolving /\ j[k].id = j[i].id)

\* _restore_journal_state's `unresolved`.
Open(j) == {j[i].id : i \in {k \in DOMAIN j : OpenAt(j, k)}}

\* realized_24h as the settlements of j fill it.
Settlements(j) ==
  LET read[n \in 0..Len(j)] ==
        IF n = 0 THEN <<>>
        ELSE IF j[n].type # "settled" THEN read[n - 1]
        ELSE Append(read[n - 1], [at |-> j[n].at, amount |-> j[n].amount])
  IN  read[Len(j)]

Total(s) ==
  LET total[n \in 0..Len(s)] == IF n = 0 THEN 0 ELSE total[n - 1] + s[n].amount
  IN  total[Len(s)]

\* The deque without the expired entries at its head.
Unexpired(s, cutoff) ==
  LET expired(n) == \A i \in 1..n : s[i].at < cutoff
      n == CHOOSE n \in 0..Len(s) :
             expired(n) /\ (n < Len(s) => s[n + 1].at >= cutoff)
  IN  SubSeq(s, n + 1, Len(s))

\* An equity that starts afresh with every process.
FreshEquity(j) == 0

LastSettlement(j, i) ==
  /\ j[i].type = "settled"
  /\ \A k \in (i + 1)..Len(j) : j[k].type # "settled"

\* equity_after of the last settlement.
RestoredEquity(j) ==
  IF \E i \in DOMAIN j : LastSettlement(j, i)
  THEN j[CHOOSE i \in DOMAIN j : LastSettlement(j, i)].equity
  ELSE 0

\* Restoring no losses: the guard starts from zero after a restart.
Amnesia(j) == <<>>

RestoredReturns(j) == Unexpired(Settlements(j), now - Day)

-----------------------------------------------------------------------------
\* Memory is gone when the process is.
ForgetMoney == equity' = 0 /\ realized' = <<>> /\ rolling' = 0

Exit ==
  /\ pc' = "down" /\ stop' = FALSE /\ wire' = None /\ decision' = None
  /\ pending' = None /\ last' = -1
  /\ session' = None /\ rows' = {} /\ latest' = None
  /\ ForgetMoney

Init ==
  /\ now = 0 /\ journal = <<>> /\ pc = "down" /\ runs = 0 /\ dialled = 0
  /\ wire = None /\ stop = FALSE /\ decision = None /\ pending = None /\ last = -1
  /\ equity = 0 /\ realized = <<>> /\ rolling = 0
  /\ WindowInit

Tick == now < MaxTime /\ now' = now + 1 /\ UNCHANGED <<journal, pc, runs, dialled, memory>>

Crash == pc # "down" /\ runs < MaxRuns /\ Exit /\ UNCHANGED <<now, journal, runs, dialled>>

\* ShadowRuntime.__init__ up to the first append of _restore_journal_state.
Start ==
  /\ pc = "down" /\ runs < MaxRuns
  /\ runs' = runs + 1 /\ pc' = "restore"
  /\ equity' = RestoredEquity(journal)
  /\ realized' = RestoredReturns(journal)
  /\ rolling' = Total(RestoredReturns(journal))
  /\ UNCHANGED <<now, journal, dialled, wire, stop, decision, pending, last, windowVars>>

\* A restart that trusts the memory it does not have.
NothingOpen == {}

OpenOnRestart == Open(journal)

\* One candidate_unresolved for each open selection, then run_started or
\* run_resumed; an append that raises here ends the process.
Restore ==
  /\ pc = "restore"
  /\ \E ok \in AppendOutcomes :
       /\ IF OpenOnRestart = {}
          THEN UNCHANGED journal
          ELSE \E id \in OpenOnRestart : Log(ok, Unresolved(id))
       /\ IF ~ok THEN Exit
          ELSE /\ pc' = IF OpenOnRestart = {} THEN "idle" ELSE "restore"
               /\ UNCHANGED memory
  /\ UNCHANGED <<now, runs, dialled>>

-----------------------------------------------------------------------------
\* The collector's side of the loop.
Dial ==
  /\ pc = "idle" /\ wire = None /\ ~stop /\ dialled < MaxDials
  /\ dialled' = dialled + 1 /\ wire' = dialled + 1
  /\ UNCHANGED <<now, journal, pc, runs, stop, decision, pending, last, money, windowVars>>

Disconnect ==
  /\ pc = "idle" /\ wire # None /\ dialled < MaxDials
  /\ wire' = None
  /\ UNCHANGED <<now, journal, pc, runs, dialled, stop, decision, pending, last, money, windowVars>>

\* A session change that leaves the slot alone.
NeverInterrupts == FALSE

Interrupts == Transition(wire) /\ pending # None

(* sink: the window takes the record, then a session change resolves the
   pending candidate.  Its second append, websocket_session_reset, is not kept
   here but may raise like the first.  The collector takes an exception of the
   sink for a broken connection. *)
Sink(kind) ==
  /\ pc = "idle" /\ wire # None
  /\ WindowAccept(kind, wire, now)
  /\ \E ok \in AppendOutcomes, reset \in AppendOutcomes :
       /\ IF Interrupts
          THEN /\ Log(ok, Unresolved(pending))
               /\ pending' = IF ok THEN None ELSE pending
          ELSE UNCHANGED <<journal, pending>>
       /\ wire' = IF Transition(wire) /\ ~((Interrupts => ok) /\ reset) THEN None ELSE wire
  /\ UNCHANGED <<now, pc, runs, dialled, stop, decision, last, money>>

-----------------------------------------------------------------------------
\* The decision worker.
Due(id) == id + Ttl + Horizon + Grace

Settleable(id) ==
  id # None /\ now >= Due(id) /\ latest # None /\ latest >= Due(id)

\* _settlement_pnl: a partial fill is closed at once and only costs.
Amounts(label) ==
  IF label = "NO_FILL" THEN {0} ELSE {r \in Returns : label = "FULL_FILL" \/ r <= 0}

\* _try_settle, continuing at `next`: the equity and the loss window move
\* before the append that may raise.
TrySettle(next) ==
  IF ~Settleable(pending)
  THEN pc' = next /\ UNCHANGED <<journal, pending, money>>
  ELSE \E label \in Labels(pending), ok \in AppendOutcomes :
         /\ pending' = IF ok THEN None ELSE pending
         /\ pc' = IF ok THEN next ELSE "finally"
         /\ IF label \in {"unavailable", "AMBIGUOUS"}
            THEN Log(ok, Unresolved(pending)) /\ UNCHANGED money
            ELSE \E r \in Amounts(label) :
                   /\ equity' = equity + r
                   /\ realized' = Append(realized, [at |-> now, amount |-> r])
                   /\ rolling' = rolling + r
                   /\ Log(ok, Settled(pending, r, equity + r))

Grid(t) == ((t - Offset) \div Interval) * Interval + Offset

DecisionDue ==
  /\ Grid(now) > last /\ now >= Grid(now) + Delay
  /\ Grid(now) \in 0..LastDecision   \* bound

\* _decision_worker's loop body up to evaluate().
Poll ==
  /\ pc = "idle" /\ ~stop
  /\ TrySettle(IF DecisionDue THEN "evaluate" ELSE "idle")
  /\ decision' = IF DecisionDue THEN Grid(now) ELSE None
  /\ UNCHANGED <<now, runs, dialled, wire, stop, last, windowVars>>

\* evaluate() settles again, with a later reading of the clock.
Resettle ==
  /\ pc = "evaluate"
  /\ TrySettle("cycle")
  /\ UNCHANGED <<now, runs, dialled, wire, stop, decision, last, windowVars>>

LossGuardActive(total) == total <= -LossLimit

SlotFree == pending = None

CandidateSets(d) ==
  {"none"} \cup IF FeaturesPossible(d) THEN {"ineligible", "eligible"} ELSE {}

\* The rest of evaluate() up to the decision_cycle append.
Cycle ==
  /\ pc = "cycle"
  /\ realized' = Unexpired(realized, decision - Day)
  /\ rolling' = rolling - (Total(realized) - Total(realized'))
  /\ last' = decision
  /\ \E candidates \in CandidateSets(decision), ok \in AppendOutcomes :
       LET selected == SlotFree /\ ~LossGuardActive(rolling') /\ candidates = "eligible"
       IN  /\ pc' = IF ~ok THEN "finally" ELSE IF selected THEN "select" ELSE "idle"
           /\ decision' = IF ok /\ selected THEN decision ELSE None
  /\ UNCHANGED <<now, journal, runs, dialled, wire, stop, pending, equity, windowVars>>

\* The slot is taken in memory before the candidate_selected append.
Select ==
  /\ pc = "select"
  /\ pending' = decision /\ decision' = None
  /\ \E ok \in AppendOutcomes :
       /\ Log(ok, Selected(decision))
       /\ pc' = IF ok THEN "idle" ELSE "finally"
  /\ UNCHANGED <<now, runs, dialled, wire, stop, last, money, windowVars>>

-----------------------------------------------------------------------------
\* A signal, the automatic stop or the disk guard, whose own append may raise.
Stop ==
  /\ pc = "idle" /\ ~stop
  /\ \E ok \in AppendOutcomes : /\ stop' = ok
                                /\ pc' = IF ok THEN "idle" ELSE "finally"
  /\ UNCHANGED <<now, journal, runs, dialled, wire, decision, pending, last, money, windowVars>>

\* Every task has seen the stop event and returned.
TasksReturn ==
  /\ pc = "idle" /\ stop /\ pc' = "finally"
  /\ UNCHANGED <<now, journal, runs, dialled, memory>>

\* A shutdown that leaves the open candidate to the next start.
LeavesOpen == FALSE

MustResolve == pending # None

\* run_shadow_mode's finally block: first the open candidate, then run_stopped.
Finally ==
  /\ pc = "finally"
  /\ \E ok \in AppendOutcomes :
       IF MustResolve
       THEN /\ Log(ok, Unresolved(pending))
            /\ IF ok THEN /\ pending' = None
                          /\ UNCHANGED <<pc, wire, stop, decision, last, money, windowVars>>
                     ELSE Exit
       ELSE /\ Log(ok, Stopped)
            /\ Exit
  /\ UNCHANGED <<now, runs, dialled>>

Next ==
  \/ Tick \/ Crash \/ Start \/ Restore
  \/ Dial \/ Disconnect \/ \E kind \in Kinds : Sink(kind)
  \/ Poll \/ Resettle \/ Cycle \/ Select
  \/ Stop \/ TasksReturn \/ Finally

Spec == Init /\ [][Next]_vars

(* Fairness: the worker polls every 0.5 s and its synchronous steps run on, the
   clock moves, the collector redials, compose restarts the service
   (restart: unless-stopped), and the exchange keeps sending books. *)
FairSpec ==
  /\ Spec
  /\ WF_vars(Tick) /\ WF_vars(Start) /\ WF_vars(Restore)
  /\ WF_vars(Dial) /\ WF_vars(Sink("book"))
  /\ WF_vars(Poll) /\ WF_vars(Resettle) /\ WF_vars(Cycle) /\ WF_vars(Select)
  /\ WF_vars(TasksReturn) /\ WF_vars(Finally)

-----------------------------------------------------------------------------
\* Every variable keeps to the values the code gives it; the window holds rows of
\* its current session only.
Events ==
  [type : {"selected", "settled", "unresolved", "stopped"}, id : Nat \cup {None},
   at : Nat, amount : Int, equity : Int, session : Nat \cup {None}]

ControlOK ==
  /\ now \in Nat /\ runs \in Nat /\ dialled \in Nat /\ last \in Int /\ equity \in Int
  /\ journal \in Seq(Events)
  /\ pc \in {"down", "restore", "idle", "evaluate", "cycle", "select", "finally"}
  /\ wire \in Nat \cup {None} /\ session \in Nat \cup {None}
  /\ latest \in Nat \cup {None} /\ decision \in Nat \cup {None}
  /\ pending \in Nat \cup {None}
  /\ rows \subseteq [at : Nat, session : {session} \ {None}]
  /\ stop \in BOOLEAN
  /\ pc \in {"evaluate", "cycle", "select"} => decision # None

TypeOK ==
  /\ ControlOK
  /\ realized \in Seq([at : Nat, amount : Int])
  /\ rolling \in Int

\* max_open_positions = 1, judged by the journal alone: whatever crashes,
\* restarts, reconnects and failed appends came between, no two selections are
\* ever open in it at once.
OneOpenCandidate == \A a, b \in Open(journal) : a = b

\* The returns that the settlements of j at or after `since` sum up to.
Returned(j, since) ==
  Total([k \in DOMAIN j |->
         [amount |-> IF j[k].type = "settled" /\ j[k].at >= since THEN j[k].amount ELSE 0]])

\* The rolling 24 h loss guard, replayed from the journal: when a candidate was
\* selected, the settlements of the day before its decision summed above the
\* limit, also where another process had settled them.
RollingGuardHonoured ==
  \A i \in DOMAIN journal : journal[i].type = "selected" =>
    Returned(SubSeq(journal, 1, i), journal[i].id - Day) > -LossLimit

\* A journal is enough to recompute the equity it reports: every settled or
\* run_stopped event carries the sum of the returns settled up to it.
EquityReplayable ==
  \A i \in DOMAIN journal : journal[i].type \in {"settled", "stopped"} =>
    journal[i].equity = Total(Settlements(SubSeq(journal, 1, i)))

\* A candidate is settled only from the WebSocket session it was selected in,
\* never from rows received after a reconnect.
SettledInOneSession ==
  \A i, k \in DOMAIN journal :
    /\ journal[i].type = "selected" /\ journal[k].type = "settled"
    /\ i < k /\ journal[i].id = journal[k].id
    => journal[i].session = journal[k].session

\* Every selection is resolved in the end, settled or not, by the worker, the
\* sink, the shutdown or the next start.
SelectionsResolved == (Open(journal) # {}) ~> (Open(journal) = {})

\* The journal implements the slot: a selection takes it, an event that
\* resolves one frees it, and no decision takes it twice.
SelectedIds == {journal[i].id : i \in {k \in DOMAIN journal : journal[k].type = "selected"}}

Slot == INSTANCE ShadowSlot WITH
  slot  <- IF Open(journal) = {} THEN None ELSE CHOOSE id \in Open(journal) : TRUE,
  used  <- SelectedIds,
  total <- Total(Settlements(journal))

SlotSpec == Slot!Spec
=============================================================================
