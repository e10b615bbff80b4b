------------------------ MODULE ShadowRuntimeProofs ------------------------
(* Proofs about ShadowRuntime, for every value of the constants: its types, at
   most one open selection, the session a candidate settles in, the rolling loss
   guard replayed from the journal, the equity of a journal that takes every
   append, and that the journal implements ShadowSlot.  Lemmas about sums and
   about the settlements of a journal come first; then one part of the inductive
   invariant after the other, each with its step lemma. *)
EXTENDS ShadowRuntime, RecursionLemmas

-----------------------------------------------------------------------------
(* The journal as a sequence: what one more event does to the open selections. *)

OpenAfter(j, e) ==
  IF e.type = "selected" THEN Open(j) \cup {e.id}
  ELSE IF e.type \in Resolving THEN Open(j) \ {e.id}
  ELSE Open(j)

\* A selection opens its decision, a settled or unresolved event closes it, and
\* any other event leaves the open selections alone.
LEMMA OpenAppend ==
  ASSUME NEW j \in Seq(Events), NEW e \in Events
  PROVE  Open(Append(j, e)) = OpenAfter(j, e)
<1> DEFINE n == Len(j) + 1
           J == Append(j, e)
<1>1. /\ Len(J) = n /\ Len(j) \in Nat /\ J[n] = e
      /\ DOMAIN J = 1..n /\ DOMAIN j = 1..Len(j)
      /\ \A i \in 1..Len(j) : J[i] = j[i]
  OBVIOUS
<1>2. OpenAt(J, n) <=> e.type = "selected"
  <2>1. (n + 1)..Len(J) = {}
    BY <1>1
  <2>. QED BY <1>1, <2>1 DEF OpenAt
<1>3. \A i \in 1..Len(j) :
        OpenAt(J, i) <=> OpenAt(j, i) /\ ~(e.type \in Resolving /\ e.id = j[i].id)
  <2>. SUFFICES ASSUME NEW i \in 1..Len(j)
                PROVE  OpenAt(J, i) <=>
                         OpenAt(j, i) /\ ~(e.type \in Resolving /\ e.id = j[i].id)
    OBVIOUS
  <2>1. (i + 1)..Len(J) = ((i + 1)..Len(j)) \cup {n}
    BY <1>1
  <2>2. \A k \in (i + 1)..Len(j) : J[k] = j[k]
    BY <1>1
  <2>. QED BY <1>1, <2>1, <2>2 DEF OpenAt
<1>4. "selected" \notin Resolving
  BY DEF Resolving
<1>5. ASSUME NEW id
      PROVE  id \in Open(J) <=> \/ id \in Open(j) /\ ~(e.type \in Resolving /\ e.id = id)
                                \/ e.type = "selected" /\ id = e.id
  <2>1. id \in Open(J) <=> \E i \in 1..n : OpenAt(J, i) /\ J[i].id = id
    BY <1>1 DEF Open
  <2>2. id \in Open(j) <=> \E i \in 1..Len(j) : OpenAt(j, i) /\ j[i].id = id
    BY <1>1 DEF Open
  <2>3. 1..n = (1..Len(j)) \cup {n}
    BY <1>1
  <2>4. (\E i \in 1..n : OpenAt(J, i) /\ J[i].id = id)
          <=> \/ \E i \in 1..Len(j) : OpenAt(J, i) /\ J[i].id = id
              \/ OpenAt(J, n) /\ J[n].id = id
    BY <2>3
  <2>. QED BY <1>1, <1>2, <1>3, <2>1, <2>2, <2>4
<1>. QED BY <1>4, <1>5 DEF OpenAfter

-----------------------------------------------------------------------------
(* Types. *)

\* What an append leaves is a journal again.
LEMMA LogTyped ==
  ASSUME journal \in Seq(Events), NEW e \in Events, NEW ok, Log(ok, e)
  PROVE  journal' \in Seq(Events)
BY DEF Log

\* The events of the runtime are events, whatever the state they are built in.
LEMMA EventsTyped ==
  ASSUME ControlOK, NEW id \in Nat \cup {None}, NEW r \in Int, NEW sum \in Int
  PROVE  {Selected(id), Settled(id, r, sum), Unresolved(id), Stopped} \subseteq Events
BY DEF ControlOK, Selected, Settled, Unresolved, Stopped, Event, Events

\* The equity a start restores is a number, also from an empty journal.
LEMMA RestoredEquityTyped ==
  ASSUME NEW j \in Seq(Events)
  PROVE  RestoredEquity(j) \in Int
<1>1. CASE \E i \in DOMAIN j : LastSettlement(j, i)
  <2>1. (CHOOSE i \in DOMAIN j : LastSettlement(j, i)) \in DOMAIN j
    BY <1>1
  <2>2. \A i \in DOMAIN j : j[i] \in Events
    OBVIOUS
  <2>3. \A e \in Events : e.equity \in Int
    BY DEF Events
  <2>. QED BY <1>1, <2>1, <2>2, <2>3 DEF RestoredEquity
<1>2. CASE ~ \E i \in DOMAIN j : LastSettlement(j, i)
  BY <1>2 DEF RestoredEquity
<1>. QED BY <1>1, <1>2

\* What a settlement can yield (_settlement_pnl) is a number.
LEMMA AmountsTyped ==
  ASSUME NEW label, NEW r \in Amounts(label)
  PROVE  r \in Int
<1>1. r = 0 \/ r \in Returns
  BY Zenon DEF Amounts
<1>2. Returns \subseteq Int
  BY RuntimeAssumption, Zenon
<1>3. 0 \in Int
  OBVIOUS
<1>. QED BY <1>1, <1>2, <1>3, Zenon

\* The memory of a process that has ended is well typed.
LEMMA ExitTyped ==
  ASSUME ControlOK, Exit, now' = now, runs' = runs, dialled' = dialled,
         journal' \in Seq(Events)
  PROVE  ControlOK'
<1>1. /\ pc' = "down" /\ last' = -1 /\ equity' = 0 /\ stop' = FALSE
      /\ rows' = {} /\ {wire', session', latest', decision', pending'} = {None}
  BY DEF Exit, ForgetMoney
<1>2. last' \in Int /\ equity' \in Int
  BY <1>1
<1>3. stop' \in BOOLEAN
  BY <1>1, Zenon
<1>. QED BY <1>1, <1>2, <1>3 DEF ControlOK

\* The window keeps rows of the session whose record it has just taken.
LEMMA WindowTyped ==
  ASSUME ControlOK, NEW kind, wire \in Nat, WindowAccept(kind, wire, now)
  PROVE  /\ session' \in Nat \cup {None}
         /\ latest' \in Nat \cup {None}
         /\ rows' \subseteq [at : Nat, session : {session'} \ {None}]
<1>1. wire # None /\ session' = wire
  BY WindowAssumption DEF WindowAccept
<1>2. Surviving(wire) \subseteq [at : Nat, session : {wire} \ {None}]
  BY <1>1 DEF ControlOK, Surviving, Transition
<1>3. [at |-> now, session |-> wire] \in [at : Nat, session : {wire} \ {None}]
  BY <1>1 DEF ControlOK
<1>4. Newer(now) \in Nat
  BY DEF ControlOK, Newer
<1>5. CASE kind = "bar"
  BY <1>1, <1>2, <1>5 DEF ControlOK, WindowAccept
<1>6. CASE kind # "bar"
  <2>1. latest' \in Nat
    BY <1>4, <1>6 DEF ControlOK, WindowAccept
  <2>2. rows' \subseteq Surviving(wire) \cup {[at |-> now, session |-> wire]}
    BY <1>6 DEF WindowAccept, Trim
  <2>. QED BY <1>1, <1>2, <1>3, <2>1, <2>2
<1>. QED BY <1>5, <1>6

\* Settling keeps the types and goes on at `next` or ends in the finally block.
LEMMA TrySettleTyped ==
  ASSUME ControlOK, NEW next, TrySettle(next)
  PROVE  /\ journal' \in Seq(Events)
         /\ pending' \in Nat \cup {None}
         /\ equity' \in Int
         /\ pc' \in {next, "finally"}
<1>1. CASE ~Settleable(pending)
  BY <1>1 DEF ControlOK, TrySettle, money
<1>2. CASE Settleable(pending)
  <2>1. PICK label \in Labels(pending), ok \in AppendOutcomes :
          /\ pending' = IF ok THEN None ELSE pending
          /\ pc' = IF ok THEN next ELSE "finally"
          /\ IF label \in {"unavailable", "AMBIGUOUS"}
             THEN Log(ok, Unresolved(pending)) /\ UNCHANGED money
             ELSE \E r \in Amounts(label) :
                    /\ equity' = equity + r
                    /\ realized' = Append(realized, [at |-> now, amount |-> r])
                    /\ rolling' = rolling + r
                    /\ Log(ok, Settled(pending, r, equity + r))
    BY <1>2 DEF TrySettle
  <2>2. pending \in Nat \cup {None} /\ journal \in Seq(Events) /\ equity \in Int
    BY DEF ControlOK
  <2>3. CASE label \in {"unavailable", "AMBIGUOUS"}
    <3>1. Unresolved(pending) \in Events
      BY <2>2, EventsTyped
    <3>2. journal' \in Seq(Events)
      BY <2>1, <2>2, <2>3, <3>1, LogTyped
    <3>. QED BY <2>1, <2>2, <2>3, <3>2 DEF money
  <2>4. CASE label \notin {"unavailable", "AMBIGUOUS"}
    <3>1. PICK r \in Amounts(label) :
            equity' = equity + r /\ Log(ok, Settled(pending, r, equity + r))
      BY <2>1, <2>4
    <3>2. r \in Int /\ equity + r \in Int
      BY <2>2, <3>1, AmountsTyped
    <3>3. Settled(pending, r, equity + r) \in Events
      BY <2>2, <3>2, EventsTyped
    <3>4. journal' \in Seq(Events)
      BY <2>2, <3>1, <3>3, LogTyped
    <3>. QED BY <2>1, <2>2, <3>1, <3>2, <3>4
  <2>. QED BY <2>3, <2>4
<1>. QED BY <1>1, <1>2

\* Every step keeps the types.
LEMMA ControlStep ==
  ASSUME ControlOK, [Next]_vars
  PROVE  ControlOK'
<1>. USE DEF memory, money, windowVars
<1>1. CASE UNCHANGED vars
  BY <1>1 DEF vars, ControlOK
<1>2. CASE Tick
  BY <1>2 DEF Tick, ControlOK
<1>3. CASE Crash
  BY <1>3, ExitTyped DEF Crash, ControlOK
<1>4. CASE Start
  <2>1. RestoredEquity(journal) \in Int
    BY RestoredEquityTyped DEF ControlOK
  <2>. QED BY <1>4, <2>1 DEF Start, ControlOK
<1>5. CASE Restore
  <2>1. PICK ok \in AppendOutcomes :
          /\ IF OpenOnRestart = {} THEN UNCHANGED journal
             ELSE \E id \in OpenOnRestart : Log(ok, Unresolved(id))
          /\ IF ~ok THEN Exit
             ELSE /\ pc' = IF OpenOnRestart = {} THEN "idle" ELSE "restore"
                  /\ UNCHANGED memory
    BY <1>5 DEF Restore
  <2>2. \A id \in OpenOnRestart : id \in Nat \cup {None}
    <3>1. \A i \in DOMAIN journal : journal[i] \in Events
      BY DEF ControlOK
    <3>2. \A e \in Events : e.id \in Nat \cup {None}
      BY DEF Events
    <3>. QED BY <3>1, <3>2 DEF OpenOnRestart, Open
  <2>3. journal' \in Seq(Events)
    <3>1. CASE OpenOnRestart = {}
      BY <2>1, <3>1 DEF ControlOK
    <3>2. CASE OpenOnRestart # {}
      <4>1. PICK id \in OpenOnRestart : Log(ok, Unresolved(id))
        BY <2>1, <3>2
      <4>2. id \in Nat \cup {None}
        BY <2>2, <4>1
      <4>3. Unresolved(id) \in Events
        BY <4>2, EventsTyped
      <4>. QED BY <4>1, <4>3, LogTyped DEF ControlOK
    <3>. QED BY <3>1, <3>2
  <2>4. now' = now /\ runs' = runs /\ dialled' = dialled
    BY <1>5 DEF Restore
  <2>5. CASE ~ok
    BY <2>1, <2>3, <2>4, <2>5, ExitTyped
  <2>6. CASE ok
    BY <2>1, <2>3, <2>4, <2>6 DEF ControlOK
  <2>. QED BY <2>5, <2>6
<1>6. CASE Dial
  BY <1>6 DEF Dial, ControlOK
<1>7. CASE Disconnect
  BY <1>7 DEF Disconnect, ControlOK
<1>8. ASSUME NEW kind \in Kinds, Sink(kind)
      PROVE  ControlOK'
  <2>1. wire \in Nat /\ WindowAccept(kind, wire, now)
    BY <1>8 DEF Sink, ControlOK
  <2>2. /\ session' \in Nat \cup {None} /\ latest' \in Nat \cup {None}
        /\ rows' \subseteq [at : Nat, session : {session'} \ {None}]
    BY <2>1, WindowTyped
  <2>3. PICK ok \in AppendOutcomes, reset \in AppendOutcomes :
          /\ IF Interrupts THEN /\ Log(ok, Unresolved(pending))
                                /\ pending' = IF ok THEN None ELSE pending
                           ELSE UNCHANGED <<journal, pending>>
          /\ wire' = IF Transition(wire) /\ ~((Interrupts => ok) /\ reset)
                     THEN None ELSE wire
    BY <1>8 DEF Sink
  <2>4. Unresolved(pending) \in Events
    BY EventsTyped DEF ControlOK
  <2>5. journal' \in Seq(Events)
    BY <2>3, <2>4, LogTyped DEF ControlOK
  <2>6. pending' \in Nat \cup {None} /\ wire' \in Nat \cup {None}
    BY <2>3 DEF ControlOK
  <2>. QED BY <1>8, <2>2, <2>5, <2>6 DEF Sink, ControlOK
<1>9. CASE Poll
  <2>1. DecisionDue => Grid(now) \in Nat
    BY RuntimeAssumption DEF DecisionDue
  <2>2. Grid(now) # None \/ ~DecisionDue
    BY <2>1, WindowAssumption
  <2>3. /\ journal' \in Seq(Events) /\ pending' \in Nat \cup {None} /\ equity' \in Int
        /\ pc' \in {IF DecisionDue THEN "evaluate" ELSE "idle", "finally"}
    BY <1>9, TrySettleTyped DEF Poll
  <2>. QED BY <1>9, <2>1, <2>2, <2>3 DEF Poll, ControlOK
<1>10. CASE Resettle
  <2>1. /\ journal' \in Seq(Events) /\ pending' \in Nat \cup {None} /\ equity' \in Int
        /\ pc' \in {"cycle", "finally"}
    BY <1>10, TrySettleTyped DEF Resettle
  <2>. QED BY <1>10, <2>1 DEF Resettle, ControlOK
<1>11. CASE Cycle
  BY <1>11 DEF Cycle, ControlOK
<1>12. CASE Select
  <2>1. Selected(decision) \in Events
    BY EventsTyped DEF ControlOK
  <2>2. journal' \in Seq(Events)
    BY <1>12, <2>1, LogTyped DEF Select, ControlOK
  <2>. QED BY <1>12, <2>2 DEF Select, ControlOK
<1>13. CASE Stop
  BY <1>13 DEF Stop, ControlOK, AppendOutcomes
<1>14. CASE TasksReturn
  BY <1>14 DEF TasksReturn, ControlOK
<1>15. CASE Finally
  <2>1. {Unresolved(pending), Stopped} \subseteq Events
    BY EventsTyped DEF ControlOK
  <2>2. journal' \in Seq(Events)
    BY <1>15, <2>1, LogTyped DEF Finally, ControlOK
  <2>3. now' = now /\ runs' = runs /\ dialled' = dialled
    BY <1>15 DEF Finally
  <2>4. CASE Exit
    BY <2>2, <2>3, <2>4, ExitTyped
  <2>5. CASE ~Exit
    BY <1>15, <2>2, <2>3, <2>5 DEF Finally, ControlOK
  <2>. QED BY <2>4, <2>5
<1>. QED BY <1>1, <1>2, <1>3, <1>4, <1>5, <1>6, <1>7, <1>8, <1>9, <1>10, <1>11, <1>12,
            <1>13, <1>14, <1>15 DEF Next

\* The control state of the runtime and its journal stay well typed.
THEOREM ControlTyped == Spec => []ControlOK
<1>1. Init => ControlOK
  <2>. SUFFICES ASSUME Init PROVE ControlOK
    OBVIOUS
  <2>1. last \in Int /\ equity \in Int /\ now \in Nat /\ runs \in Nat /\ dialled \in Nat
    BY DEF Init
  <2>2. stop \in BOOLEAN
    BY Zenon DEF Init
  <2>3. journal \in Seq(Events) /\ rows = {} /\ pc = "down"
    BY DEF Init, WindowInit
  <2>4. {wire, session, latest, decision, pending} = {None}
    BY DEF Init, WindowInit
  <2>. QED BY <2>1, <2>2, <2>3, <2>4 DEF ControlOK
<1>. QED BY <1>1, ControlStep, PTL DEF Spec

-----------------------------------------------------------------------------
(* The slot.  While the loop runs, the journal's open selection is the one in
   memory.  In the finally block the journal may lack it, when the append of
   the selection itself has failed; after a crash memory knows nothing, and the
   journal may hold one selection that restore has to resolve. *)

SlotMatches ==
  /\ pc \in {"down", "restore"} => pending = None
  /\ pc \in {"idle", "evaluate", "cycle", "select"} => Open(journal) = {pending} \ {None}
  /\ pc = "select" => pending = None
  /\ pc = "finally" => Open(journal) \subseteq {pending} \ {None}

SlotInv == SlotMatches /\ OneOpenCandidate

\* The open selections after an append, and after one that may have failed.
LEMMA LogOpen ==
  ASSUME ControlOK, NEW e \in Events, NEW ok, Log(ok, e)
  PROVE  Open(journal') = IF ok THEN OpenAfter(journal, e) ELSE Open(journal)
BY OpenAppend DEF Log, ControlOK

\* A resolving event closes its decision and nothing else.
LEMMA ResolveOpen ==
  ASSUME NEW j, NEW id, NEW e, e.type \in Resolving, e.id = id
  PROVE  OpenAfter(j, e) = Open(j) \ {id}
BY DEF OpenAfter, Resolving

\* candidate_unresolved closes its decision, if its append succeeds.
LEMMA UnresolvedOpen ==
  ASSUME ControlOK, NEW id \in Nat \cup {None}, NEW ok, Log(ok, Unresolved(id))
  PROVE  Open(journal') = IF ok THEN Open(journal) \ {id} ELSE Open(journal)
<1>1. Unresolved(id) \in Events
  BY EventsTyped
<1>2. Unresolved(id).type \in Resolving /\ Unresolved(id).id = id
  BY DEF Unresolved, Event, Resolving
<1>. QED BY <1>1, <1>2, LogOpen, ResolveOpen

\* candidate_settled closes its decision, if its append succeeds.
LEMMA SettledOpen ==
  ASSUME ControlOK, NEW id \in Nat \cup {None}, NEW r \in Int, NEW sum \in Int, NEW ok,
         Log(ok, Settled(id, r, sum))
  PROVE  Open(journal') = IF ok THEN Open(journal) \ {id} ELSE Open(journal)
<1>1. Settled(id, r, sum) \in Events
  BY EventsTyped
<1>2. Settled(id, r, sum).type \in Resolving /\ Settled(id, r, sum).id = id
  BY DEF Settled, Event, Resolving
<1>. QED BY <1>1, <1>2, LogOpen, ResolveOpen

\* Settling frees the slot in the journal and in memory, or in neither.
LEMMA TrySettleSlot ==
  ASSUME ControlOK, NEW next, TrySettle(next), Open(journal) = {pending} \ {None}
  PROVE  /\ Open(journal') = {pending'} \ {None}
         /\ pc' \in {next, "finally"}
<1>0. pc' \in {next, "finally"}
  BY TrySettleTyped
<1>1. CASE ~Settleable(pending)
  BY <1>0, <1>1 DEF TrySettle
<1>2. CASE Settleable(pending)
  <2>1. PICK label \in Labels(pending), ok \in AppendOutcomes :
          /\ pending' = IF ok THEN None ELSE pending
          /\ IF label \in {"unavailable", "AMBIGUOUS"}
             THEN Log(ok, Unresolved(pending))
             ELSE \E r \in Amounts(label) : Log(ok, Settled(pending, r, equity + r))
    BY <1>2 DEF TrySettle
  <2>2. pending \in Nat \cup {None} /\ equity \in Int
    BY DEF ControlOK
  <2>3. Open(journal') = IF ok THEN Open(journal) \ {pending} ELSE Open(journal)
    <3>1. CASE label \in {"unavailable", "AMBIGUOUS"}
      BY <2>1, <2>2, <3>1, UnresolvedOpen
    <3>2. CASE label \notin {"unavailable", "AMBIGUOUS"}
      <4>1. PICK r \in Amounts(label) : Log(ok, Settled(pending, r, equity + r))
        BY <2>1, <3>2
      <4>2. r \in Int /\ equity + r \in Int
        BY <2>2, AmountsTyped
      <4>. QED BY <2>2, <4>1, <4>2, SettledOpen
    <3>. QED BY <3>1, <3>2
  <2>. QED BY <1>0, <2>1, <2>3
<1>. QED BY <1>1, <1>2

\* Every step keeps the slot and the journal together.
LEMMA SlotStep ==
  ASSUME ControlOK, SlotInv, [Next]_vars
  PROVE  SlotInv'
<1>. USE DEF memory, SlotInv, SlotMatches, OneOpenCandidate
<1>1. CASE UNCHANGED vars
  BY <1>1 DEF vars
<1>2. CASE Tick
  BY <1>2 DEF Tick
<1>3. CASE Crash
  BY <1>3 DEF Crash, Exit
<1>4. CASE Start
  BY <1>4 DEF Start
<1>5. CASE Restore
  <2>1. PICK ok \in AppendOutcomes :
          /\ IF OpenOnRestart = {} THEN UNCHANGED journal
             ELSE \E id \in OpenOnRestart : Log(ok, Unresolved(id))
          /\ IF ~ok THEN Exit
             ELSE /\ pc' = IF OpenOnRestart = {} THEN "idle" ELSE "restore"
                  /\ UNCHANGED memory
    BY <1>5 DEF Restore
  <2>2. pc = "restore" /\ pending = None /\ pending' = None
    BY <1>5, <2>1 DEF Restore, Exit
  <2>3. CASE OpenOnRestart = {}
    <3>1. Open(journal') = {}
      BY <2>1, <2>3 DEF OpenOnRestart
    <3>2. pc' \in {"idle", "down"}
      BY <2>1, <2>3 DEF Exit
    <3>. QED BY <2>2, <3>1, <3>2
  <2>4. CASE OpenOnRestart # {}
    <3>1. PICK id \in Open(journal) : Log(ok, Unresolved(id))
      BY <2>1, <2>4 DEF OpenOnRestart
    <3>2. id \in Nat \cup {None}
      <4>1. \A i \in DOMAIN journal : journal[i] \in Events
        BY DEF ControlOK
      <4>2. \A e \in Events : e.id \in Nat \cup {None}
        BY DEF Events
      <4>. QED BY <4>1, <4>2 DEF Open
    <3>3. Open(journal') \subseteq Open(journal)
      BY <3>1, <3>2, UnresolvedOpen
    <3>4. pc' \in {"restore", "down"}
      BY <2>1, <2>4 DEF Exit
    <3>. QED BY <2>2, <3>3, <3>4
  <2>. QED BY <2>3, <2>4
<1>6. CASE Dial
  BY <1>6 DEF Dial
<1>7. CASE Disconnect
  BY <1>7 DEF Disconnect
<1>8. ASSUME NEW kind \in Kinds, Sink(kind)
      PROVE  SlotInv'
  <2>1. PICK ok \in AppendOutcomes :
          IF Interrupts THEN /\ Log(ok, Unresolved(pending))
                             /\ pending' = IF ok THEN None ELSE pending
                        ELSE UNCHANGED <<journal, pending>>
    BY <1>8 DEF Sink
  <2>2. pc = "idle" /\ pc' = "idle"
    BY <1>8 DEF Sink
  <2>3. pending \in Nat \cup {None}
    BY DEF ControlOK
  <2>4. Open(journal') = {pending'} \ {None}
    BY <2>1, <2>2, <2>3, UnresolvedOpen
  <2>. QED BY <2>2, <2>4
<1>9. CASE Poll
  <2>1. pc = "idle" /\ TrySettle(IF DecisionDue THEN "evaluate" ELSE "idle")
    BY <1>9 DEF Poll
  <2>2. /\ Open(journal') = {pending'} \ {None}
        /\ pc' \in {IF DecisionDue THEN "evaluate" ELSE "idle", "finally"}
    BY <2>1, TrySettleSlot
  <2>. QED BY <2>2
<1>10. CASE Resettle
  <2>1. pc = "evaluate" /\ TrySettle("cycle")
    BY <1>10 DEF Resettle
  <2>2. Open(journal') = {pending'} \ {None} /\ pc' \in {"cycle", "finally"}
    BY <2>1, TrySettleSlot
  <2>. QED BY <2>2
<1>11. CASE Cycle
  <2>1. pc = "cycle" /\ journal' = journal /\ pending' = pending
    BY <1>11 DEF Cycle
  <2>2. pc' \in {"finally", "select", "idle"} /\ (pc' = "select" => pending = None)
    BY <1>11 DEF Cycle, SlotFree
  <2>. QED BY <2>1, <2>2
<1>12. CASE Select
  <2>1. PICK ok \in AppendOutcomes :
          Log(ok, Selected(decision)) /\ pc' = IF ok THEN "idle" ELSE "finally"
    BY <1>12 DEF Select
  <2>2. Selected(decision) \in Events
    BY EventsTyped DEF ControlOK
  <2>3. pc = "select" /\ pending = None /\ pending' = decision /\ decision # None
    BY <1>12 DEF Select, ControlOK
  <2>4. OpenAfter(journal, Selected(decision)) = Open(journal) \cup {decision}
    BY DEF OpenAfter, Selected, Event
  <2>5. Open(journal') = IF ok THEN {decision} ELSE {}
    BY <2>1, <2>2, <2>3, <2>4, LogOpen
  <2>. QED BY <2>1, <2>3, <2>5
<1>13. CASE Stop
  BY <1>13 DEF Stop
<1>14. CASE TasksReturn
  BY <1>14 DEF TasksReturn
<1>15. CASE Finally
  <2>1. CASE pending # None
    <3>1. PICK ok \in AppendOutcomes :
            /\ Log(ok, Unresolved(pending))
            /\ IF ok THEN pending' = None /\ pc' = pc ELSE Exit
      BY <1>15, <2>1 DEF Finally, MustResolve
    <3>2. pending \in Nat \cup {None}
      BY DEF ControlOK
    <3>3. Open(journal') = IF ok THEN Open(journal) \ {pending} ELSE Open(journal)
      BY <3>1, <3>2, UnresolvedOpen
    <3>. QED BY <1>15, <3>1, <3>3 DEF Finally, Exit
  <2>2. CASE pending = None
    <3>1. PICK ok \in AppendOutcomes : Log(ok, Stopped) /\ Exit
      BY <1>15, <2>2 DEF Finally, MustResolve
    <3>2. Stopped \in Events
      BY EventsTyped, 0 \in Nat, 0 \in Int
    <3>3. Open(journal') = Open(journal)
      BY <3>1, <3>2, LogOpen DEF OpenAfter, Stopped, Event, Resolving
    <3>. QED BY <3>1, <3>3 DEF Exit
  <2>. QED BY <2>1, <2>2
<1>. QED BY <1>1, <1>2, <1>3, <1>4, <1>5, <1>6, <1>7, <1>8, <1>9, <1>10, <1>11, <1>12,
            <1>13, <1>14, <1>15 DEF Next

\* Whatever crashes, restarts, reconnects or fails to append, the journal never
\* holds two open selections (_restore_journal_state, evaluate, the shutdown).
THEOREM OneOpenCandidateHolds == Spec => []OneOpenCandidate
<1>1. Init => SlotInv
  <2>. SUFFICES ASSUME Init PROVE SlotInv
    OBVIOUS
  <2>1. journal = <<>> /\ pc = "down" /\ pending = None
    BY DEF Init
  <2>2. Open(journal) = {}
    BY <2>1 DEF Open
  <2>. QED BY <2>1, <2>2 DEF SlotInv, SlotMatches, OneOpenCandidate
<1>2. SlotInv => OneOpenCandidate
  BY DEF SlotInv
<1>. QED BY <1>1, <1>2, ControlTyped, SlotStep, PTL DEF Spec

-----------------------------------------------------------------------------
(* Sums of amounts.  A sum is the last of the running totals, and two runs of
   totals that grow by the same amounts differ by what they started from. *)

\* The records of s carry whole amounts, so that they can be added up.
Amounted(s) == Len(s) \in Nat /\ \A i \in 1..Len(s) : s[i].amount \in Int

\* f is the running total of s, the recursion the definition of Total chooses.
Totals(f, s) ==
  /\ f \in [0..Len(s) -> Int] /\ f[0] = 0
  /\ \A i \in 1..Len(s) : f[i] = f[i - 1] + s[i].amount

\* A sum (rolling_24h_return, the replayed equity) is the last running total.
LEMMA SumIsTotal ==
  ASSUME NEW s, Amounted(s)
  PROVE  \E f : Totals(f, s) /\ Total(s) = f[Len(s)]
<1>. DEFINE n == Len(s)
            G == [p \in (1 .. n) \X Int |-> p[2] + s[p[1]].amount]
            Def(f) == [i \in 0 .. n |-> IF i = 0 THEN 0 ELSE f[i - 1] + s[i].amount]
            chosen == CHOOSE f : f = Def(f)
<1>1. n \in Nat /\ \A i \in 1 .. n : s[i].amount \in Int
  BY DEF Amounted
<1>2. Total(s) = chosen[n]
  BY DEF Total
<1>. HIDE DEF n
<1>3. \A i \in 1 .. n, x \in Int : G[<<i, x>>] = x + s[i].amount
  OBVIOUS
<1>. HIDE DEF G
<1>4. \A i \in 1 .. n, x \in Int : G[<<i, x>>] \in Int
  <2>1. SUFFICES ASSUME NEW i \in 1 .. n, NEW x \in Int PROVE x + s[i].amount \in Int
    BY <1>3
  <2>. QED BY <1>1
<1>5. PICK f : Recursion(f, n, Int, 0, G)
  BY <1>1, <1>4, 0 \in Int, RecursionExists
<1>6. ASSUME NEW i \in 1 .. n PROVE f[i] = f[i - 1] + s[i].amount
  <2>1. i - 1 \in 0 .. n
    BY <1>1
  <2>2. f[i - 1] \in Int /\ f[i] = G[<<i, f[i - 1]>>]
    BY <1>5, <2>1 DEF Recursion
  <2>. QED BY <1>3, <2>2
<1>7. f = Def(f)
  <2>1. \A i \in 0 .. n : f[i] = IF i = 0 THEN 0 ELSE f[i - 1] + s[i].amount
    BY <1>1, <1>5, <1>6 DEF Recursion
  <2>2. f = [i \in 0 .. n |-> f[i]]
    BY <1>5 DEF Recursion
  <2>. QED BY <2>1, <2>2
<1>8. chosen = Def(chosen)
  BY <1>7
<1>. HIDE DEF chosen
<1>9. chosen[0] = 0 /\ \A i \in 1 .. n : chosen[i] = chosen[i - 1] + s[i].amount
  BY <1>1, <1>8
<1>10. DOMAIN chosen = 0 .. n
  BY <1>8
<1>. DEFINE T == {i \in 0 .. n : chosen[i] = f[i]}
<1>11. \A i \in 0 .. n : i \in T
  <2>1. 0 \in T
    BY <1>1, <1>5, <1>9 DEF Recursion
  <2>2. \A i \in 0 .. n - 1 : i \in T => i + 1 \in T
    <3>1. SUFFICES ASSUME NEW i \in 0 .. n - 1, chosen[i] = f[i] PROVE chosen[i + 1] = f[i + 1]
      BY <1>1
    <3>2. i + 1 \in 1 .. n /\ (i + 1) - 1 = i
      BY <1>1
    <3>. QED BY <1>6, <1>9, <3>1, <3>2
  <2>. HIDE DEF T
  <2>. QED BY <1>1, <2>1, <2>2, UpTo
<1>12. chosen[n] = f[n]
  BY <1>1, <1>11
<1>13. Totals(f, s)
  BY <1>5, <1>6 DEF Recursion, Totals, n
<1>. QED BY <1>2, <1>12, <1>13 DEF n

\* The totals f from the d-th on grow like the first n of g.
Alike(f, g, n, d) ==
  /\ \A i \in 0 .. n : f[i + d] \in Int /\ g[i] \in Int
  /\ \A i \in 1 .. n : f[i + d] - f[i + d - 1] = g[i] - g[i - 1]

\* Totals that grow alike end as far apart as they began.
LEMMA TotalsGrowAlike ==
  ASSUME NEW n \in Nat, NEW d \in Nat, NEW f, NEW g, Alike(f, g, n, d)
  PROVE  f[n + d] - f[d] = g[n] - g[0]
<1>. USE DEF Alike
<1>. DEFINE T == {i \in 0 .. n : f[i + d] - f[d] = g[i] - g[0]}
<1>1. 0 \in T
  <2>1. 0 \in 0 .. n /\ 0 + d = d
    OBVIOUS
  <2>. QED BY <2>1
<1>2. \A i \in 0 .. n - 1 : i \in T => i + 1 \in T
  <2>1. SUFFICES ASSUME NEW i \in 0 .. n - 1, f[i + d] - f[d] = g[i] - g[0]
                 PROVE  f[(i + 1) + d] - f[d] = g[i + 1] - g[0]
    OBVIOUS
  <2>2. i + 1 \in 1 .. n /\ i \in 0 .. n /\ i + 1 \in 0 .. n /\ 0 \in 0 .. n
        /\ (i + 1) - 1 = i /\ (i + 1) + d - 1 = i + d /\ 0 + d = d
    OBVIOUS
  <2>3. f[(i + 1) + d] - f[i + d] = g[i + 1] - g[i]
    BY <2>2
  <2>4. {f[(i + 1) + d], f[i + d], f[d], g[i + 1], g[i], g[0]} \subseteq Int
    BY <2>2
  <2>. QED BY <2>1, <2>3, <2>4
<1>3. n \in T
  <2>. HIDE DEF T
  <2>1. \A i \in 0 .. n : i \in T
    BY <1>1, <1>2, UpTo
  <2>. QED BY <2>1
<1>. QED BY <1>3

\* A sum of amounts is a number.
LEMMA SumTyped ==
  ASSUME NEW s, Amounted(s)
  PROVE  Total(s) \in Int
<1>1. PICK f : Totals(f, s) /\ Total(s) = f[Len(s)]
  BY SumIsTotal
<1>. QED BY <1>1 DEF Totals, Amounted

\* Leaving out amounts of zero at the head changes no sum.
LEMMA SumDrop ==
  ASSUME NEW s, NEW t, Amounted(s), Amounted(t), NEW d \in Nat, Len(s) = Len(t) + d,
         \A i \in 1 .. d : s[i].amount = 0,
         \A i \in 1 .. Len(t) : s[i + d].amount = t[i].amount
  PROVE  Total(s) = Total(t)
<1>1. PICK f : Totals(f, s) /\ Total(s) = f[Len(s)]
  BY SumIsTotal
<1>2. PICK g : Totals(g, t) /\ Total(t) = g[Len(t)]
  BY SumIsTotal
<1>. DEFINE n == Len(t)
<1>3. n \in Nat /\ Len(s) = n + d
  BY DEF Amounted
<1>. HIDE DEF n
<1>4. /\ \A i \in 0 .. n + d : f[i] \in Int
      /\ f[0] = 0 /\ \A i \in 1 .. n + d : f[i] = f[i - 1] + s[i].amount
  BY <1>1, <1>3 DEF Totals
<1>5. /\ \A i \in 0 .. n : g[i] \in Int
      /\ g[0] = 0 /\ \A i \in 1 .. n : g[i] = g[i - 1] + t[i].amount
  BY <1>2 DEF Totals, n
<1>6. f[d] = 0
  <2>. DEFINE T == {i \in 0 .. d : f[i] = 0}
  <2>1. 0 \in T
    BY <1>4
  <2>2. \A i \in 0 .. d - 1 : i \in T => i + 1 \in T
    <3>1. SUFFICES ASSUME NEW i \in 0 .. d - 1, f[i] = 0 PROVE f[i + 1] = 0
      OBVIOUS
    <3>2. i + 1 \in 1 .. d /\ i + 1 \in 1 .. n + d /\ (i + 1) - 1 = i
      BY <1>3
    <3>. QED BY <1>4, <3>1, <3>2
  <2>. HIDE DEF T
  <2>3. \A i \in 0 .. d : i \in T
    BY <2>1, <2>2, UpTo
  <2>. QED BY <2>3 DEF T
<1>7. ASSUME NEW i \in 1 .. n PROVE f[i + d] - f[i + d - 1] = g[i] - g[i - 1]
  <2>1. s[i + d].amount = t[i].amount /\ t[i].amount \in Int
    BY DEF n, Amounted
  <2>2. i + d \in 1 .. n + d /\ i + d - 1 \in 0 .. n + d /\ i - 1 \in 0 .. n
    BY <1>3
  <2>3. f[i + d] = f[i + d - 1] + s[i + d].amount /\ f[i + d - 1] \in Int
    BY <1>4, <2>2
  <2>4. g[i] = g[i - 1] + t[i].amount /\ g[i - 1] \in Int
    BY <1>5, <2>2
  <2>. QED BY <2>1, <2>3, <2>4
<1>8. \A i \in 0 .. n : f[i + d] \in Int /\ g[i] \in Int
  BY <1>3, <1>4, <1>5
<1>9. f[n + d] - f[d] = g[n] - g[0]
  <2>1. Alike(f, g, n, d)
    BY <1>7, <1>8 DEF Alike
  <2>. QED BY <1>3, <2>1, TotalsGrowAlike
<1>10. f[n + d] \in Int /\ g[n] \in Int
  BY <1>3, <1>4, <1>5
<1>. QED BY <1>1, <1>2, <1>3, <1>5, <1>6, <1>9, <1>10 DEF n

\* One more amount is added to the sum.
LEMMA SumAppend ==
  ASSUME NEW s, NEW t, Amounted(s), Amounted(t), Len(t) = Len(s) + 1,
         \A i \in 1 .. Len(s) : t[i].amount = s[i].amount
  PROVE  Total(t) = Total(s) + t[Len(t)].amount
<1>1. PICK f : Totals(f, t) /\ Total(t) = f[Len(t)]
  BY SumIsTotal
<1>2. PICK g : Totals(g, s) /\ Total(s) = g[Len(s)]
  BY SumIsTotal
<1>. DEFINE n == Len(s)
<1>3. n \in Nat /\ Len(t) = n + 1
  BY DEF Amounted
<1>4. \A i \in 1 .. n : t[i].amount = s[i].amount
  OBVIOUS
<1>. HIDE DEF n
<1>5. /\ \A i \in 0 .. n + 1 : f[i] \in Int
      /\ f[0] = 0 /\ \A i \in 1 .. n + 1 : f[i] = f[i - 1] + t[i].amount
  BY <1>1, <1>3 DEF Totals
<1>6. /\ \A i \in 0 .. n : g[i] \in Int
      /\ g[0] = 0 /\ \A i \in 1 .. n : g[i] = g[i - 1] + s[i].amount
  BY <1>2 DEF Totals, n
<1>. DEFINE T == {i \in 0 .. n : f[i] = g[i]}
<1>7. 0 \in T
  BY <1>3, <1>5, <1>6
<1>8. \A i \in 0 .. n - 1 : i \in T => i + 1 \in T
  <2>1. SUFFICES ASSUME NEW i \in 0 .. n - 1, f[i] = g[i] PROVE f[i + 1] = g[i + 1]
    BY <1>3
  <2>2. i + 1 \in 1 .. n /\ i + 1 \in 1 .. n + 1 /\ (i + 1) - 1 = i
    BY <1>3
  <2>. QED BY <1>4, <1>5, <1>6, <2>1, <2>2
<1>9. f[n] = g[n]
  <2>. HIDE DEF T
  <2>1. \A i \in 0 .. n : i \in T
    BY <1>3, <1>7, <1>8, UpTo
  <2>. QED BY <1>3, <2>1 DEF T
<1>10. n + 1 \in 1 .. n + 1 /\ (n + 1) - 1 = n
  BY <1>3
<1>11. f[n + 1] = f[n] + t[n + 1].amount
  BY <1>5, <1>10
<1>. QED BY <1>1, <1>2, <1>3, <1>9, <1>11 DEF n

\* Nothing sums up to zero.
LEMMA SumEmpty == Total(<<>>) = 0
<1>1. Amounted(<<>>) /\ Len(<<>>) = 0
  BY EmptySeq DEF Amounted
<1>2. PICK f : Totals(f, <<>>) /\ Total(<<>>) = f[Len(<<>>)]
  BY <1>1, SumIsTotal
<1>. QED BY <1>1, <1>2 DEF Totals

-----------------------------------------------------------------------------
(* The settlements of a journal, as a restart reads them. *)

\* The settlements: when, and for how much.
Entries == [at : Nat, amount : Int]

\* The settlement the event e stands for.
Entry(e) == [at |-> e.at, amount |-> e.amount]

\* What the replay of the event e makes of the settlements q read so far.
OneMore(q, e) == IF e.type # "settled" THEN q ELSE Append(q, Entry(e))

\* f reads the settlements of the first n events of j.
Reading(f, j, n) ==
  /\ f \in [0..n -> Seq(Entries)] /\ f[0] = <<>>
  /\ \A i \in 1..n : f[i] = OneMore(f[i - 1], j[i])

\* Reading an event leaves a sequence of settlements.
LEMMA OneMoreTyped ==
  ASSUME NEW q \in Seq(Entries), NEW e \in Events
  PROVE  OneMore(q, e) \in Seq(Entries)
<1>1. Entry(e) \in Entries
  BY DEF Entry, Entries, Events
<1>. QED BY <1>1 DEF OneMore

\* What is read of a journal is what reading it event by event ends with.
LEMMA SettlementsAreRead ==
  ASSUME NEW j \in Seq(Events)
  PROVE  \E f : Reading(f, j, Len(j)) /\ Settlements(j) = f[Len(j)]
<1>. DEFINE n == Len(j)
            S == Seq(Entries)
            G == [p \in (1 .. n) \X S |-> OneMore(p[2], j[p[1]])]
            Def(f) == [i \in 0 .. n |->
                         IF i = 0 THEN <<>>
                         ELSE IF j[i].type # "settled" THEN f[i - 1]
                         ELSE Append(f[i - 1], [at |-> j[i].at, amount |-> j[i].amount])]
            chosen == CHOOSE f : f = Def(f)
<1>1. n \in Nat /\ \A i \in 1 .. n : j[i] \in Events
  BY LenProperties, ElementOfSeq
<1>2. Settlements(j) = chosen[n]
  BY DEF Settlements
<1>. HIDE DEF n
<1>3. \A i \in 1 .. n, q \in S : G[<<i, q>>] = OneMore(q, j[i])
  OBVIOUS
<1>. HIDE DEF G
<1>4. \A i \in 1 .. n, q \in S : G[<<i, q>>] \in S
  BY <1>1, <1>3, OneMoreTyped
<1>0. <<>> \in S
  BY EmptySeq
<1>. HIDE DEF S, Def, chosen
<1>5. PICK f : Recursion(f, n, S, <<>>, G)
  BY <1>0, <1>1, <1>4, RecursionExists
<1>6. ASSUME NEW i \in 1 .. n PROVE f[i] = OneMore(f[i - 1], j[i])
  <2>1. i - 1 \in 0 .. n
    BY <1>1
  <2>2. f[i - 1] \in S /\ f[i] = G[<<i, f[i - 1]>>]
    BY <1>5, <2>1 DEF Recursion
  <2>. QED BY <1>3, <2>2
<1>7. f = Def(f)
  <2>1. \A i \in 0 .. n : i # 0 => f[i] = OneMore(f[i - 1], j[i])
    BY <1>1, <1>6
  <2>2. f[0] = <<>>
    BY <1>5 DEF Recursion
  <2>3. f = [i \in 0 .. n |-> f[i]]
    BY <1>5 DEF Recursion
  <2>4. Def(f) = [i \in 0 .. n |-> IF i = 0 THEN <<>> ELSE OneMore(f[i - 1], j[i])]
    BY DEF Def, OneMore, Entry
  <2>. QED BY <2>1, <2>2, <2>3, <2>4
<1>8. chosen = Def(chosen)
  BY <1>7 DEF chosen
<1>9. chosen[0] = <<>> /\ \A i \in 1 .. n : chosen[i] = OneMore(chosen[i - 1], j[i])
  <2>1. Def(chosen) = [i \in 0 .. n |-> IF i = 0 THEN <<>> ELSE OneMore(chosen[i - 1], j[i])]
    BY DEF Def, OneMore, Entry
  <2>. QED BY <1>1, <1>8, <2>1
<1>. DEFINE T == {i \in 0 .. n : chosen[i] = f[i]}
<1>11. \A i \in 0 .. n : i \in T
  <2>1. 0 \in T
    BY <1>1, <1>5, <1>9 DEF Recursion
  <2>2. \A i \in 0 .. n - 1 : i \in T => i + 1 \in T
    <3>1. SUFFICES ASSUME NEW i \in 0 .. n - 1, chosen[i] = f[i] PROVE chosen[i + 1] = f[i + 1]
      BY <1>1
    <3>2. i + 1 \in 1 .. n /\ (i + 1) - 1 = i
      BY <1>1
    <3>. QED BY <1>6, <1>9, <3>1, <3>2
  <2>. HIDE DEF T
  <2>. QED BY <1>1, <2>1, <2>2, UpTo
<1>12. chosen[n] = f[n]
  BY <1>1, <1>11
<1>13. Reading(f, j, n)
  BY <1>5, <1>6 DEF Recursion, Reading, S
<1>. QED BY <1>2, <1>12, <1>13 DEF n

\* What a restart reads of a journal is a sequence of settlements.
LEMMA SettlementsTyped ==
  ASSUME NEW j \in Seq(Events)
  PROVE  Settlements(j) \in Seq(Entries)
<1>1. PICK f : Reading(f, j, Len(j)) /\ Settlements(j) = f[Len(j)]
  BY SettlementsAreRead
<1>2. Len(j) \in 0 .. Len(j)
  BY LenProperties
<1>. QED BY <1>1, <1>2 DEF Reading

\* One more event is one more settlement, or none.
LEMMA SettlementsAppend ==
  ASSUME NEW j \in Seq(Events), NEW e \in Events
  PROVE  Settlements(Append(j, e)) = OneMore(Settlements(j), e)
<1>. DEFINE n == Len(j)
            J == Append(j, e)
<1>1. n \in Nat /\ Len(J) = n + 1 /\ J[n + 1] = e /\ J \in Seq(Events)
  BY LenProperties, AppendProperties
<1>2. \A i \in 1 .. n : J[i] = j[i]
  BY AppendProperties
<1>. HIDE DEF J
<1>3. PICK f : Reading(f, j, n) /\ Settlements(j) = f[n]
  BY SettlementsAreRead
<1>4. PICK g : Reading(g, J, n + 1) /\ Settlements(J) = g[n + 1]
  <2>1. \E g : Reading(g, J, Len(J)) /\ Settlements(J) = g[Len(J)]
    BY <1>1, SettlementsAreRead
  <2>. QED BY <1>1, <2>1
<1>. HIDE DEF n
<1>5. g[0] = f[0] /\ \A i \in 1 .. n : g[i] = OneMore(g[i - 1], j[i])
  <2>1. \A i \in 1 .. n : i \in 1 .. n + 1
    BY <1>1
  <2>. QED BY <1>2, <1>3, <1>4, <2>1 DEF Reading
<1>6. \A i \in 1 .. n : f[i] = OneMore(f[i - 1], j[i])
  BY <1>3 DEF Reading
<1>. DEFINE T == {i \in 0 .. n : g[i] = f[i]}
<1>7. \A i \in 0 .. n : i \in T
  <2>1. 0 \in T
    BY <1>1, <1>5
  <2>2. \A i \in 0 .. n - 1 : i \in T => i + 1 \in T
    <3>1. SUFFICES ASSUME NEW i \in 0 .. n - 1, g[i] = f[i] PROVE g[i + 1] = f[i + 1]
      BY <1>1
    <3>2. i + 1 \in 1 .. n /\ (i + 1) - 1 = i
      BY <1>1
    <3>. QED BY <1>5, <1>6, <3>1, <3>2
  <2>. HIDE DEF T
  <2>. QED BY <1>1, <2>1, <2>2, UpTo
<1>8. g[n] = f[n]
  BY <1>1, <1>7
<1>9. n + 1 \in 1 .. n + 1 /\ (n + 1) - 1 = n
  BY <1>1
<1>10. g[n + 1] = OneMore(g[n], e)
  BY <1>1, <1>4, <1>9 DEF Reading
<1>. QED BY <1>3, <1>4, <1>8, <1>10 DEF J

\* An empty journal has no settlements.
LEMMA SettlementsEmpty == Settlements(<<>>) = <<>>
<1>1. <<>> \in Seq(Events) /\ Len(<<>>) = 0
  BY EmptySeq
<1>2. PICK f : Reading(f, <<>>, Len(<<>>)) /\ Settlements(<<>>) = f[Len(<<>>)]
  BY <1>1, SettlementsAreRead
<1>. QED BY <1>1, <1>2 DEF Reading

-----------------------------------------------------------------------------
(* The returns of a day. *)

\* The part of the settlements q at or after `since`.
Part(q, since) ==
  [k \in DOMAIN q |-> [amount |-> IF q[k].at >= since THEN q[k].amount ELSE 0]]

\* The sum of the settlements q at or after `since`.
Within(q, since) == Total(Part(q, since))

\* What the event e adds to the returns at or after `since`.
Share(e, since) == IF e.type = "settled" /\ e.at >= since THEN e.amount ELSE 0

\* The events of j, each with what it adds to the returns at or after `since`.
PartReturned(j, since) ==
  [k \in DOMAIN j |->
         [amount |-> IF j[k].type = "settled" /\ j[k].at >= since THEN j[k].amount ELSE 0]]

\* What a sequence of settlements is made of.
LEMMA EntriesAre ==
  ASSUME NEW q \in Seq(Entries)
  PROVE  /\ Len(q) \in Nat /\ DOMAIN q = 1..Len(q) /\ Amounted(q)
         /\ \A k \in 1..Len(q) : q[k] \in Entries /\ q[k].at \in Nat /\ q[k].amount \in Int
<1>1. \A x \in Entries : x.at \in Nat /\ x.amount \in Int
  BY DEF Entries
<1>2. Len(q) \in Nat /\ DOMAIN q = 1..Len(q) /\ \A k \in 1..Len(q) : q[k] \in Entries
  BY LenProperties, ElementOfSeq
<1>. QED BY <1>1, <1>2 DEF Amounted

\* What a journal is made of.
LEMMA EventsAre ==
  ASSUME NEW j \in Seq(Events)
  PROVE  /\ Len(j) \in Nat /\ DOMAIN j = 1..Len(j)
         /\ \A k \in 1..Len(j) : j[k] \in Events /\ j[k].at \in Nat /\ j[k].amount \in Int
<1>1. \A x \in Events : x.at \in Nat /\ x.amount \in Int
  BY DEF Events
<1>2. Len(j) \in Nat /\ DOMAIN j = 1..Len(j) /\ \A k \in 1..Len(j) : j[k] \in Events
  BY LenProperties, ElementOfSeq
<1>. QED BY <1>1, <1>2

\* Each settlement counts in full or not at all.
LEMMA PartIs ==
  ASSUME NEW q \in Seq(Entries), NEW since \in Int
  PROVE  /\ Amounted(Part(q, since)) /\ Len(Part(q, since)) = Len(q)
         /\ \A k \in 1..Len(q) : Part(q, since)[k].amount
                                   = IF q[k].at >= since THEN q[k].amount ELSE 0
<1>1. /\ Len(q) \in Nat /\ DOMAIN q = 1..Len(q)
      /\ \A k \in 1..Len(q) : q[k].at \in Nat /\ q[k].amount \in Int
  BY EntriesAre
<1>. DEFINE p == Part(q, since)
<1>2. Len(p) = Len(q)
  BY <1>1 DEF Part
<1>3. \A k \in 1..Len(q) : p[k].amount = IF q[k].at >= since THEN q[k].amount ELSE 0
  BY <1>1 DEF Part
<1>. HIDE DEF p
<1>4. \A k \in 1..Len(q) : p[k].amount \in Int
  BY <1>1, <1>3
<1>5. Amounted(p)
  BY <1>1, <1>2, <1>4 DEF Amounted
<1>. QED BY <1>2, <1>3, <1>5 DEF p

\* Each event counts with its share.
LEMMA PartReturnedIs ==
  ASSUME NEW j \in Seq(Events), NEW since \in Int
  PROVE  /\ Amounted(PartReturned(j, since)) /\ Len(PartReturned(j, since)) = Len(j)
         /\ \A k \in 1..Len(j) : PartReturned(j, since)[k].amount = Share(j[k], since)
<1>1. /\ Len(j) \in Nat /\ DOMAIN j = 1..Len(j)
      /\ \A k \in 1..Len(j) : j[k].at \in Nat /\ j[k].amount \in Int
  BY EventsAre
<1>. DEFINE p == PartReturned(j, since)
<1>2. Len(p) = Len(j)
  BY <1>1 DEF PartReturned
<1>3. \A k \in 1..Len(j) : p[k].amount = Share(j[k], since)
  BY <1>1 DEF PartReturned, Share
<1>. HIDE DEF p
<1>4. \A k \in 1..Len(j) : p[k].amount \in Int
  BY <1>1, <1>3 DEF Share
<1>5. Amounted(p)
  BY <1>1, <1>2, <1>4 DEF Amounted
<1>. QED BY <1>2, <1>3, <1>5 DEF p

\* What settlements return since a time is a number.
LEMMA WithinTyped ==
  ASSUME NEW q \in Seq(Entries), NEW since \in Int
  PROVE  Within(q, since) \in Int
BY PartIs, SumTyped DEF Within

\* What a journal has returned since a time is a number.
LEMMA ReturnedTyped ==
  ASSUME NEW j \in Seq(Events), NEW since \in Int
  PROVE  Returned(j, since) \in Int
<1>1. Returned(j, since) = Total(PartReturned(j, since))
  BY DEF Returned, PartReturned
<1>. QED BY <1>1, PartReturnedIs, SumTyped

\* A settlement counts where it is not too old.
LEMMA WithinAppend ==
  ASSUME NEW q \in Seq(Entries), NEW x \in Entries, NEW since \in Int
  PROVE  Within(Append(q, x), since)
           = Within(q, since) + IF x.at >= since THEN x.amount ELSE 0
<1>. DEFINE Q == Append(q, x)
            s == Part(q, since)
            t == Part(Q, since)
<1>1. Q \in Seq(Entries) /\ Len(Q) = Len(q) + 1 /\ Len(q) \in Nat /\ Q[Len(q) + 1] = x
  BY LenProperties, AppendProperties
<1>2. \A k \in 1..Len(q) : Q[k] = q[k]
  BY AppendProperties
<1>. HIDE DEF Q
<1>3. /\ Amounted(s) /\ Len(s) = Len(q)
      /\ \A k \in 1..Len(q) : s[k].amount = IF q[k].at >= since THEN q[k].amount ELSE 0
  BY PartIs
<1>4. /\ Amounted(t) /\ Len(t) = Len(Q)
      /\ \A k \in 1..Len(Q) : t[k].amount = IF Q[k].at >= since THEN Q[k].amount ELSE 0
  BY <1>1, PartIs
<1>. HIDE DEF s, t
<1>5. \A k \in 1..Len(s) : t[k].amount = s[k].amount
  BY <1>1, <1>2, <1>3, <1>4
<1>6. Total(t) = Total(s) + t[Len(t)].amount
  BY <1>1, <1>3, <1>4, <1>5, SumAppend
<1>7. t[Len(t)].amount = IF x.at >= since THEN x.amount ELSE 0
  BY <1>1, <1>4
<1>. QED BY <1>6, <1>7 DEF Within, Q, s, t

\* An event counts where it is a settlement that is not too old.
LEMMA ReturnedAppend ==
  ASSUME NEW j \in Seq(Events), NEW e \in Events, NEW since \in Int
  PROVE  Returned(Append(j, e), since) = Returned(j, since) + Share(e, since)
<1>. DEFINE J == Append(j, e)
            s == PartReturned(j, since)
            t == PartReturned(J, since)
<1>1. J \in Seq(Events) /\ Len(J) = Len(j) + 1 /\ Len(j) \in Nat /\ J[Len(j) + 1] = e
  BY LenProperties, AppendProperties
<1>2. \A k \in 1..Len(j) : J[k] = j[k]
  BY AppendProperties
<1>. HIDE DEF J
<1>3. /\ Amounted(s) /\ Len(s) = Len(j)
      /\ \A k \in 1..Len(j) : s[k].amount = Share(j[k], since)
  BY PartReturnedIs
<1>4. /\ Amounted(t) /\ Len(t) = Len(J)
      /\ \A k \in 1..Len(J) : t[k].amount = Share(J[k], since)
  BY <1>1, PartReturnedIs
<1>5. Returned(j, since) = Total(s) /\ Returned(J, since) = Total(t)
  BY DEF Returned, PartReturned
<1>. HIDE DEF s, t
<1>6. \A k \in 1..Len(s) : t[k].amount = s[k].amount
  BY <1>1, <1>2, <1>3, <1>4
<1>7. Total(t) = Total(s) + t[Len(t)].amount
  BY <1>1, <1>3, <1>4, <1>6, SumAppend
<1>8. t[Len(t)].amount = Share(e, since)
  BY <1>1, <1>4
<1>. QED BY <1>5, <1>7, <1>8 DEF J

\* One more settlement is added to the total.
LEMMA SettledTotalAppend ==
  ASSUME NEW q \in Seq(Entries), NEW x \in Entries
  PROVE  /\ Total(q) \in Int
         /\ Total(Append(q, x)) = Total(q) + x.amount
<1>1. /\ Append(q, x) \in Seq(Entries) /\ Len(Append(q, x)) = Len(q) + 1
      /\ Len(q) \in Nat /\ Append(q, x)[Len(q) + 1] = x
      /\ \A k \in 1..Len(q) : Append(q, x)[k] = q[k]
  BY LenProperties, AppendProperties
<1>2. \A p \in Seq(Entries) : Amounted(p)
  BY EntriesAre
<1>. DEFINE Q == Append(q, x)
<1>3. Q \in Seq(Entries) /\ Len(Q) = Len(q) + 1 /\ Q[Len(Q)] = x
  BY <1>1
<1>4. \A k \in 1..Len(q) : Q[k].amount = q[k].amount
  BY <1>1
<1>. HIDE DEF Q
<1>5. Total(Q) = Total(q) + Q[Len(Q)].amount
  BY <1>2, <1>3, <1>4, SumAppend
<1>6. Total(q) \in Int
  BY <1>2, SumTyped
<1>. QED BY <1>3, <1>5, <1>6 DEF Q

\* If nothing is too old, everything counts.
LEMMA WithinAll ==
  ASSUME NEW q \in Seq(Entries), NEW since \in Int, \A k \in 1..Len(q) : q[k].at >= since
  PROVE  Within(q, since) = Total(q)
<1>. DEFINE s == Part(q, since)
<1>1. /\ Amounted(s) /\ Len(s) = Len(q)
      /\ \A k \in 1..Len(q) : s[k].amount = IF q[k].at >= since THEN q[k].amount ELSE 0
  BY PartIs
<1>2. Amounted(q) /\ Len(q) \in Nat
  BY EntriesAre
<1>. HIDE DEF s
<1>3. \A k \in 1..Len(q) : s[k + 0].amount = q[k].amount
  BY <1>1, <1>2
<1>4. Len(s) = Len(q) + 0 /\ \A k \in 1..0 : s[k].amount = 0
  BY <1>1, <1>2
<1>5. Total(s) = Total(q)
  BY <1>1, <1>2, <1>3, <1>4, SumDrop, 0 \in Nat
<1>. QED BY <1>5 DEF Within, s

-----------------------------------------------------------------------------
(* The deque of the last day's settlements. *)

\* The number of expired entries at the head of q.
LEMMA UnexpiredIs ==
  ASSUME NEW q \in Seq(Entries), NEW cutoff \in Int
  PROVE  \E n \in 0..Len(q) :
           /\ Unexpired(q, cutoff) = SubSeq(q, n + 1, Len(q))
           /\ \A i \in 1..n : q[i].at < cutoff
           /\ n < Len(q) => q[n + 1].at >= cutoff
<1>. DEFINE Expired(n) == \A i \in 1..n : q[i].at < cutoff
            P(n) == Expired(n) /\ (n < Len(q) => q[n + 1].at >= cutoff)
            T == {n \in 0..Len(q) : n = Len(q) \/ q[n + 1].at >= cutoff}
<1>1. Len(q) \in Nat /\ \A i \in 1..Len(q) : q[i].at \in Nat
  BY EntriesAre
<1>2. T \subseteq Nat /\ Len(q) \in T
  BY <1>1
<1>3. PICK n \in T : \A m \in T : n <= m
  <2>. HIDE DEF T
  <2>. QED BY <1>2, LeastNumber
<1>4. Expired(n)
  <2>. SUFFICES ASSUME NEW i \in 1..n PROVE q[i].at < cutoff
    OBVIOUS
  <2>1. n \in 0..Len(q)
    OBVIOUS
  <2>2. i - 1 \in 0..Len(q) /\ i - 1 # Len(q) /\ (i - 1) + 1 = i /\ i \in 1..Len(q)
    BY <1>1, <2>1
  <2>3. i - 1 \notin T
    <3>1. i - 1 \in Int /\ n \in Int /\ ~(n <= i - 1)
      BY <1>1, <2>1
    <3>. HIDE DEF T
    <3>. QED BY <1>3, <3>1
  <2>. QED BY <1>1, <2>2, <2>3
<1>5. n \in 0..Len(q) /\ P(n)
  BY <1>1, <1>4
<1>. DEFINE m == CHOOSE k \in 0..Len(q) : P(k)
<1>6. m \in 0..Len(q) /\ P(m)
  <2>. HIDE DEF P
  <2>. QED BY <1>5
<1>7. Unexpired(q, cutoff) = SubSeq(q, m + 1, Len(q))
  BY DEF Unexpired
<1>. HIDE DEF m
<1>. QED BY <1>6, <1>7

\* The settlements are in the order of their times.
Ordered(q) == \A k, l \in 1..Len(q) : k <= l => q[k].at <= q[l].at

\* What is left of the deque is a deque; of an ordered one, it is what is recent.
LEMMA UnexpiredTyped ==
  ASSUME NEW q \in Seq(Entries), NEW cutoff \in Int
  PROVE  /\ Unexpired(q, cutoff) \in Seq(Entries)
         /\ Ordered(q) =>
              /\ Ordered(Unexpired(q, cutoff))
              /\ \A k \in 1..Len(Unexpired(q, cutoff)) : Unexpired(q, cutoff)[k].at >= cutoff
         /\ \A k \in 1..Len(Unexpired(q, cutoff)) :
              \E i \in 1..Len(q) : Unexpired(q, cutoff)[k] = q[i]
<1>1. PICK n \in 0..Len(q) : /\ Unexpired(q, cutoff) = SubSeq(q, n + 1, Len(q))
                             /\ \A i \in 1..n : q[i].at < cutoff
                             /\ n < Len(q) => q[n + 1].at >= cutoff
  BY UnexpiredIs
<1>. DEFINE u == Unexpired(q, cutoff)
<1>2. Len(q) \in Nat /\ \A i \in 1..Len(q) : q[i] \in Entries /\ q[i].at \in Nat
  BY EntriesAre
<1>3. /\ u \in Seq(Entries) /\ Len(u) = Len(q) - n
      /\ \A k \in 1..Len(u) : u[k] = q[n + k]
  <2>1. n + 1 \in Int /\ Len(q) \in Int /\ \A i \in n + 1..Len(q) : q[i] \in Entries
    BY <1>2
  <2>2. /\ SubSeq(q, n + 1, Len(q)) \in Seq(Entries)
        /\ Len(SubSeq(q, n + 1, Len(q))) = IF n + 1 <= Len(q) THEN Len(q) - (n + 1) + 1 ELSE 0
        /\ \A i \in 1..Len(q) - (n + 1) + 1 : SubSeq(q, n + 1, Len(q))[i] = q[n + 1 + i - 1]
    BY <2>1, SubSeqProperties
  <2>3. u = SubSeq(q, n + 1, Len(q))
    BY <1>1
  <2>. HIDE DEF u
  <2>4. Len(u) = Len(q) - n
    BY <1>2, <2>2, <2>3
  <2>5. \A k \in 1..Len(u) : n + 1 + k - 1 = n + k /\ k \in 1..Len(q) - (n + 1) + 1
    BY <1>2, <2>4
  <2>6. \A k \in 1..Len(u) : u[k] = q[n + k]
    BY <2>2, <2>3, <2>5
  <2>. QED BY <2>2, <2>3, <2>4, <2>6
<1>. HIDE DEF u
<1>4. \A k \in 1..Len(u) : n + k \in 1..Len(q) /\ n + 1 <= n + k /\ n < Len(q)
  BY <1>2, <1>3
<1>5. ASSUME Ordered(q) PROVE Ordered(u)
  <2>1. SUFFICES ASSUME NEW k \in 1..Len(u), NEW l \in 1..Len(u), k <= l
                 PROVE  u[k].at <= u[l].at
    BY DEF Ordered
  <2>2. n + k \in 1..Len(q) /\ n + l \in 1..Len(q) /\ n + k <= n + l
    BY <1>4, <2>1
  <2>. QED BY <1>3, <1>5, <2>2 DEF Ordered
<1>6. ASSUME Ordered(q), NEW k \in 1..Len(u) PROVE u[k].at >= cutoff
  <2>1. n + 1 \in 1..Len(q) /\ n + k \in 1..Len(q) /\ n + 1 <= n + k /\ n < Len(q)
    BY <1>2, <1>4
  <2>2. q[n + 1].at <= q[n + k].at
    BY <1>6, <2>1 DEF Ordered
  <2>3. q[n + 1].at >= cutoff
    BY <1>1, <2>1
  <2>4. q[n + 1].at \in Nat /\ q[n + k].at \in Nat
    BY <1>2, <2>1
  <2>5. u[k] = q[n + k]
    BY <1>3
  <2>6. \A a, b \in Nat : cutoff <= a /\ a <= b => cutoff <= b
    OBVIOUS
  <2>. QED BY <2>2, <2>3, <2>4, <2>5, <2>6
<1>. QED BY <1>3, <1>4, <1>5, <1>6 DEF u

\* Leaving out what is older than a cutoff changes nothing after it.
LEMMA WithinUnexpired ==
  ASSUME NEW q \in Seq(Entries), NEW cutoff \in Int, NEW since \in Int, since >= cutoff
  PROVE  Within(Unexpired(q, cutoff), since) = Within(q, since)
<1>1. PICK n \in 0..Len(q) : /\ Unexpired(q, cutoff) = SubSeq(q, n + 1, Len(q))
                             /\ \A i \in 1..n : q[i].at < cutoff
  BY UnexpiredIs
<1>. DEFINE u == Unexpired(q, cutoff)
            s == Part(q, since)
            t == Part(u, since)
<1>2. Len(q) \in Nat /\ \A i \in 1..Len(q) : q[i] \in Entries /\ q[i].at \in Nat
  BY EntriesAre
<1>3. /\ u \in Seq(Entries) /\ Len(u) = Len(q) - n
      /\ \A k \in 1..Len(u) : u[k] = q[n + k]
  <2>1. n + 1 \in Int /\ Len(q) \in Int /\ \A i \in n + 1..Len(q) : q[i] \in Entries
    BY <1>2
  <2>2. /\ SubSeq(q, n + 1, Len(q)) \in Seq(Entries)
        /\ Len(SubSeq(q, n + 1, Len(q))) = IF n + 1 <= Len(q) THEN Len(q) - (n + 1) + 1 ELSE 0
        /\ \A i \in 1..Len(q) - (n + 1) + 1 : SubSeq(q, n + 1, Len(q))[i] = q[n + 1 + i - 1]
    BY <2>1, SubSeqProperties
  <2>3. u = SubSeq(q, n + 1, Len(q))
    BY <1>1
  <2>. HIDE DEF u
  <2>4. Len(u) = Len(q) - n
    BY <1>2, <2>2, <2>3
  <2>5. \A k \in 1..Len(u) : n + 1 + k - 1 = n + k /\ k \in 1..Len(q) - (n + 1) + 1
    BY <1>2, <2>4
  <2>6. \A k \in 1..Len(u) : u[k] = q[n + k]
    BY <2>2, <2>3, <2>5
  <2>. QED BY <2>2, <2>3, <2>4, <2>6
<1>. HIDE DEF u
<1>4. /\ Amounted(s) /\ Len(s) = Len(q)
      /\ \A k \in 1..Len(q) : s[k].amount = IF q[k].at >= since THEN q[k].amount ELSE 0
  BY PartIs
<1>5. /\ Amounted(t) /\ Len(t) = Len(u)
      /\ \A k \in 1..Len(u) : t[k].amount = IF u[k].at >= since THEN u[k].amount ELSE 0
  BY <1>3, PartIs
<1>. HIDE DEF s, t
<1>6. \A i \in 1..n : s[i].amount = 0
  <2>1. \A i \in 1..n : i \in 1..Len(q) /\ ~(q[i].at >= since)
    BY <1>1, <1>2
  <2>. QED BY <1>4, <2>1
<1>7. \A i \in 1..Len(t) : s[i + n].amount = t[i].amount
  <2>1. \A i \in 1..Len(t) : i + n \in 1..Len(q) /\ i + n = n + i /\ i \in 1..Len(u)
    BY <1>2, <1>3, <1>5
  <2>. QED BY <1>3, <1>4, <1>5, <2>1
<1>8. n \in Nat /\ Len(s) = Len(t) + n
  BY <1>2, <1>3, <1>4, <1>5
<1>9. Total(s) = Total(t)
  BY <1>4, <1>5, <1>6, <1>7, <1>8, SumDrop
<1>. QED BY <1>9 DEF Within, u, s, t

-----------------------------------------------------------------------------
(* Settling. *)

\* The pending candidate is settled with a return, or given up.
Settles(ok, r) ==
  /\ equity' = equity + r
  /\ realized' = Append(realized, [at |-> now, amount |-> r])
  /\ rolling' = rolling + r
  /\ Log(ok, Settled(pending, r, equity + r))

GivesUp(ok) == Log(ok, Unresolved(pending)) /\ UNCHANGED money

\* _try_settle: the slot stays as it is, or it is freed with a return or with none.
LEMMA TrySettleCases ==
  ASSUME NEW next, TrySettle(next)
  PROVE  \/ UNCHANGED <<journal, pending, money>> /\ pc' = next
         \/ /\ Settleable(pending)
            /\ \E ok \in AppendOutcomes :
                 /\ pending' = IF ok THEN None ELSE pending
                 /\ pc' = IF ok THEN next ELSE "finally"
                 /\ \/ GivesUp(ok)
                    \/ Scenarios(pending) # {} /\ \E r \in Returns \cup {0} : Settles(ok, r)
<1>1. CASE ~Settleable(pending)
  BY <1>1 DEF TrySettle
<1>2. CASE Settleable(pending)
  <2>1. PICK label \in Labels(pending), ok \in AppendOutcomes :
          /\ pending' = IF ok THEN None ELSE pending
          /\ pc' = IF ok THEN next ELSE "finally"
          /\ IF label \in {"unavailable", "AMBIGUOUS"} THEN GivesUp(ok)
             ELSE \E r \in Amounts(label) : Settles(ok, r)
    BY <1>2 DEF TrySettle, GivesUp, Settles
  <2>2. CASE label \in {"unavailable", "AMBIGUOUS"}
    BY <1>2, <2>1, <2>2
  <2>3. CASE label \notin {"unavailable", "AMBIGUOUS"}
    <3>1. Scenarios(pending) # {}
      BY <2>1, <2>3 DEF Labels
    <3>2. PICK r \in Amounts(label) : Settles(ok, r)
      BY <2>1, <2>3
    <3>3. r \in Returns \cup {0}
      BY <3>2, Zenon DEF Amounts
    <3>. QED BY <1>2, <2>1, <3>1, <3>2, <3>3
  <2>. QED BY <2>2, <2>3
<1>. QED BY <1>1, <1>2

\* A return, or none, is a number.
LEMMA ReturnsTyped == \A r \in Returns \cup {0} : r \in Int
BY RuntimeAssumption

-----------------------------------------------------------------------------
(* Types of the money. *)

MoneyTyped == realized \in Seq(Entries) /\ rolling \in Int

\* Every step keeps realized_24h and rolling_24h_return well typed.
LEMMA MoneyTypedStep ==
  ASSUME ControlOK, MoneyTyped, [Next]_vars
  PROVE  MoneyTyped'
<1>. USE DEF memory, money, MoneyTyped
<1>1. CASE UNCHANGED money
  BY <1>1
<1>2. ASSUME Exit PROVE MoneyTyped'
  <2>1. realized' = <<>> /\ rolling' = 0
    BY <1>2 DEF Exit, ForgetMoney
  <2>. QED BY <2>1
<1>3. CASE Start
  <2>1. journal \in Seq(Events) /\ now \in Nat /\ now - Day \in Int
    BY RuntimeAssumption DEF ControlOK
  <2>2. Settlements(journal) \in Seq(Entries)
    BY <2>1, SettlementsTyped
  <2>3. RestoredReturns(journal) \in Seq(Entries)
    BY <2>1, <2>2, UnexpiredTyped DEF RestoredReturns
  <2>4. Total(RestoredReturns(journal)) \in Int
    BY <2>3, EntriesAre, SumTyped
  <2>. QED BY <1>3, <2>3, <2>4 DEF Start
<1>4. CASE Cycle
  <2>0. decision \in Nat
    BY <1>4 DEF Cycle, ControlOK
  <2>1. decision - Day \in Int
    BY <2>0, RuntimeAssumption
  <2>2. realized' \in Seq(Entries)
    BY <1>4, <2>1, UnexpiredTyped DEF Cycle
  <2>3. Total(realized) \in Int /\ Total(realized') \in Int
    BY <2>2, EntriesAre, SumTyped
  <2>. QED BY <1>4, <2>2, <2>3 DEF Cycle
<1>5. ASSUME NEW next, TrySettle(next) PROVE MoneyTyped'
  <2>1. CASE UNCHANGED money
    BY <2>1
  <2>2. CASE ~UNCHANGED money
    <3>1. PICK r \in Returns \cup {0} : \E ok \in AppendOutcomes : Settles(ok, r)
      BY <1>5, <2>2, TrySettleCases DEF GivesUp
    <3>2. r \in Int /\ now \in Nat
      BY ReturnsTyped DEF ControlOK
    <3>3. [at |-> now, amount |-> r] \in Entries
      BY <3>2 DEF Entries
    <3>. QED BY <3>1, <3>2, <3>3 DEF Settles
  <2>. QED BY <2>1, <2>2
<1>6. CASE Restore
  BY <1>1, <1>2, <1>6 DEF Restore
<1>7. CASE Finally
  BY <1>1, <1>2, <1>7 DEF Finally
<1>8. CASE Poll \/ Resettle
  BY <1>5, <1>8 DEF Poll, Resettle
<1>9. CASE Crash
  BY <1>2, <1>9 DEF Crash
<1>. QED BY <1>1, <1>3, <1>4, <1>6, <1>7, <1>8, <1>9
         DEF Next, Tick, Dial, Disconnect, Sink, Select, Stop, TasksReturn, vars

-----------------------------------------------------------------------------
(* Time. *)

Running == {"idle", "evaluate", "cycle", "select"}

\* A time no decision to come can be before: decided already, or older than
\* every row that the features of a decision need.
Covered(t) == t <= last \/ \A r \in rows : t <= r.at

OrderInv ==
  /\ \A id \in SelectedIds : id \in Nat /\ id <= now /\ Covered(id)
  /\ pc \in {"evaluate", "cycle"} => decision > last /\ decision <= now
  /\ pc = "select" => \A id \in SelectedIds : id < decision
  /\ pc = "select" => decision = last /\ decision <= now

\* Only the event candidate_selected adds a selected decision.
LEMMA LogSelected ==
  ASSUME ControlOK, NEW e \in Events, NEW ok, Log(ok, e)
  PROVE  SelectedIds' = IF ok /\ e.type = "selected" THEN SelectedIds \cup {e.id}
                        ELSE SelectedIds
<1>1. CASE ~ok
  BY <1>1 DEF Log, SelectedIds
<1>2. CASE ok
  <2>1. /\ journal' = Append(journal, e) /\ Len(journal) \in Nat
        /\ DOMAIN journal = 1..Len(journal)
        /\ DOMAIN journal' = 1..Len(journal) + 1 /\ journal'[Len(journal) + 1] = e
    BY <1>2 DEF Log, ControlOK
  <2>2. \A i \in 1..Len(journal) : journal'[i] = journal[i]
    BY <1>2 DEF Log, ControlOK
  <2>3. 1..Len(journal) + 1 = 1..Len(journal) \cup {Len(journal) + 1}
    BY <2>1
  <2>. QED BY <1>2, <2>1, <2>2, <2>3 DEF SelectedIds
<1>. QED BY <1>1, <1>2

\* The other events of the runtime select nothing.
LEMMA OtherSelected ==
  ASSUME ControlOK, NEW id \in Nat \cup {None}, NEW r \in Int, NEW ok,
         \/ Log(ok, Unresolved(id))
         \/ Log(ok, Stopped)
         \/ Log(ok, Settled(id, r, equity + r))
  PROVE  SelectedIds' = SelectedIds
<1>1. equity + r \in Int /\ 0 \in Nat
  BY DEF ControlOK
<1>2. {Settled(id, r, equity + r), Unresolved(id), Stopped} \subseteq Events
  BY <1>1, EventsTyped
<1>3. \A e \in {Settled(id, r, equity + r), Unresolved(id), Stopped} : e.type # "selected"
  BY DEF Settled, Unresolved, Stopped, Event
<1>. QED BY <1>2, <1>3, LogSelected

\* A record leaves no row older than what was covered.
LEMMA SinkCovers ==
  ASSUME ControlOK, NEW kind, WindowAccept(kind, wire, now), last' = last,
         NEW t \in Int, t <= now, Covered(t)
  PROVE  Covered(t)'
<1>1. \A r \in rows' : r \in rows \/ r = [at |-> now, session |-> wire]
  BY DEF WindowAccept, Trim, Surviving
<1>. QED BY <1>1 DEF Covered

\* What Restore logs, and the open decisions are selected ones.
LEMMA RestoreLogs ==
  ASSUME ControlOK, Restore
  PROVE  \/ OpenOnRestart = {} /\ journal' = journal
         \/ \E id \in Open(journal) :
              id \in Nat \cup {None} /\ \E ok \in AppendOutcomes : Log(ok, Unresolved(id))
<1>1. \A id \in Open(journal) : id \in Nat \cup {None}
  <2>1. \A i \in DOMAIN journal : journal[i] \in Events
    BY DEF ControlOK
  <2>2. \A e \in Events : e.id \in Nat \cup {None}
    BY DEF Events
  <2>. QED BY <2>1, <2>2 DEF Open
<1>. QED BY <1>1 DEF Restore, OpenOnRestart

\* Every step keeps the decisions in the order of time.
LEMMA OrderStep ==
  ASSUME ControlOK, OrderInv, [Next]_vars
  PROVE  OrderInv'
<1>. USE DEF memory, money, windowVars
<1>0. \A id \in SelectedIds : id \in Int /\ id <= now /\ Covered(id)
  BY DEF OrderInv
<1>1. CASE UNCHANGED vars
  BY <1>1 DEF vars, OrderInv, SelectedIds, Covered
<1>2. CASE Tick
  <2>1. UNCHANGED <<journal, pc, decision, last, rows>> /\ now' = now + 1 /\ now \in Nat
    BY <1>2 DEF Tick, ControlOK
  <2>2. pc \in {"evaluate", "cycle", "select"} => decision \in Nat
    BY DEF ControlOK
  <2>3. SelectedIds' = SelectedIds
    BY <2>1 DEF SelectedIds
  <2>4. \A t : Covered(t)' <=> Covered(t)
    BY <2>1 DEF Covered
  <2>5. \A id \in SelectedIds : id <= now + 1
    BY <1>0, <2>1
  <2>6. pc \in {"evaluate", "cycle", "select"} => decision <= now + 1
    BY <2>1, <2>2 DEF OrderInv
  <2>. QED BY <2>1, <2>3, <2>4, <2>5, <2>6 DEF OrderInv
<1>3. ASSUME Exit, now' = now, SelectedIds' = SelectedIds PROVE OrderInv'
  BY <1>3 DEF Exit, OrderInv, Covered
<1>4. CASE Crash
  <2>1. SelectedIds' = SelectedIds
    BY <1>4 DEF Crash, SelectedIds
  <2>. QED BY <1>3, <1>4, <2>1 DEF Crash
<1>5. CASE Start
  BY <1>5 DEF Start, OrderInv, SelectedIds, Covered
<1>6. CASE Restore
  <2>1. SelectedIds' = SelectedIds
    <3>1. CASE journal' = journal
      BY <3>1 DEF SelectedIds
    <3>2. CASE \E id \in Nat \cup {None}, ok \in AppendOutcomes : Log(ok, Unresolved(id))
      BY <3>2, OtherSelected, 0 \in Int
    <3>. QED BY <1>6, <3>1, <3>2, RestoreLogs
  <2>2. CASE Exit
    BY <1>3, <1>6, <2>1, <2>2 DEF Restore
  <2>3. CASE ~Exit
    BY <1>6, <2>1, <2>3 DEF Restore, OrderInv, Covered
  <2>. QED BY <2>2, <2>3
<1>7. CASE Dial \/ Disconnect \/ Stop \/ TasksReturn
  <2>1. /\ UNCHANGED <<now, journal, rows, last>> /\ pc' \in {"idle", "finally"}
    BY <1>7 DEF Dial, Disconnect, Stop, TasksReturn
  <2>. QED BY <2>1 DEF OrderInv, SelectedIds, Covered
<1>8. ASSUME NEW kind \in Kinds, Sink(kind) PROVE OrderInv'
  <2>1. /\ pc' = "idle" /\ now' = now /\ last' = last
        /\ WindowAccept(kind, wire, now)
        /\ journal' = journal \/ \E ok \in AppendOutcomes : Log(ok, Unresolved(pending))
    BY <1>8 DEF Sink
  <2>2. SelectedIds' = SelectedIds
    <3>1. CASE journal' = journal
      BY <3>1 DEF SelectedIds
    <3>2. CASE \E ok \in AppendOutcomes : Log(ok, Unresolved(pending))
      BY <3>2, OtherSelected, 0 \in Int DEF ControlOK
    <3>. QED BY <2>1, <3>1, <3>2
  <2>3. \A id \in SelectedIds : Covered(id)'
    BY <1>0, <2>1, SinkCovers
  <2>. QED BY <2>1, <2>2, <2>3 DEF OrderInv
<1>9. ASSUME NEW next, TrySettle(next) PROVE SelectedIds' = SelectedIds
  <2>1. CASE journal' = journal
    BY <2>1 DEF SelectedIds
  <2>2. CASE journal' # journal
    <3>1. PICK ok \in AppendOutcomes :
            GivesUp(ok) \/ \E r \in Returns \cup {0} : Settles(ok, r)
      BY <1>9, <2>2, TrySettleCases
    <3>2. pending \in Nat \cup {None}
      BY DEF ControlOK
    <3>3. CASE GivesUp(ok)
      BY <3>2, <3>3, OtherSelected, 0 \in Int DEF GivesUp
    <3>4. ASSUME NEW r \in Returns \cup {0}, Settles(ok, r) PROVE SelectedIds' = SelectedIds
      <4>1. r \in Int
        BY ReturnsTyped
      <4>. QED BY <3>2, <3>4, <4>1, OtherSelected DEF Settles
    <3>. QED BY <3>1, <3>3, <3>4
  <2>. QED BY <2>1, <2>2
<1>10. CASE Poll
  <2>1. SelectedIds' = SelectedIds
    BY <1>9, <1>10 DEF Poll
  <2>2. UNCHANGED <<now, last, rows>>
    BY <1>10 DEF Poll
  <2>3. pc' \in {IF DecisionDue THEN "evaluate" ELSE "idle", "finally"}
    BY <1>10, TrySettleTyped DEF Poll
  <2>4. pc' = "evaluate" => decision' = Grid(now) /\ DecisionDue
    BY <1>10, <2>3 DEF Poll
  <2>5. DecisionDue => Grid(now) > last /\ Grid(now) <= now
    BY RuntimeAssumption DEF DecisionDue, ControlOK
  <2>6. pc' \notin {"cycle", "select"}
    BY <2>3
  <2>. QED BY <2>1, <2>2, <2>4, <2>5, <2>6 DEF OrderInv, Covered
<1>11. CASE Resettle
  <2>1. SelectedIds' = SelectedIds
    BY <1>9, <1>11 DEF Resettle
  <2>2. UNCHANGED <<now, last, rows, decision>> /\ pc = "evaluate"
    BY <1>11 DEF Resettle
  <2>3. pc' \in {"cycle", "finally"}
    BY <1>11, TrySettleTyped DEF Resettle
  <2>. QED BY <2>1, <2>2, <2>3 DEF OrderInv, Covered
<1>12. CASE Cycle
  <2>1. /\ UNCHANGED <<now, journal, rows>> /\ last' = decision /\ pc = "cycle"
        /\ pc' \in {"select", "idle", "finally"}
        /\ pc' = "select" => FeaturesPossible(decision) /\ decision' = decision
    BY <1>12 DEF Cycle, CandidateSets
  <2>2. decision > last /\ decision <= now /\ decision \in Int /\ last \in Int
    BY <2>1, WindowAssumption DEF OrderInv, ControlOK
  <2>3. SelectedIds' = SelectedIds
    BY <2>1 DEF SelectedIds
  <2>4. \A id \in SelectedIds : Covered(id)'
    BY <1>0, <2>1, <2>2 DEF Covered
  <2>5. ASSUME pc' = "select", NEW id \in SelectedIds PROVE id < decision
    <3>1. PICK r \in rows : r.at <= decision - Warmup
      BY <2>1, <2>5 DEF FeaturesPossible, ContinuousCoverage, Before
    <3>2. r.at \in Nat /\ Warmup \in Nat \ {0}
      BY WindowAssumption DEF ControlOK
    <3>3. id <= last \/ id <= r.at
      BY <1>0 DEF Covered
    <3>. QED BY <1>0, <2>2, <3>1, <3>2, <3>3
  <2>6. /\ now' = now /\ last' = decision
        /\ pc' = "select" => decision' = decision
        /\ pc' \notin {"evaluate", "cycle"}
    BY <2>1
  <2>. QED BY <2>2, <2>3, <2>4, <2>5, <2>6, <1>0 DEF OrderInv
<1>13. CASE Select
  <2>1. PICK ok \in AppendOutcomes :
          Log(ok, Selected(decision)) /\ pc' = IF ok THEN "idle" ELSE "finally"
    BY <1>13 DEF Select
  <2>2. /\ UNCHANGED <<now, rows, last>> /\ pc = "select" /\ decision \in Nat
    BY <1>13, WindowAssumption DEF Select, ControlOK
  <2>3. Selected(decision) \in Events /\ Selected(decision).id = decision
    BY EventsTyped DEF ControlOK, Selected, Event
  <2>4. SelectedIds' \subseteq SelectedIds \cup {decision}
    BY <2>1, <2>3, LogSelected
  <2>5. decision = last /\ decision <= now
    BY <2>2 DEF OrderInv
  <2>6. pc' \in {"idle", "finally"}
    BY <2>1
  <2>. QED BY <1>0, <2>2, <2>4, <2>5, <2>6 DEF OrderInv, Covered
<1>14. CASE Finally
  <2>1. SelectedIds' = SelectedIds
    <3>1. \/ \E ok \in AppendOutcomes : Log(ok, Unresolved(pending))
          \/ \E ok \in AppendOutcomes : Log(ok, Stopped)
      BY <1>14 DEF Finally
    <3>. QED BY <3>1, OtherSelected, 0 \in Int DEF ControlOK
  <2>2. CASE Exit
    BY <1>3, <1>14, <2>1, <2>2 DEF Finally
  <2>3. CASE ~Exit
    BY <1>14, <2>1, <2>3 DEF Finally, OrderInv, Covered
  <2>. QED BY <2>2, <2>3
<1>. QED BY <1>1, <1>2, <1>4, <1>5, <1>6, <1>7, <1>8, <1>10, <1>11, <1>12, <1>13, <1>14
         DEF Next

-----------------------------------------------------------------------------
(* Sessions. *)

\* The open candidate was selected over the window's session.
SameSession ==
  \A i \in DOMAIN journal :
    journal[i].type = "selected" /\ journal[i].id = pending => journal[i].session = session

\* The window is of a session that is over, and of the record that opened it.
Superseded == wire # session /\ \A r \in rows : r.at = latest

SessionInv ==
  /\ wire # None => wire \in 1..dialled
  /\ session # None => session \in 1..dialled
  /\ pc = "select" => session # None
  /\ pc \in Running /\ pending # None => session # None /\ (SameSession \/ Superseded)

\* An append adds one event at the end of the journal, or nothing.
LEMMA LogPlaces ==
  ASSUME ControlOK, NEW e \in Events, NEW ok, Log(ok, e)
  PROVE  \/ ~ok /\ journal' = journal
         \/ /\ ok /\ Len(journal) \in Nat /\ DOMAIN journal = 1..Len(journal)
            /\ DOMAIN journal' = 1..Len(journal) + 1
            /\ journal'[Len(journal) + 1] = e
            /\ \A i \in 1..Len(journal) : journal'[i] = journal[i]
BY DEF Log, ControlOK

\* One more event that, if it settles, comes from the session of its selection.
LEMMA OneSessionLog ==
  ASSUME ControlOK, SettledInOneSession, NEW e \in Events, NEW ok, Log(ok, e),
         e.type = "settled" =>
           \A i \in DOMAIN journal : journal[i].type = "selected" /\ journal[i].id = e.id
                                       => journal[i].session = e.session
  PROVE  SettledInOneSession'
<1>1. CASE journal' = journal
  BY <1>1 DEF SettledInOneSession
<1>2. CASE journal' # journal
  <2>1. /\ Len(journal) \in Nat /\ DOMAIN journal = 1..Len(journal)
        /\ DOMAIN journal' = 1..Len(journal) + 1
        /\ journal'[Len(journal) + 1] = e
        /\ \A i \in 1..Len(journal) : journal'[i] = journal[i]
    BY <1>2, LogPlaces
  <2>2. SUFFICES ASSUME NEW i \in 1..Len(journal) + 1, NEW k \in 1..Len(journal) + 1,
                        journal'[i].type = "selected", journal'[k].type = "settled",
                        i < k, journal'[i].id = journal'[k].id
                 PROVE  journal'[i].session = journal'[k].session
    BY <2>1 DEF SettledInOneSession
  <2>3. i \in 1..Len(journal) /\ journal'[i] = journal[i]
    BY <2>1, <2>2
  <2>4. CASE k = Len(journal) + 1
    BY <2>1, <2>2, <2>3, <2>4
  <2>5. CASE k # Len(journal) + 1
    <3>1. k \in 1..Len(journal) /\ journal'[k] = journal[k]
      BY <2>1, <2>5
    <3>. QED BY <2>1, <2>2, <2>3, <3>1 DEF SettledInOneSession
  <2>. QED BY <2>4, <2>5
<1>. QED BY <1>1, <1>2

\* The events that settle nothing.
LEMMA OneSessionOther ==
  ASSUME ControlOK, SettledInOneSession, NEW id \in Nat \cup {None}, NEW ok,
         Log(ok, Unresolved(id)) \/ Log(ok, Stopped) \/ Log(ok, Selected(id))
  PROVE  SettledInOneSession'
<1>1. {Unresolved(id), Stopped, Selected(id)} \subseteq Events
  BY EventsTyped, 0 \in Int
<1>2. \A e \in {Unresolved(id), Stopped, Selected(id)} : e.type # "settled"
  BY DEF Unresolved, Stopped, Selected, Event
<1>. QED BY <1>1, <1>2, OneSessionLog

\* A window that holds nothing but the record that opened it has no activation
\* for a decision that is due.
LEMMA SupersededSettlesNothing ==
  ASSUME ControlOK, Superseded, Settleable(pending)
  PROVE  Scenarios(pending) = {}
<1>1. pending \in Nat /\ latest \in Nat /\ latest >= pending + Ttl + Horizon + Grace
  BY DEF ControlOK, Settleable, Due
<1>2. /\ Ttl \in Nat /\ Horizon \in Nat /\ Grace \in Nat /\ Latency \in Nat
      /\ ActivationDelay \in Nat /\ Latency + ActivationDelay < Ttl
  BY WindowAssumption, RuntimeAssumption
<1>3. ASSUME NEW r \in rows, r.at - (pending + Latency) <= ActivationDelay
      PROVE  FALSE
  <2>1. r.at = latest
    BY DEF Superseded
  <2>. QED BY <1>1, <1>2, <1>3, <2>1
<1>4. Activations(pending) = {}
  BY <1>3 DEF Activations
<1>. QED BY <1>4 DEF Scenarios

\* Settling comes from the session of the selection; whatever it leaves open is
\* as it was.
LEMMA TrySettleSession ==
  ASSUME ControlOK, SessionInv, SettledInOneSession, NEW next, TrySettle(next),
         pc \in Running
  PROVE  /\ SettledInOneSession'
         /\ \/ journal' = journal /\ pending' = pending
            \/ pending' = None
            \/ pc' = "finally"
<1>1. CASE UNCHANGED <<journal, pending>>
  BY <1>1 DEF SettledInOneSession
<1>2. CASE ~UNCHANGED <<journal, pending>>
  <2>1. PICK ok \in AppendOutcomes :
          /\ Settleable(pending)
          /\ pending' = IF ok THEN None ELSE pending
          /\ pc' = IF ok THEN next ELSE "finally"
          /\ \/ GivesUp(ok)
             \/ Scenarios(pending) # {} /\ \E r \in Returns \cup {0} : Settles(ok, r)
    BY <1>2, TrySettleCases
  <2>2. pending \in Nat /\ pending # None
    BY <2>1 DEF Settleable, ControlOK
  <2>3. SettledInOneSession'
    <3>1. CASE GivesUp(ok)
      BY <2>2, <3>1, OneSessionOther DEF GivesUp
    <3>2. CASE Scenarios(pending) # {} /\ \E r \in Returns \cup {0} : Settles(ok, r)
      <4>1. PICK r \in Returns \cup {0} : Settles(ok, r)
        BY <3>2
      <4>2. r \in Int /\ equity + r \in Int
        BY ReturnsTyped DEF ControlOK
      <4>. DEFINE e == Settled(pending, r, equity + r)
      <4>3. e \in Events /\ e.id = pending /\ e.session = session /\ Log(ok, e)
        BY <2>2, <4>1, <4>2, EventsTyped DEF Settled, Event, Settles
      <4>. HIDE DEF e
      <4>4. SameSession
        BY <2>1, <2>2, <3>2, SupersededSettlesNothing DEF SessionInv
      <4>. QED BY <4>3, <4>4, OneSessionLog DEF SameSession
    <3>. QED BY <2>1, <3>1, <3>2
  <2>. QED BY <2>1, <2>3
<1>. QED BY <1>1, <1>2

\* Every step keeps the open candidate to the session it was selected in, or to
\* a window in which it cannot settle.
LEMMA SessionStep ==
  ASSUME ControlOK, SlotInv, OrderInv, SessionInv, SettledInOneSession, [Next]_vars
  PROVE  SessionInv' /\ SettledInOneSession'
<1>. USE DEF memory, windowVars
<1>1. CASE /\ UNCHANGED <<journal, wire, dialled, session, pending, rows, latest>>
           /\ pc' \in Running \cup {"finally"}
           /\ pc \in Running /\ pc' # "select"
  BY <1>1 DEF SessionInv, SettledInOneSession, SameSession, Superseded, Running
<1>2. CASE UNCHANGED vars
  BY <1>2 DEF vars, SessionInv, SettledInOneSession, SameSession, Superseded, Running
<1>3. CASE Tick
  BY <1>3 DEF Tick, SessionInv, SettledInOneSession, SameSession, Superseded, Running
<1>4. ASSUME Exit PROVE SessionInv'
  BY <1>4 DEF Exit, SessionInv, Running
<1>5. CASE Crash
  BY <1>4, <1>5 DEF Crash, SettledInOneSession
<1>6. CASE Start
  BY <1>6 DEF Start, SessionInv, SettledInOneSession, Running
<1>7. CASE Restore
  <2>1. pending = None /\ dialled' = dialled
    BY <1>7 DEF Restore, SlotInv, SlotMatches
  <2>2. SettledInOneSession'
    <3>1. CASE journal' = journal
      BY <3>1 DEF SettledInOneSession
    <3>. QED BY <1>7, <3>1, RestoreLogs, OneSessionOther
  <2>3. CASE ~Exit
    <3>1. UNCHANGED <<wire, dialled, session>> /\ pending' = None /\ pc' \in {"idle", "restore"}
      BY <1>7, <2>1, <2>3 DEF Restore
    <3>. QED BY <2>2, <3>1 DEF SessionInv
  <2>. QED BY <1>4, <2>2, <2>3
<1>8. CASE Dial
  <2>1. /\ pc = "idle" /\ pc' = "idle" /\ dialled' = dialled + 1 /\ wire' = dialled + 1
        /\ UNCHANGED <<journal, pending, session, rows, latest>>
    BY <1>8 DEF Dial
  <2>2. dialled \in Nat
    BY DEF ControlOK
  <2>3. wire' \in 1..dialled' /\ (session # None => session \in 1..dialled' /\ wire' # session)
    BY <2>1, <2>2 DEF SessionInv
  <2>. QED BY <2>1, <2>3 DEF SessionInv, SettledInOneSession, SameSession, Superseded, Running
<1>9. CASE Disconnect
  <2>1. /\ pc = "idle" /\ pc' = "idle" /\ dialled' = dialled /\ wire' = None
        /\ UNCHANGED <<journal, pending, session, rows, latest>>
    BY <1>9 DEF Disconnect
  <2>. QED BY <2>1 DEF SessionInv, SettledInOneSession, SameSession, Superseded, Running
<1>10. ASSUME NEW kind \in Kinds, Sink(kind)
       PROVE  SessionInv' /\ SettledInOneSession'
  <2>1. PICK ok \in AppendOutcomes, reset \in AppendOutcomes :
          /\ IF Interrupts THEN /\ Log(ok, Unresolved(pending))
                                /\ pending' = IF ok THEN None ELSE pending
                           ELSE UNCHANGED <<journal, pending>>
          /\ wire' = IF Transition(wire) /\ ~((Interrupts => ok) /\ reset)
                     THEN None ELSE wire
    BY <1>10 DEF Sink
  <2>2. /\ pc = "idle" /\ pc' = "idle" /\ dialled' = dialled /\ wire # None
        /\ WindowAccept(kind, wire, now) /\ session' = wire
    BY <1>10 DEF Sink, WindowAccept
  <2>3. wire \in 1..dialled /\ pending \in Nat \cup {None}
    BY <2>2 DEF SessionInv, ControlOK
  <2>4. SettledInOneSession'
    <3>1. CASE journal' = journal
      BY <3>1 DEF SettledInOneSession
    <3>. QED BY <2>1, <2>3, <3>1, OneSessionOther
  <2>5. ASSUME pending' # None PROVE SameSession' \/ Superseded'
    <3>1. journal' = journal /\ pending' = pending
      BY <2>1, <2>5 DEF Log
    <3>2. CASE Transition(wire)
      <4>1. wire' = None
        BY <2>1, <2>5, <3>1, <3>2 DEF Interrupts
      <4>2. \A r \in rows' : r.at = latest'
        BY <2>2, <3>2 DEF WindowAccept, Surviving, Trim
      <4>. QED BY <2>2, <4>1, <4>2 DEF Superseded
    <3>3. CASE ~Transition(wire)
      <4>1. session # None /\ (SameSession \/ Superseded)
        BY <2>2, <2>5, <3>1 DEF SessionInv, Running
      <4>2. session = wire
        BY <3>3, <4>1 DEF Transition
      <4>. QED BY <2>2, <3>1, <4>1, <4>2 DEF SameSession, Superseded
    <3>. QED BY <3>2, <3>3
  <2>. QED BY <2>1, <2>2, <2>3, <2>4, <2>5 DEF SessionInv
<1>11. CASE Poll
  <2>1. /\ pc = "idle" /\ TrySettle(IF DecisionDue THEN "evaluate" ELSE "idle")
        /\ UNCHANGED <<wire, dialled, session, rows, latest>>
    BY <1>11 DEF Poll
  <2>2. /\ SettledInOneSession'
        /\ (journal' = journal /\ pending' = pending) \/ pending' = None \/ pc' = "finally"
    BY <2>1, TrySettleSession DEF Running
  <2>3. pc' # "select"
    BY <2>1, TrySettleTyped
  <2>. QED BY <2>1, <2>2, <2>3 DEF SessionInv, SameSession, Superseded, Running
<1>12. CASE Resettle
  <2>1. /\ pc = "evaluate" /\ TrySettle("cycle")
        /\ UNCHANGED <<wire, dialled, session, rows, latest>>
    BY <1>12 DEF Resettle
  <2>2. /\ SettledInOneSession'
        /\ (journal' = journal /\ pending' = pending) \/ pending' = None \/ pc' = "finally"
    BY <2>1, TrySettleSession DEF Running
  <2>3. pc' # "select"
    BY <2>1, TrySettleTyped
  <2>. QED BY <2>1, <2>2, <2>3 DEF SessionInv, SameSession, Superseded, Running
<1>13. CASE Cycle
  <2>1. /\ UNCHANGED <<journal, wire, dialled, session, pending, rows, latest>>
        /\ pc = "cycle" /\ pc' \in {"select", "idle", "finally"}
        /\ pc' = "select" => FeaturesPossible(decision) /\ pending = None
    BY <1>13 DEF Cycle, CandidateSets, SlotFree
  <2>2. ASSUME pc' = "select" PROVE session # None
    <3>1. PICK r \in rows : TRUE
      BY <2>1, <2>2 DEF FeaturesPossible, ContinuousCoverage, Before
    <3>2. r.session \in {session} \ {None}
      BY DEF ControlOK
    <3>. QED BY <3>2
  <2>. QED BY <2>1, <2>2 DEF SessionInv, SettledInOneSession, SameSession, Superseded, Running
<1>14. CASE Select
  <2>1. PICK ok \in AppendOutcomes :
          Log(ok, Selected(decision)) /\ pc' = IF ok THEN "idle" ELSE "finally"
    BY <1>14 DEF Select
  <2>2. /\ UNCHANGED <<dialled, wire, session, rows, latest>>
        /\ pc = "select" /\ pending' = decision /\ decision \in Nat
    BY <1>14, WindowAssumption DEF Select, ControlOK
  <2>3. SettledInOneSession'
    BY <2>1, <2>2, OneSessionOther
  <2>4. ASSUME ok PROVE SameSession'
    <3>. DEFINE e == Selected(decision)
    <3>1. e \in Events /\ e.session = session /\ Log(ok, e)
      BY <2>1, <2>2, EventsTyped, 0 \in Int DEF Selected, Event
    <3>. HIDE DEF e
    <3>2. /\ Len(journal) \in Nat /\ DOMAIN journal = 1..Len(journal)
          /\ DOMAIN journal' = 1..Len(journal) + 1
          /\ journal'[Len(journal) + 1] = e
          /\ \A i \in 1..Len(journal) : journal'[i] = journal[i]
      BY <2>4, <3>1, LogPlaces
    <3>3. \A i \in 1..Len(journal) : journal[i].type = "selected" => journal[i].id # decision
      <4>1. \A id \in SelectedIds : id < decision /\ id \in Nat
        BY <2>2 DEF OrderInv
      <4>2. \A i \in 1..Len(journal) : journal[i].type = "selected" => journal[i].id \in SelectedIds
        BY <3>2 DEF SelectedIds
      <4>. QED BY <2>2, <4>1, <4>2
    <3>4. \A i \in 1..Len(journal) + 1 : i \in 1..Len(journal) \/ i = Len(journal) + 1
      BY <3>2
    <3>. QED BY <2>2, <3>1, <3>2, <3>3, <3>4 DEF SameSession
  <2>5. session # None
    BY <2>2 DEF SessionInv
  <2>6. pc' \in {"idle", "finally"} /\ (pc' = "idle" => ok)
    BY <2>1
  <2>. QED BY <2>2, <2>3, <2>4, <2>5, <2>6 DEF SessionInv, Running
<1>15. CASE Stop
  BY <1>1, <1>15 DEF Stop, Running
<1>16. CASE TasksReturn
  BY <1>1, <1>16 DEF TasksReturn, Running
<1>17. CASE Finally
  <2>1. SettledInOneSession'
    <3>1. \/ \E ok \in AppendOutcomes : Log(ok, Unresolved(pending))
          \/ \E ok \in AppendOutcomes : Log(ok, Stopped)
      BY <1>17 DEF Finally
    <3>. QED BY <3>1, OneSessionOther DEF ControlOK
  <2>2. CASE ~Exit
    <3>1. UNCHANGED <<wire, dialled, session>> /\ pc' = "finally"
      BY <1>17, <2>2 DEF Finally
    <3>. QED BY <2>1, <3>1 DEF SessionInv, Running
  <2>. QED BY <1>4, <2>1, <2>2
<1>. QED BY <1>2, <1>3, <1>5, <1>6, <1>7, <1>8, <1>9, <1>10, <1>11, <1>12, <1>13, <1>14,
            <1>15, <1>16, <1>17 DEF Next

-----------------------------------------------------------------------------
(* Money. *)

\* Settlements in the order of time, up to t.
InTime(q, t) == Ordered(q) /\ \A k \in 1..Len(q) : q[k].at <= t

\* Memory has every settlement from the cut on, and no decision to come asks
\* for one before it.
Kept(cut) ==
  /\ cut + Day <= now /\ Covered(cut + Day)
  /\ \A since \in Int : since >= cut => Within(realized, since) = Returned(journal, since)

MoneyInv ==
  /\ rolling = Total(realized)
  /\ InTime(realized, now) /\ InTime(Settlements(journal), now)
  /\ \A since \in Int : Within(Settlements(journal), since) = Returned(journal, since)
  /\ pc \in Running \cup {"restore"} => \E cut \in Int : Kept(cut)
  /\ pc = "select" => Returned(journal, decision - Day) > -LossLimit
  /\ pc \in {"down", "restore"} => rows = {}

\* The settlements of the journal and the returns they sum up to are as they were.
Quiet ==
  /\ Settlements(journal') = Settlements(journal)
  /\ \A since \in Int : Returned(journal', since) = Returned(journal, since)

\* A settlement of now comes last.
LEMMA InTimeAppend ==
  ASSUME NEW q \in Seq(Entries), NEW x \in Entries, InTime(q, x.at)
  PROVE  InTime(Append(q, x), x.at)
<1>. DEFINE Q == Append(q, x)
<1>1. Len(Q) = Len(q) + 1 /\ Len(q) \in Nat /\ Q[Len(q) + 1] = x
  BY LenProperties, AppendProperties
<1>2. \A k \in 1..Len(q) : Q[k] = q[k]
  BY AppendProperties
<1>3. x.at \in Int
  BY DEF Entries
<1>. HIDE DEF Q
<1>4. \A k \in 1..Len(Q) : Q[k].at <= x.at
  BY <1>1, <1>2, <1>3 DEF InTime
<1>5. ASSUME NEW k \in 1..Len(Q), NEW l \in 1..Len(Q), k <= l
      PROVE  Q[k].at <= Q[l].at
  <2>1. CASE l = Len(q) + 1
    BY <1>1, <1>4, <2>1
  <2>2. CASE l # Len(q) + 1
    <3>1. l \in 1..Len(q) /\ k \in 1..Len(q)
      BY <1>1, <1>5, <2>2
    <3>. QED BY <1>2, <1>5, <3>1 DEF InTime, Ordered
  <2>. QED BY <2>1, <2>2
<1>. QED BY <1>4, <1>5 DEF InTime, Ordered, Q

\* The clock moves on.
LEMMA InTimeLater ==
  ASSUME NEW q \in Seq(Entries), NEW s \in Nat, NEW t \in Nat, s <= t, InTime(q, s)
  PROVE  InTime(q, t)
BY EntriesAre DEF InTime

\* An event that settles nothing is quiet.
LEMMA QuietLog ==
  ASSUME ControlOK, NEW e \in Events, NEW ok, Log(ok, e), e.type # "settled"
  PROVE  Quiet
<1>1. CASE journal' = journal
  BY <1>1 DEF Quiet
<1>2. CASE journal' # journal
  <2>1. journal' = Append(journal, e) /\ journal \in Seq(Events)
    BY <1>2 DEF Log, ControlOK
  <2>2. Settlements(journal') = Settlements(journal)
    BY <2>1, SettlementsAppend DEF OneMore
  <2>3. ASSUME NEW since \in Int PROVE Returned(journal', since) = Returned(journal, since)
    <3>1. Share(e, since) = 0
      BY DEF Share
    <3>2. Returned(Append(journal, e), since) = Returned(journal, since) + Share(e, since)
      BY <2>1, ReturnedAppend
    <3>3. Returned(journal, since) \in Int
      BY <2>1, ReturnedTyped
    <3>. QED BY <2>1, <3>1, <3>2, <3>3
  <2>. QED BY <2>2, <2>3 DEF Quiet
<1>. QED BY <1>1, <1>2

\* An append leaves the beginnings of the journal as they were.
LEMMA PrefixOfAppend ==
  ASSUME NEW j \in Seq(Events), NEW e \in Events
  PROVE  /\ \A i \in 1..Len(j) : SubSeq(Append(j, e), 1, i) = SubSeq(j, 1, i)
         /\ SubSeq(Append(j, e), 1, Len(j) + 1) = Append(j, e)
<1>. DEFINE J == Append(j, e)
<1>1. J \in Seq(Events) /\ Len(J) = Len(j) + 1 /\ Len(j) \in Nat
  BY LenProperties, AppendProperties
<1>2. \A i \in 1..Len(j) : J[i] = j[i] /\ j[i] \in Events
  BY AppendProperties, ElementOfSeq
<1>. HIDE DEF J
<1>3. SubSeq(J, 1, Len(j) + 1) = J
  BY <1>1, SubSeqFull
<1>4. ASSUME NEW i \in 1..Len(j) PROVE SubSeq(J, 1, i) = SubSeq(j, 1, i)
  <2>1. i \in Int /\ 1 \in Int /\ \A k \in 1..i : J[k] = j[k] /\ j[k] \in Events
    BY <1>1, <1>2
  <2>. DEFINE a == SubSeq(J, 1, i)
              b == SubSeq(j, 1, i)
  <2>2. a \in Seq(Events) /\ Len(a) = i /\ \A k \in 1..i : a[k] = J[k]
    <3>1. \A k \in 1..i : J[k] \in Events
      BY <2>1
    <3>2. /\ SubSeq(J, 1, i) \in Seq(Events)
          /\ Len(SubSeq(J, 1, i)) = IF 1 <= i THEN i - 1 + 1 ELSE 0
          /\ \A k \in 1..i - 1 + 1 : SubSeq(J, 1, i)[k] = J[1 + k - 1]
      BY <2>1, <3>1, SubSeqProperties
    <3>3. i - 1 + 1 = i /\ 1 <= i /\ \A k \in 1..i : 1 + k - 1 = k
      BY <1>1
    <3>. QED BY <3>2, <3>3
  <2>3. b \in Seq(Events) /\ Len(b) = i /\ \A k \in 1..i : b[k] = j[k]
    <3>2. /\ SubSeq(j, 1, i) \in Seq(Events)
          /\ Len(SubSeq(j, 1, i)) = IF 1 <= i THEN i - 1 + 1 ELSE 0
          /\ \A k \in 1..i - 1 + 1 : SubSeq(j, 1, i)[k] = j[1 + k - 1]
      BY <2>1, SubSeqProperties
    <3>3. i - 1 + 1 = i /\ 1 <= i /\ \A k \in 1..i : 1 + k - 1 = k
      BY <1>1
    <3>. QED BY <3>2, <3>3
  <2>. HIDE DEF a, b
  <2>4. \A k \in 1..Len(a) : a[k] = b[k]
    BY <2>1, <2>2, <2>3
  <2>5. a = b
    BY <2>2, <2>3, <2>4, SeqEqual
  <2>. QED BY <2>5 DEF a, b
<1>. QED BY <1>3, <1>4 DEF J

\* One more event that, if it selects, selects above the limit.
LEMMA GuardLog ==
  ASSUME ControlOK, RollingGuardHonoured, NEW e \in Events, NEW ok, Log(ok, e),
         e.type = "selected" =>
           e.id \in Nat /\ Returned(journal, e.id - Day) > -LossLimit
  PROVE  RollingGuardHonoured'
<1>1. CASE journal' = journal
  BY <1>1 DEF RollingGuardHonoured
<1>2. CASE journal' # journal
  <2>1. journal' = Append(journal, e) /\ journal \in Seq(Events)
    BY <1>2 DEF Log, ControlOK
  <2>2. /\ Len(journal) \in Nat /\ DOMAIN journal = 1..Len(journal)
        /\ DOMAIN journal' = 1..Len(journal) + 1
        /\ journal'[Len(journal) + 1] = e
        /\ \A i \in 1..Len(journal) : journal'[i] = journal[i]
    BY <1>2, LogPlaces
  <2>3. SUFFICES ASSUME NEW i \in 1..Len(journal) + 1, journal'[i].type = "selected"
                 PROVE  Returned(SubSeq(journal', 1, i), journal'[i].id - Day) > -LossLimit
    BY <2>2 DEF RollingGuardHonoured
  <2>4. CASE i \in 1..Len(journal)
    BY <2>1, <2>2, <2>3, <2>4, PrefixOfAppend DEF RollingGuardHonoured
  <2>5. CASE i = Len(journal) + 1
    <3>1. e.type = "selected" /\ e.id - Day \in Int
      BY <2>2, <2>3, <2>5, RuntimeAssumption
    <3>2. Returned(Append(journal, e), e.id - Day)
            = Returned(journal, e.id - Day) + Share(e, e.id - Day)
      BY <2>1, <3>1, ReturnedAppend
    <3>3. Share(e, e.id - Day) = 0 /\ Returned(journal, e.id - Day) \in Int
      BY <2>1, <3>1, ReturnedTyped DEF Share
    <3>4. SubSeq(journal', 1, i) = Append(journal, e)
      BY <2>1, <2>5, PrefixOfAppend
    <3>5. Returned(Append(journal, e), e.id - Day) > -LossLimit
      <4>1. Returned(journal, e.id - Day) > -LossLimit
        BY <3>1
      <4>. QED BY <3>2, <3>3, <4>1
    <3>6. journal'[i].id = e.id
      BY <2>2, <2>5
    <3>. QED BY <3>4, <3>5, <3>6
  <2>. QED BY <2>2, <2>4, <2>5
<1>. QED BY <1>1, <1>2

\* The events that neither settle nor select.
LEMMA QuietEvents ==
  ASSUME ControlOK, RollingGuardHonoured, NEW id \in Nat \cup {None}, NEW ok,
         Log(ok, Unresolved(id)) \/ Log(ok, Stopped)
  PROVE  Quiet /\ RollingGuardHonoured'
<1>1. {Unresolved(id), Stopped} \subseteq Events
  BY EventsTyped, 0 \in Int
<1>2. \A e \in {Unresolved(id), Stopped} : e.type \notin {"settled", "selected"}
  BY DEF Unresolved, Stopped, Event
<1>. QED BY <1>1, <1>2, QuietLog, GuardLog

\* A step that appends nothing is quiet.
LEMMA NothingLogged ==
  ASSUME RollingGuardHonoured, journal' = journal
  PROVE  Quiet /\ RollingGuardHonoured'
BY DEF Quiet, RollingGuardHonoured

\* What was covered still is.
Covers == \A t \in Int : t <= now /\ Covered(t) => Covered(t)'

\* A quiet step that leaves realized_24h alone keeps the money in order.
LEMMA MoneyKeeps ==
  ASSUME ControlOK, MoneyTyped, MoneyInv, Quiet, UNCHANGED <<realized, rolling>>,
         now' \in Nat, now <= now', Covers,
         pc' \in Running \cup {"restore"} => pc \in Running \cup {"restore"},
         pc' = "select" => pc = "select" /\ decision' = decision,
         pc' \in {"down", "restore"} => rows' = {}
  PROVE  MoneyInv'
<1>0. journal \in Seq(Events) /\ now \in Nat /\ Day \in Nat
  BY RuntimeAssumption DEF ControlOK
<1>1. Settlements(journal) \in Seq(Entries) /\ realized \in Seq(Entries)
  BY <1>0, SettlementsTyped DEF MoneyTyped
<1>2. InTime(realized, now)' /\ InTime(Settlements(journal), now)'
  <2>1. InTime(realized, now') /\ InTime(Settlements(journal), now')
    BY <1>0, <1>1, InTimeLater DEF MoneyInv
  <2>. QED BY <2>1 DEF Quiet
<1>3. \A since \in Int : Within(Settlements(journal), since)' = Returned(journal, since)'
  BY DEF MoneyInv, Quiet
<1>4. ASSUME NEW cut \in Int, Kept(cut) PROVE Kept(cut)'
  <2>1. cut + Day \in Int /\ cut + Day <= now /\ Covered(cut + Day)
    BY <1>0, <1>4 DEF Kept
  <2>2. Covered(cut + Day)' /\ cut + Day <= now'
    BY <1>0, <2>1 DEF Covers
  <2>. QED BY <1>4, <2>2 DEF Kept, Quiet
<1>5. pc' = "select" => Returned(journal', decision' - Day) > -LossLimit
  <2>1. SUFFICES ASSUME pc' = "select" PROVE Returned(journal', decision' - Day) > -LossLimit
    OBVIOUS
  <2>2. decision' = decision /\ decision \in Nat
    BY <2>1, WindowAssumption DEF ControlOK
  <2>3. decision - Day \in Int
    BY <1>0, <2>2
  <2>. QED BY <2>1, <2>2, <2>3 DEF MoneyInv, Quiet
<1>6. rolling' = Total(realized')
  BY DEF MoneyInv
<1>7. pc' \in Running \cup {"restore"} => \E cut \in Int : Kept(cut)'
  BY <1>4 DEF MoneyInv
<1>. QED BY <1>2, <1>3, <1>5, <1>6, <1>7 DEF MoneyInv

\* A process that ends leaves its journal to the next one.
LEMMA MoneyExit ==
  ASSUME ControlOK, MoneyTyped, MoneyInv, Quiet, Exit, now' = now
  PROVE  MoneyInv'
<1>1. /\ pc' = "down" /\ rows' = {} /\ realized' = <<>> /\ rolling' = 0
  BY DEF Exit, ForgetMoney
<1>2. InTime(<<>>, now)
  BY EmptySeq DEF InTime, Ordered
<1>. QED BY <1>1, <1>2, SumEmpty DEF MoneyInv, Quiet, Running

\* A start reads the last day's settlements of the journal back into memory.
LEMMA MoneyStart ==
  ASSUME ControlOK, MoneyTyped, MoneyInv, Start
  PROVE  MoneyInv'
<1>. DEFINE s == Settlements(journal)
            u == Unexpired(s, now - Day)
<1>1. /\ pc = "down" /\ pc' = "restore" /\ realized' = u /\ rolling' = Total(u)
      /\ UNCHANGED <<now, journal, rows, last>>
  BY DEF Start, RestoredReturns, windowVars
<1>2. now \in Nat /\ now - Day \in Int /\ Day \in Nat /\ s \in Seq(Entries)
  BY RuntimeAssumption, SettlementsTyped DEF ControlOK
<1>3. InTime(s, now)
  BY DEF MoneyInv
<1>4. \A since \in Int : Within(s, since) = Returned(journal, since)
  BY DEF MoneyInv
<1>. HIDE DEF s
<1>5. InTime(u, now)
  <2>1. Ordered(s) => Ordered(u)
    BY <1>2, UnexpiredTyped
  <2>2. \A k \in 1..Len(u) : \E i \in 1..Len(s) : u[k] = s[i]
    BY <1>2, UnexpiredTyped
  <2>. HIDE DEF u
  <2>. QED BY <1>3, <2>1, <2>2 DEF InTime
<1>6. ASSUME NEW since \in Int, since >= now - Day
      PROVE  Within(u, since) = Returned(journal, since)
  BY <1>2, <1>4, <1>6, WithinUnexpired
<1>. HIDE DEF u
<1>7. rows = {}
  BY <1>1 DEF MoneyInv
<1>8. Kept(now - Day)'
  BY <1>1, <1>2, <1>6, <1>7 DEF Kept, Covered
<1>9. InTime(Settlements(journal), now)' /\ rolling' = Total(realized') /\ InTime(realized, now)'
  BY <1>1, <1>3, <1>5 DEF s
<1>10. \A since \in Int : Within(Settlements(journal), since)' = Returned(journal, since)'
  BY <1>1 DEF MoneyInv
<1>11. \E cut \in Int : Kept(cut)'
  BY <1>1, <1>2, <1>8
<1>. QED BY <1>1, <1>7, <1>9, <1>10, <1>11 DEF MoneyInv

\* Settling adds to memory and, when its append succeeds, as much to the journal.
LEMMA MoneySettles ==
  ASSUME ControlOK, MoneyTyped, MoneyInv, RollingGuardHonoured, NEW ok,
         NEW r \in Returns \cup {0}, Settles(ok, r), UNCHANGED <<now, last, rows>>,
         pc \in Running,
         pc' \notin {"down", "restore", "select"}, ~ok => pc' \notin Running
  PROVE  MoneyInv' /\ RollingGuardHonoured'
<1>. DEFINE x == [at |-> now, amount |-> r]
            e == Settled(pending, r, equity + r)
<1>1. /\ realized' = Append(realized, x) /\ rolling' = rolling + r /\ Log(ok, e)
      /\ equity + r \in Int /\ r \in Int
  BY ReturnsTyped DEF Settles, ControlOK
<1>2. x \in Entries /\ x.at = now /\ x.amount = r
  BY <1>1 DEF Entries, ControlOK
<1>3. e \in Events /\ e.type = "settled" /\ e.at = now /\ e.amount = r /\ Entry(e) = x
  BY <1>1, EventsTyped DEF Settled, Event, Entry, ControlOK
<1>. HIDE DEF x, e
<1>4. /\ journal \in Seq(Events) /\ realized \in Seq(Entries) /\ rolling \in Int
      /\ Settlements(journal) \in Seq(Entries) /\ now \in Nat
  BY SettlementsTyped DEF ControlOK, MoneyTyped
<1>5. rolling' = Total(realized')
  BY <1>1, <1>2, <1>4, SettledTotalAppend DEF MoneyInv
<1>6. InTime(realized', now)
  BY <1>1, <1>2, <1>4, InTimeAppend DEF MoneyInv
<1>7. \A since \in Int : Within(realized', since)
                             = Within(realized, since) + IF now >= since THEN r ELSE 0
  BY <1>1, <1>2, <1>4, WithinAppend
<1>8. RollingGuardHonoured'
  <2>1. e.type # "selected"
    BY <1>3
  <2>. QED BY <1>1, <1>3, <2>1, GuardLog
<1>9. CASE ok
  <2>1. journal' = Append(journal, e)
    BY <1>1, <1>9 DEF Log
  <2>2. Settlements(journal') = Append(Settlements(journal), x)
    BY <1>3, <1>4, <2>1, SettlementsAppend DEF OneMore
  <2>3. ASSUME NEW since \in Int
        PROVE  Returned(journal', since) = Returned(journal, since) + IF now >= since THEN r ELSE 0
    <3>1. Returned(journal', since) = Returned(journal, since) + Share(e, since)
      BY <1>3, <1>4, <2>1, ReturnedAppend
    <3>. QED BY <1>3, <3>1 DEF Share
  <2>4. InTime(Settlements(journal'), now)
    BY <1>2, <1>4, <2>2, InTimeAppend DEF MoneyInv
  <2>5. ASSUME NEW since \in Int PROVE Within(Settlements(journal'), since) = Returned(journal', since)
    <3>1. Within(Append(Settlements(journal), x), since)
            = Within(Settlements(journal), since) + IF x.at >= since THEN x.amount ELSE 0
      BY <1>2, <1>4, WithinAppend
    <3>2. Within(Settlements(journal), since) = Returned(journal, since)
      BY DEF MoneyInv
    <3>. QED BY <1>2, <2>2, <2>3, <3>1, <3>2
  <2>6. PICK cut \in Int : Kept(cut)
    BY DEF MoneyInv
  <2>7. ASSUME NEW since \in Int, since >= cut
        PROVE  Within(realized', since) = Returned(journal', since)
    <3>1. Within(realized, since) = Returned(journal, since)
      BY <2>6, <2>7 DEF Kept
    <3>. QED BY <1>7, <2>3, <3>1
  <2>8. Kept(cut)'
    BY <2>6, <2>7 DEF Kept, Covered
  <2>9. \E c \in Int : Kept(c)'
    BY <2>8
  <2>. QED BY <1>5, <1>6, <1>8, <2>4, <2>5, <2>9 DEF MoneyInv
<1>10. CASE ~ok
  <2>1. journal' = journal
    BY <1>1, <1>10 DEF Log
  <2>2. pc' \notin Running /\ pc' # "restore" /\ pc' # "select" /\ pc' # "down"
    BY <1>10
  <2>3. /\ InTime(Settlements(journal'), now)
        /\ \A since \in Int : Within(Settlements(journal'), since) = Returned(journal', since)
    BY <2>1 DEF MoneyInv
  <2>. QED BY <1>5, <1>6, <1>8, <2>2, <2>3 DEF MoneyInv
<1>. QED BY <1>9, <1>10

\* Settling, giving up and waiting keep the money in order.
LEMMA MoneyTrySettle ==
  ASSUME ControlOK, MoneyTyped, MoneyInv, RollingGuardHonoured, NEW next, TrySettle(next),
         UNCHANGED <<now, last, rows>>, pc \in Running, next \in {"idle", "evaluate", "cycle"}
  PROVE  MoneyInv' /\ RollingGuardHonoured'
<1>0. now \in Nat /\ Covers
  BY DEF ControlOK, Covers, Covered
<1>1. CASE UNCHANGED <<journal, pending, money>> /\ pc' = next
  <2>1. Quiet /\ RollingGuardHonoured'
    BY <1>1, NothingLogged
  <2>2. UNCHANGED <<realized, rolling>>
    BY <1>1 DEF money
  <2>3. pc' \notin {"select", "down", "restore"}
    BY <1>1
  <2>. QED BY <1>0, <2>1, <2>2, <2>3, MoneyKeeps
<1>2. CASE \E ok \in AppendOutcomes :
             /\ pc' = IF ok THEN next ELSE "finally"
             /\ GivesUp(ok) \/ \E r \in Returns \cup {0} : Settles(ok, r)
  <2>1. PICK ok \in AppendOutcomes :
          /\ pc' = IF ok THEN next ELSE "finally"
          /\ GivesUp(ok) \/ \E r \in Returns \cup {0} : Settles(ok, r)
    BY <1>2
  <2>2. pc' \notin {"select", "down", "restore"} /\ (~ok => pc' \notin Running)
    BY <2>1 DEF Running
  <2>3. CASE GivesUp(ok)
    <3>1. Quiet /\ RollingGuardHonoured' /\ UNCHANGED <<realized, rolling>>
      BY <2>3, QuietEvents DEF GivesUp, ControlOK, money
    <3>. QED BY <1>0, <2>2, <3>1, MoneyKeeps
  <2>4. CASE \E r \in Returns \cup {0} : Settles(ok, r)
    BY <2>2, <2>4, MoneySettles
  <2>. QED BY <2>1, <2>3, <2>4
<1>. QED BY <1>1, <1>2, TrySettleCases

\* The loss guard of a cycle: what is left of the deque is what the journal says
\* of the day before the decision.
LEMMA MoneyCycle ==
  ASSUME ControlOK, MoneyTyped, MoneyInv, OrderInv, Cycle
  PROVE  MoneyInv'
<1>. DEFINE since0 == decision - Day
            u == Unexpired(realized, since0)
<1>1. /\ pc = "cycle" /\ realized' = u /\ last' = decision
      /\ rolling' = rolling - (Total(realized) - Total(u))
      /\ UNCHANGED <<now, journal, rows>>
      /\ pc' \in {"select", "idle", "finally"}
      /\ pc' = "select" => /\ FeaturesPossible(decision) /\ decision' = decision
                           /\ ~(rolling' <= -LossLimit)
  BY DEF Cycle, CandidateSets, LossGuardActive, windowVars
<1>2. /\ decision \in Nat /\ now \in Nat /\ Day \in Nat /\ last \in Int /\ LossLimit \in Nat
      /\ decision > last /\ decision <= now
  BY <1>1, WindowAssumption, RuntimeAssumption DEF ControlOK, OrderInv
<1>3. since0 \in Int /\ realized \in Seq(Entries) /\ journal \in Seq(Events)
  BY <1>2 DEF MoneyTyped, ControlOK
<1>4. u \in Seq(Entries) /\ InTime(u, now) /\ \A k \in 1..Len(u) : u[k].at >= since0
  <2>1. InTime(realized, now)
    BY DEF MoneyInv
  <2>2. /\ u \in Seq(Entries) /\ (Ordered(realized) => Ordered(u))
        /\ Ordered(realized) => \A k \in 1..Len(u) : u[k].at >= since0
        /\ \A k \in 1..Len(u) : \E i \in 1..Len(realized) : u[k] = realized[i]
    BY <1>3, UnexpiredTyped
  <2>. HIDE DEF u
  <2>. QED BY <2>1, <2>2 DEF InTime
<1>5. ASSUME NEW since \in Int, since >= since0
      PROVE  Within(u, since) = Within(realized, since)
  BY <1>3, <1>5, WithinUnexpired
<1>. HIDE DEF u
<1>6. rolling' = Total(u) /\ Total(u) \in Int
  <2>1. Total(u) \in Int /\ Total(realized) \in Int
    BY <1>3, <1>4, EntriesAre, SumTyped
  <2>2. rolling = Total(realized)
    BY DEF MoneyInv
  <2>. QED BY <1>1, <2>1, <2>2
<1>7. Total(u) = Within(u, since0)
  BY <1>3, <1>4, WithinAll
<1>8. PICK cut \in Int : Kept(cut)
  BY <1>1 DEF MoneyInv, Running
<1>9. PICK low \in Int : /\ low = IF cut <= since0 THEN since0 ELSE cut
                        /\ low >= cut /\ low >= since0 /\ low + Day <= now
  <2>1. cut + Day <= now /\ since0 + Day <= now
    BY <1>2, <1>8 DEF Kept
  <2>2. CASE cut <= since0
    BY <1>3, <2>1, <2>2
  <2>3. CASE ~(cut <= since0)
    BY <1>3, <2>1, <2>3
  <2>. QED BY <2>2, <2>3
<1>10. Covered(low + Day)'
  <2>1. CASE cut <= since0
    <3>1. low + Day = decision
      BY <1>2, <1>9, <2>1
    <3>. QED BY <1>1, <1>2, <3>1 DEF Covered
  <2>2. CASE ~(cut <= since0)
    <3>1. low = cut /\ cut + Day \in Int
      BY <1>2, <1>9, <2>2
    <3>2. cut + Day <= last \/ \A r \in rows : cut + Day <= r.at
      BY <1>8 DEF Kept, Covered
    <3>. QED BY <1>1, <1>2, <3>1, <3>2 DEF Covered
  <2>. QED BY <2>1, <2>2
<1>11. ASSUME NEW since \in Int, since >= low PROVE Within(u, since) = Returned(journal, since)
  <2>1. since >= cut /\ since >= since0
    BY <1>3, <1>9, <1>11
  <2>. QED BY <1>5, <1>8, <2>1 DEF Kept
<1>12. Kept(low)'
  BY <1>1, <1>9, <1>10, <1>11 DEF Kept
<1>13. ASSUME pc' = "select" PROVE Returned(journal, since0) > -LossLimit
  <2>1. PICK r \in rows : r.at <= decision - Warmup
    BY <1>1, <1>13 DEF FeaturesPossible, ContinuousCoverage, Before
  <2>2. r.at \in Nat /\ Warmup \in Nat \ {0}
    BY WindowAssumption DEF ControlOK
  <2>3. cut + Day <= last \/ cut + Day <= r.at
    BY <1>8 DEF Kept, Covered
  <2>4. cut <= since0
    BY <1>2, <2>1, <2>2, <2>3
  <2>5. Within(realized, since0) = Returned(journal, since0)
    BY <1>3, <1>8, <2>4 DEF Kept
  <2>6. Within(u, since0) = Within(realized, since0)
    BY <1>3, <1>5
  <2>. HIDE DEF since0
  <2>7. rolling' = Returned(journal, since0)
    BY <1>6, <1>7, <2>5, <2>6
  <2>8. ~(rolling' <= -LossLimit) /\ rolling' \in Int
    BY <1>1, <1>6, <1>13
  <2>9. -LossLimit \in Int
    BY <1>2
  <2>10. rolling' > -LossLimit
    BY <2>8, <2>9
  <2>. QED BY <2>7, <2>10
<1>14. /\ rolling' = Total(realized') /\ InTime(realized, now)'
       /\ InTime(Settlements(journal), now)'
       /\ \A since \in Int : Within(Settlements(journal), since)' = Returned(journal, since)'
  BY <1>1, <1>4, <1>6 DEF MoneyInv
<1>15. \E c \in Int : Kept(c)'
  BY <1>9, <1>12
<1>16. pc' = "select" => Returned(journal', decision' - Day) > -LossLimit
  BY <1>1, <1>13
<1>17. pc' \notin {"down", "restore"}
  BY <1>1
<1>. QED BY <1>14, <1>15, <1>16, <1>17 DEF MoneyInv

\* Every step keeps the money in order and the loss guard honoured.
LEMMA MoneyStep ==
  ASSUME ControlOK, MoneyTyped, OrderInv, MoneyInv, RollingGuardHonoured, [Next]_vars
  PROVE  MoneyInv' /\ RollingGuardHonoured'
<1>. USE DEF memory, money, windowVars
<1>0. now \in Nat
  BY DEF ControlOK
<1>1. CASE /\ UNCHANGED <<journal, realized, rolling, rows, last>>
           /\ now' \in {now, now + 1}
           /\ pc' \in Running \cup {"restore"} => pc \in Running \cup {"restore"}
           /\ pc' = "select" => pc = "select" /\ decision' = decision
           /\ pc' \in {"down", "restore"} => pc \in {"down", "restore"}
  <2>1. Quiet /\ RollingGuardHonoured'
    BY <1>1, NothingLogged
  <2>2. Covers /\ now' \in Nat /\ now <= now'
    BY <1>0, <1>1 DEF Covers, Covered
  <2>3. pc' \in {"down", "restore"} => rows' = {}
    BY <1>1 DEF MoneyInv
  <2>. QED BY <1>1, <2>1, <2>2, <2>3, MoneyKeeps
<1>2. CASE UNCHANGED vars
  BY <1>1, <1>2 DEF vars
<1>3. CASE Tick
  BY <1>1, <1>3 DEF Tick
<1>4. CASE Crash
  <2>1. Quiet /\ RollingGuardHonoured' /\ Exit /\ now' = now
    BY <1>4, NothingLogged DEF Crash
  <2>. QED BY <2>1, MoneyExit
<1>5. CASE Start
  BY <1>5, MoneyStart, NothingLogged DEF Start
<1>6. CASE Restore
  <2>1. Quiet /\ RollingGuardHonoured' /\ now' = now
    BY <1>6, RestoreLogs, QuietEvents, NothingLogged DEF Restore
  <2>2. CASE Exit
    BY <2>1, <2>2, MoneyExit
  <2>3. CASE ~Exit
    <3>1. /\ UNCHANGED <<realized, rolling, rows, last>> /\ pc = "restore"
          /\ pc' \in {"idle", "restore"}
      BY <1>6, <2>3 DEF Restore
    <3>2. Covers /\ rows' = {} /\ pc' # "select"
      BY <3>1 DEF Covers, Covered, MoneyInv
    <3>. QED BY <1>0, <2>1, <3>1, <3>2, MoneyKeeps
  <2>. QED BY <2>2, <2>3
<1>7. CASE Dial
  BY <1>1, <1>7 DEF Dial, Running
<1>8. CASE Disconnect
  BY <1>1, <1>8 DEF Disconnect, Running
<1>9. ASSUME NEW kind \in Kinds, Sink(kind) PROVE MoneyInv' /\ RollingGuardHonoured'
  <2>1. /\ pc = "idle" /\ pc' = "idle" /\ WindowAccept(kind, wire, now)
        /\ UNCHANGED <<now, last, realized, rolling>>
        /\ journal' = journal \/ \E ok \in AppendOutcomes : Log(ok, Unresolved(pending))
    BY <1>9 DEF Sink
  <2>2. Quiet /\ RollingGuardHonoured'
    BY <2>1, QuietEvents, NothingLogged DEF ControlOK
  <2>3. Covers
    BY <2>1, SinkCovers DEF Covers
  <2>4. pc' \notin {"select", "down", "restore"} /\ pc \in Running
    BY <2>1 DEF Running
  <2>. QED BY <1>0, <2>1, <2>2, <2>3, <2>4, MoneyKeeps
<1>10. CASE Poll
  <2>1. /\ TrySettle(IF DecisionDue THEN "evaluate" ELSE "idle") /\ pc \in Running
        /\ UNCHANGED <<now, last, rows>>
    BY <1>10 DEF Poll, Running
  <2>. QED BY <2>1, MoneyTrySettle
<1>11. CASE Resettle
  <2>1. TrySettle("cycle") /\ pc \in Running /\ UNCHANGED <<now, last, rows>>
    BY <1>11 DEF Resettle, Running
  <2>. QED BY <2>1, MoneyTrySettle
<1>12. CASE Cycle
  BY <1>12, MoneyCycle, NothingLogged DEF Cycle
<1>13. CASE Select
  <2>1. PICK ok \in AppendOutcomes :
          Log(ok, Selected(decision)) /\ pc' = IF ok THEN "idle" ELSE "finally"
    BY <1>13 DEF Select
  <2>2. UNCHANGED <<now, rows, last, realized, rolling>> /\ pc = "select" /\ decision \in Nat
    BY <1>13, WindowAssumption DEF Select, ControlOK
  <2>3. /\ Selected(decision) \in Events /\ Selected(decision).id = decision
        /\ Selected(decision).type = "selected"
    BY EventsTyped, 0 \in Int DEF ControlOK, Selected, Event
  <2>4. Returned(journal, decision - Day) > -LossLimit
    BY <2>2 DEF MoneyInv
  <2>5. RollingGuardHonoured'
    BY <2>1, <2>2, <2>3, <2>4, GuardLog
  <2>6. Quiet
    BY <2>1, <2>3, QuietLog
  <2>7. Covers /\ pc' \notin {"select", "down", "restore"} /\ pc \in Running
    BY <2>1, <2>2 DEF Covers, Covered, Running
  <2>. QED BY <1>0, <2>2, <2>5, <2>6, <2>7, MoneyKeeps
<1>14. CASE Stop
  BY <1>1, <1>14 DEF Stop, Running
<1>15. CASE TasksReturn
  BY <1>1, <1>15 DEF TasksReturn, Running
<1>16. CASE Finally
  <2>1. Quiet /\ RollingGuardHonoured' /\ now' = now /\ pc = "finally"
    BY <1>16, QuietEvents DEF Finally, ControlOK
  <2>2. CASE Exit
    BY <2>1, <2>2, MoneyExit
  <2>3. CASE ~Exit
    <3>1. UNCHANGED <<realized, rolling, rows, last, pc>>
      BY <1>16, <2>3 DEF Finally
    <3>2. Covers /\ pc' \notin Running \cup {"restore", "down", "select"}
      BY <2>1, <3>1 DEF Covers, Covered, Running
    <3>. QED BY <1>0, <2>1, <3>1, <3>2, MoneyKeeps
  <2>. QED BY <2>2, <2>3
<1>. QED BY <1>2, <1>3, <1>4, <1>5, <1>6, <1>7, <1>8, <1>9, <1>10, <1>11, <1>12, <1>13,
            <1>14, <1>15, <1>16 DEF Next

-----------------------------------------------------------------------------
(* Equity, in a journal that takes every append. *)

EquityInv ==
  /\ RestoredEquity(journal) = Total(Settlements(journal))
  /\ pc # "down" => equity = Total(Settlements(journal))
  /\ EquityReplayable

\* The last settlement is the new one, or the one it was.
LEMMA RestoredEquityAppend ==
  ASSUME NEW j \in Seq(Events), NEW e \in Events
  PROVE  RestoredEquity(Append(j, e)) = IF e.type = "settled" THEN e.equity ELSE RestoredEquity(j)
<1>. DEFINE J == Append(j, e)
            n == Len(j) + 1
<1>1. /\ Len(j) \in Nat /\ DOMAIN j = 1..Len(j) /\ DOMAIN J = 1..n /\ Len(J) = n
      /\ J[n] = e /\ \A i \in 1..Len(j) : J[i] = j[i]
  OBVIOUS
<1>. HIDE DEF J
<1>2. LastSettlement(J, n) <=> e.type = "settled"
  BY <1>1 DEF LastSettlement
<1>3. ASSUME NEW i \in 1..Len(j)
      PROVE  LastSettlement(J, i) <=> LastSettlement(j, i) /\ e.type # "settled"
  <2>1. (i + 1)..Len(J) = ((i + 1)..Len(j)) \cup {n} /\ i \in 1..n
    BY <1>1
  <2>2. \A k \in (i + 1)..Len(j) : J[k] = j[k]
    BY <1>1
  <2>. QED BY <1>1, <2>1, <2>2 DEF LastSettlement
<1>4. 1..n = (1..Len(j)) \cup {n}
  BY <1>1
<1>. HIDE DEF n
<1>5. CASE e.type = "settled"
  <2>1. \A i \in 1..n : LastSettlement(J, i) <=> i = n
    BY <1>2, <1>3, <1>4, <1>5
  <2>2. n \in DOMAIN J
    BY <1>1, <1>4
  <2>3. (CHOOSE i \in DOMAIN J : LastSettlement(J, i)) = n
    BY <1>1, <2>1, <2>2
  <2>. QED BY <1>1, <1>5, <2>1, <2>2, <2>3 DEF RestoredEquity, J
<1>6. CASE e.type # "settled"
  <2>1. \A i \in DOMAIN J : LastSettlement(J, i) <=> i \in DOMAIN j /\ LastSettlement(j, i)
    BY <1>1, <1>2, <1>3, <1>4, <1>6
  <2>2. \A i \in DOMAIN j : i \in DOMAIN J
    BY <1>1, <1>4
  <2>3. CASE \E i \in DOMAIN j : LastSettlement(j, i)
    <3>. DEFINE a == CHOOSE i \in DOMAIN j : LastSettlement(j, i)
                b == CHOOSE i \in DOMAIN J : LastSettlement(J, i)
    <3>1. a \in DOMAIN j /\ LastSettlement(j, a)
      BY <2>3
    <3>2. b \in DOMAIN J /\ LastSettlement(J, b)
      BY <2>1, <2>2, <2>3
    <3>3. RestoredEquity(J) = J[b].equity /\ RestoredEquity(j) = j[a].equity
      BY <2>1, <2>2, <2>3 DEF RestoredEquity
    <3>. HIDE DEF a, b
    <3>4. b \in DOMAIN j /\ LastSettlement(j, b)
      BY <2>1, <3>2
    <3>5. a = b
      <4>1. a \in 1..Len(j) /\ b \in 1..Len(j) /\ j[a].type = "settled" /\ j[b].type = "settled"
        BY <1>1, <3>1, <3>4 DEF LastSettlement
      <4>2. b \notin (a + 1)..Len(j) /\ a \notin (b + 1)..Len(j)
        BY <3>1, <3>4, <4>1 DEF LastSettlement
      <4>. QED BY <1>1, <4>1, <4>2
    <3>6. J[b] = j[a]
      BY <1>1, <3>4, <3>5
    <3>. QED BY <1>6, <3>3, <3>6 DEF J
  <2>4. CASE ~ \E i \in DOMAIN j : LastSettlement(j, i)
    <3>1. ~ \E i \in DOMAIN J : LastSettlement(J, i)
      BY <2>1, <2>4
    <3>. QED BY <1>6, <2>4, <3>1 DEF RestoredEquity, J
  <2>. QED BY <2>3, <2>4
<1>. QED BY <1>5, <1>6

\* One more event that, if it reports an equity, reports the sum of the returns.
LEMMA EquityLog ==
  ASSUME ControlOK, RestoredEquity(journal) = Total(Settlements(journal)), EquityReplayable,
         NEW e \in Events, NEW ok, Log(ok, e),
         e.type = "settled" => e.equity = Total(Settlements(journal)) + e.amount,
         e.type = "stopped" => e.equity = Total(Settlements(journal))
  PROVE  /\ EquityReplayable'
         /\ RestoredEquity(journal') = Total(Settlements(journal'))
         /\ e.type # "settled" => Total(Settlements(journal')) = Total(Settlements(journal))
         /\ e.type = "settled" /\ ok => Total(Settlements(journal')) = e.equity
<1>1. CASE ~ok
  BY <1>1 DEF Log, EquityReplayable
<1>2. CASE ok
  <2>1. journal' = Append(journal, e) /\ journal \in Seq(Events)
    BY <1>2 DEF Log, ControlOK
  <2>2. /\ Len(journal) \in Nat /\ DOMAIN journal = 1..Len(journal)
        /\ DOMAIN journal' = 1..Len(journal) + 1
        /\ journal'[Len(journal) + 1] = e
        /\ \A i \in 1..Len(journal) : journal'[i] = journal[i]
    BY <1>2, LogPlaces
  <2>3. Settlements(journal') = OneMore(Settlements(journal), e)
    BY <2>1, SettlementsAppend
  <2>4. e.type # "settled" => Total(Settlements(journal')) = Total(Settlements(journal))
    BY <2>3 DEF OneMore
  <2>5. e.type = "settled" => Total(Settlements(journal')) = e.equity
    <3>1. SUFFICES ASSUME e.type = "settled" PROVE Total(Settlements(journal')) = e.equity
      OBVIOUS
    <3>2. Settlements(journal) \in Seq(Entries) /\ Entry(e) \in Entries /\ Entry(e).amount = e.amount
      BY <2>1, SettlementsTyped DEF Entry, Entries, Events
    <3>3. Total(Append(Settlements(journal), Entry(e))) = Total(Settlements(journal)) + e.amount
      BY <3>2, SettledTotalAppend
    <3>. QED BY <2>3, <3>1, <3>3 DEF OneMore
  <2>6. RestoredEquity(journal') = IF e.type = "settled" THEN e.equity ELSE RestoredEquity(journal)
    BY <2>1, RestoredEquityAppend
  <2>7. RestoredEquity(journal') = Total(Settlements(journal'))
    BY <2>4, <2>5, <2>6
  <2>8. ASSUME NEW i \in 1..Len(journal) + 1, journal'[i].type \in {"settled", "stopped"}
        PROVE  journal'[i].equity = Total(Settlements(SubSeq(journal', 1, i)))
    <3>1. CASE i \in 1..Len(journal)
      BY <2>1, <2>2, <2>8, <3>1, PrefixOfAppend DEF EquityReplayable
    <3>2. CASE i = Len(journal) + 1
      <4>1. SubSeq(journal', 1, i) = journal'
        BY <2>1, <3>2, PrefixOfAppend
      <4>. QED BY <2>2, <2>4, <2>5, <2>8, <3>2, <4>1
    <3>. QED BY <2>2, <3>1, <3>2
  <2>. QED BY <2>2, <2>4, <2>5, <2>7, <2>8 DEF EquityReplayable
<1>. QED BY <1>1, <1>2

\* The events that settle nothing report the equity there is.
LEMMA EquityOther ==
  ASSUME ControlOK, EquityInv, NEW id \in Nat \cup {None}, NEW ok,
         \/ Log(ok, Unresolved(id))
         \/ Log(ok, Selected(id))
         \/ Log(ok, Stopped) /\ pc # "down"
  PROVE  /\ EquityReplayable' /\ RestoredEquity(journal') = Total(Settlements(journal'))
         /\ Total(Settlements(journal')) = Total(Settlements(journal))
<1>1. {Unresolved(id), Stopped, Selected(id)} \subseteq Events
  BY EventsTyped, 0 \in Int
<1>2. /\ Unresolved(id).type = "unresolved" /\ Selected(id).type = "selected"
      /\ Stopped.type = "stopped" /\ Stopped.equity = equity
  BY DEF Unresolved, Stopped, Selected, Event
<1>3. CASE Log(ok, Unresolved(id))
  BY <1>1, <1>2, <1>3, EquityLog DEF EquityInv
<1>4. CASE Log(ok, Selected(id))
  BY <1>1, <1>2, <1>4, EquityLog DEF EquityInv
<1>5. CASE Log(ok, Stopped) /\ pc # "down"
  BY <1>1, <1>2, <1>5, EquityLog DEF EquityInv
<1>. QED BY <1>3, <1>4, <1>5

\* Every step of a process whose appends succeed keeps the equity replayable.
LEMMA EquityStep ==
  ASSUME Faults = FALSE, ControlOK, EquityInv, [Next]_vars
  PROVE  EquityInv'
<1>. USE DEF memory, money
<1>0. \A ok \in AppendOutcomes : ok = TRUE
  BY DEF AppendOutcomes
<1>1. CASE UNCHANGED <<journal, equity>> /\ (pc' # "down" => pc # "down")
  BY <1>1 DEF EquityInv, EquityReplayable
<1>2. ASSUME EquityReplayable', RestoredEquity(journal') = Total(Settlements(journal')), Exit
      PROVE  EquityInv'
  BY <1>2 DEF EquityInv, Exit
<1>3. ASSUME EquityReplayable', RestoredEquity(journal') = Total(Settlements(journal')),
             Total(Settlements(journal')) = Total(Settlements(journal)),
             equity' = equity, pc # "down"
      PROVE  EquityInv'
  BY <1>3 DEF EquityInv
<1>4. CASE Crash
  BY <1>2, <1>4 DEF Crash, EquityInv, EquityReplayable
<1>5. CASE Start
  BY <1>5 DEF Start, EquityInv, EquityReplayable
<1>6. CASE Restore
  <2>1. pc = "restore" /\ equity' = equity
    BY <1>0, <1>6 DEF Restore
  <2>2. CASE journal' = journal
    BY <1>1, <2>1, <2>2
  <2>3. CASE journal' # journal
    <3>1. PICK id \in Nat \cup {None}, ok \in AppendOutcomes : Log(ok, Unresolved(id))
      BY <1>6, <2>3, RestoreLogs
    <3>. QED BY <1>3, <2>1, <3>1, EquityOther
  <2>. QED BY <2>2, <2>3
<1>7. ASSUME NEW kind \in Kinds, Sink(kind) PROVE EquityInv'
  <2>1. pc = "idle" /\ equity' = equity /\ pc' = "idle"
    BY <1>7 DEF Sink
  <2>2. CASE journal' = journal
    BY <1>1, <2>1, <2>2
  <2>3. CASE journal' # journal
    <3>1. PICK ok \in AppendOutcomes : Log(ok, Unresolved(pending))
      BY <1>7, <2>3 DEF Sink
    <3>. QED BY <1>3, <2>1, <3>1, EquityOther DEF ControlOK
  <2>. QED BY <2>2, <2>3
<1>8. ASSUME NEW next, TrySettle(next), pc # "down" PROVE EquityInv'
  <2>1. CASE UNCHANGED <<journal, pending, money>>
    BY <1>1, <1>8, <2>1
  <2>2. CASE ~UNCHANGED <<journal, pending, money>>
    <3>1. PICK ok \in AppendOutcomes : GivesUp(ok) \/ \E r \in Returns \cup {0} : Settles(ok, r)
      BY <1>8, <2>2, TrySettleCases
    <3>2. CASE GivesUp(ok)
      BY <1>3, <1>8, <3>2, EquityOther DEF GivesUp, ControlOK
    <3>3. CASE \E r \in Returns \cup {0} : Settles(ok, r)
      <4>1. PICK r \in Returns \cup {0} : Settles(ok, r)
        BY <3>3
      <4>2. r \in Int /\ equity + r \in Int /\ equity = Total(Settlements(journal))
        BY <1>8, ReturnsTyped DEF ControlOK, EquityInv
      <4>. DEFINE e == Settled(pending, r, equity + r)
      <4>3. /\ e \in Events /\ Log(ok, e) /\ e.type = "settled"
            /\ e.equity = equity + r /\ e.amount = r /\ equity' = equity + r
        BY <4>1, <4>2, EventsTyped DEF Settled, Event, Settles, ControlOK
      <4>. HIDE DEF e
      <4>4. e.equity = Total(Settlements(journal)) + e.amount
        BY <4>2, <4>3
      <4>5. /\ EquityReplayable' /\ RestoredEquity(journal') = Total(Settlements(journal'))
            /\ Total(Settlements(journal')) = e.equity
        BY <1>0, <4>3, <4>4, EquityLog DEF EquityInv
      <4>. QED BY <4>3, <4>5 DEF EquityInv
    <3>. QED BY <3>1, <3>2, <3>3
  <2>. QED BY <2>1, <2>2
<1>9. CASE Poll \/ Resettle
  BY <1>8, <1>9 DEF Poll, Resettle
<1>10. CASE Select
  <2>1. pc = "select" /\ equity' = equity /\ decision \in Nat \cup {None}
    BY <1>10 DEF Select, ControlOK
  <2>2. PICK ok \in AppendOutcomes : Log(ok, Selected(decision))
    BY <1>10 DEF Select
  <2>. QED BY <1>3, <2>1, <2>2, EquityOther
<1>11. CASE Finally
  <2>1. pc = "finally" /\ pending \in Nat \cup {None}
    BY <1>11 DEF Finally, ControlOK
  <2>2. CASE Exit
    <3>1. \E ok \in AppendOutcomes : Log(ok, Unresolved(pending)) \/ Log(ok, Stopped)
      BY <1>11 DEF Finally
    <3>2. EquityReplayable' /\ RestoredEquity(journal') = Total(Settlements(journal'))
      BY <2>1, <3>1, EquityOther
    <3>. QED BY <1>2, <2>2, <3>2
  <2>3. CASE ~Exit
    <3>1. equity' = equity /\ \E ok \in AppendOutcomes : Log(ok, Unresolved(pending))
      BY <1>11, <2>3 DEF Finally
    <3>. QED BY <1>3, <2>1, <3>1, EquityOther
  <2>. QED BY <2>2, <2>3
<1>12. CASE Cycle
  BY <1>1, <1>12 DEF Cycle
<1>13. CASE Tick \/ Dial \/ Disconnect \/ Stop \/ TasksReturn \/ UNCHANGED vars
  BY <1>1, <1>13 DEF Tick, Dial, Disconnect, Stop, TasksReturn, vars
<1>. QED BY <1>4, <1>5, <1>6, <1>7, <1>9, <1>10, <1>11, <1>12, <1>13 DEF Next

-----------------------------------------------------------------------------
(* The slot that the journal implements. *)

SlotNow == IF Open(journal) = {} THEN None ELSE CHOOSE id \in Open(journal) : TRUE

TotalNow == Total(Settlements(journal))

SlotView == <<SlotNow, SelectedIds, TotalNow>>

\* What is open has been selected.
LEMMA OpenAreSelected ==
  ASSUME ControlOK
  PROVE  Open(journal) \subseteq SelectedIds
BY DEF Open, OpenAt, SelectedIds

\* Of one open selection, the slot is that one.
LEMMA SlotIs ==
  ASSUME NEW id
  PROVE  /\ Open(journal) = {id} => SlotNow = id
         /\ Open(journal) = {} => SlotNow = None
BY DEF SlotNow

\* The same of the state after a step.
LEMMA SlotIsNext ==
  ASSUME NEW id
  PROVE  /\ Open(journal') = {id} => SlotNow' = id
         /\ Open(journal') = {} => SlotNow' = None
BY DEF SlotNow

\* An event that resolves the open selection frees the slot.
LEMMA SlotFrees ==
  ASSUME ControlOK, OrderInv, NEW id, Open(journal) \subseteq {id},
         Open(journal') = Open(journal) \ {id}, SelectedIds' = SelectedIds,
         Open(journal) = {} => TotalNow' = TotalNow,
         \E r \in Returns \cup {0} : TotalNow' = TotalNow + r
  PROVE  Slot!Free \/ UNCHANGED SlotView
<1>1. Open(journal') = {} /\ SlotNow' = None
  BY SlotIsNext
<1>2. CASE Open(journal) = {}
  BY <1>1, <1>2, SlotIs DEF SlotView
<1>3. CASE Open(journal) # {}
  <2>1. Open(journal) = {id} /\ id \in Nat
    BY <1>3, OpenAreSelected DEF OrderInv
  <2>2. SlotNow = id /\ id # None
    BY <2>1, SlotIs, WindowAssumption
  <2>. QED BY <1>1, <2>2 DEF Slot!Free, SlotNow, TotalNow
<1>. QED BY <1>2, <1>3

\* The sum of the returns settled is a number.
LEMMA TotalNowTyped ==
  ASSUME ControlOK
  PROVE  TotalNow \in Int
<1>1. Settlements(journal) \in Seq(Entries)
  BY SettlementsTyped DEF ControlOK
<1>. QED BY <1>1, EntriesAre, SumTyped DEF TotalNow

\* An event that settles nothing leaves the total.
LEMMA TotalQuiet ==
  ASSUME Quiet
  PROVE  TotalNow' = TotalNow
BY DEF Quiet, TotalNow

\* candidate_unresolved frees the slot with no return.
LEMMA UnresolvedFrees ==
  ASSUME ControlOK, OrderInv, NEW id \in Nat \cup {None}, NEW ok, Log(ok, Unresolved(id)),
         Open(journal) \subseteq {id}
  PROVE  Slot!Free \/ UNCHANGED SlotView
<1>1. Unresolved(id) \in Events /\ Unresolved(id).type # "settled"
  <2>1. Unresolved(id) \in Events
    BY EventsTyped, 0 \in Int
  <2>. QED BY <2>1 DEF Unresolved, Event
<1>2. TotalNow' = TotalNow /\ TotalNow \in Int
  BY <1>1, QuietLog, TotalQuiet, TotalNowTyped
<1>3. SelectedIds' = SelectedIds
  BY OtherSelected, 0 \in Int
<1>4. CASE ok
  <2>1. Open(journal') = Open(journal) \ {id}
    BY <1>4, UnresolvedOpen
  <2>2. \E r \in Returns \cup {0} : TotalNow' = TotalNow + r
    BY <1>2
  <2>. QED BY <1>2, <1>3, <2>1, <2>2, SlotFrees
<1>5. CASE ~ok
  BY <1>5 DEF Log, SlotView, SlotNow, TotalNow, SelectedIds
<1>. QED BY <1>4, <1>5

\* candidate_settled frees the slot with its return.
LEMMA SettledFrees ==
  ASSUME ControlOK, OrderInv, NEW ok, NEW r \in Returns \cup {0}, Settles(ok, r),
         Open(journal) \subseteq {pending}, ok => Open(journal) # {}
  PROVE  Slot!Free \/ UNCHANGED SlotView
<1>. DEFINE e == Settled(pending, r, equity + r)
<1>1. r \in Int /\ equity + r \in Int /\ pending \in Nat \cup {None}
  BY ReturnsTyped DEF ControlOK
<1>2. e \in Events /\ e.type = "settled" /\ e.amount = r /\ Log(ok, e)
  BY <1>1, EventsTyped DEF Settled, Event, Settles
<1>3. SelectedIds' = SelectedIds
  BY <1>1, <1>2, OtherSelected
<1>4. CASE ok
  <2>1. Open(journal') = Open(journal) \ {pending}
    BY <1>1, <1>2, <1>4, SettledOpen
  <2>. HIDE DEF e
  <2>2. journal' = Append(journal, e) /\ journal \in Seq(Events)
    BY <1>2, <1>4 DEF Log, ControlOK
  <2>3. Settlements(journal) \in Seq(Entries) /\ Entry(e) \in Entries /\ Entry(e).amount = r
    BY <1>2, <2>2, SettlementsTyped DEF Entry, Entries, Events
  <2>4. TotalNow' = TotalNow + r
    <3>1. Settlements(journal') = Append(Settlements(journal), Entry(e))
      BY <1>2, <2>2, SettlementsAppend DEF OneMore
    <3>2. Total(Append(Settlements(journal), Entry(e))) = Total(Settlements(journal)) + r
      BY <2>3, SettledTotalAppend
    <3>. QED BY <3>1, <3>2 DEF TotalNow
  <2>. QED BY <1>3, <1>4, <2>1, <2>4, SlotFrees
<1>5. CASE ~ok
  <2>1. journal' = journal
    BY <1>2, <1>5 DEF Log
  <2>. QED BY <2>1 DEF SlotView, SlotNow, TotalNow, SelectedIds
<1>. QED BY <1>4, <1>5

\* A step that appends nothing leaves the slot alone.
LEMMA SlotStutters ==
  ASSUME journal' = journal
  PROVE  UNCHANGED SlotView
BY DEF SlotView, SlotNow, TotalNow, SelectedIds

\* _try_settle frees the slot or leaves it alone.
LEMMA SlotSettles ==
  ASSUME ControlOK, OrderInv, SlotInv, pc \in Running, NEW next, TrySettle(next)
  PROVE  Slot!Free \/ UNCHANGED SlotView
<1>1. CASE journal' = journal
  BY <1>1, SlotStutters
<1>2. CASE journal' # journal
  <2>1. PICK ok \in AppendOutcomes :
          /\ Settleable(pending)
          /\ GivesUp(ok) \/ \E r \in Returns \cup {0} : Settles(ok, r)
    BY <1>2, TrySettleCases
  <2>2. pending # None /\ pending \in Nat \cup {None}
    BY <2>1 DEF Settleable, ControlOK
  <2>3. Open(journal) = {pending}
    BY <2>2 DEF SlotInv, SlotMatches, Running
  <2>4. CASE GivesUp(ok)
    BY <2>2, <2>3, <2>4, UnresolvedFrees DEF GivesUp
  <2>5. CASE \E r \in Returns \cup {0} : Settles(ok, r)
    BY <2>3, <2>5, SettledFrees
  <2>. QED BY <2>1, <2>4, <2>5
<1>. QED BY <1>1, <1>2

\* A selection takes the free slot, for a decision after all before it.
LEMMA SelectTakes ==
  ASSUME ControlOK, OrderInv, SlotInv, Select
  PROVE  Slot!Take \/ UNCHANGED SlotView
<1>1. PICK ok \in AppendOutcomes : Log(ok, Selected(decision))
  BY DEF Select
<1>2. pc = "select" /\ decision \in Nat /\ decision # None
  BY WindowAssumption DEF Select, ControlOK
<1>3. /\ Selected(decision) \in Events /\ Selected(decision).id = decision
      /\ Selected(decision).type = "selected"
  BY <1>2, EventsTyped, 0 \in Int DEF Selected, Event
<1>4. CASE ok
  <2>1. Open(journal) = {} /\ SlotNow = None
    BY <1>2, SlotIs DEF SlotInv, SlotMatches
  <2>2. Open(journal') = {decision}
    BY <1>1, <1>3, <1>4, <2>1, LogOpen DEF OpenAfter
  <2>3. SlotNow' = decision
    BY <2>2, SlotIsNext
  <2>4. SelectedIds' = SelectedIds \cup {decision}
    BY <1>1, <1>3, <1>4, LogSelected
  <2>5. TotalNow' = TotalNow
    BY <1>1, <1>3, QuietLog, TotalQuiet
  <2>6. \A id \in SelectedIds : id < decision
    BY <1>2 DEF OrderInv
  <2>. QED BY <1>2, <2>1, <2>3, <2>4, <2>5, <2>6 DEF Slot!Take, SlotNow, TotalNow
<1>5. CASE ~ok
  BY <1>1, <1>5, SlotStutters DEF Log
<1>. QED BY <1>4, <1>5

\* Every step of Shadow Mode is a step of the slot, or none.
LEMMA SlotSimulation ==
  ASSUME ControlOK, OrderInv, SlotInv, [Next]_vars
  PROVE  Slot!Next \/ UNCHANGED SlotView
<1>. USE DEF Slot!Next
<1>1. CASE journal' = journal
  BY <1>1, SlotStutters
<1>2. CASE Restore
  <2>1. CASE journal' # journal
    <3>1. PICK id \in Open(journal), ok \in AppendOutcomes :
            id \in Nat \cup {None} /\ Log(ok, Unresolved(id))
      BY <1>2, <2>1, RestoreLogs
    <3>2. Open(journal) \subseteq {id}
      BY <3>1 DEF SlotInv, OneOpenCandidate
    <3>. QED BY <3>1, <3>2, UnresolvedFrees
  <2>. QED BY <1>1, <2>1
<1>3. ASSUME NEW kind \in Kinds, Sink(kind) PROVE Slot!Next \/ UNCHANGED SlotView
  <2>1. CASE journal' # journal
    <3>1. PICK ok \in AppendOutcomes : Log(ok, Unresolved(pending))
      BY <1>3, <2>1 DEF Sink
    <3>2. Open(journal) \subseteq {pending} /\ pending \in Nat \cup {None}
      BY <1>3 DEF Sink, SlotInv, SlotMatches, ControlOK
    <3>. QED BY <3>1, <3>2, UnresolvedFrees
  <2>. QED BY <1>1, <2>1
<1>4. CASE Poll
  BY <1>4, SlotSettles DEF Poll, Running
<1>5. CASE Resettle
  BY <1>5, SlotSettles DEF Resettle, Running
<1>6. CASE Select
  BY <1>6, SelectTakes
<1>7. CASE Finally
  <2>1. PICK ok \in AppendOutcomes : Log(ok, Unresolved(pending)) \/ Log(ok, Stopped)
    BY <1>7 DEF Finally
  <2>2. Open(journal) \subseteq {pending} /\ pending \in Nat \cup {None}
    BY <1>7 DEF Finally, SlotInv, SlotMatches, ControlOK
  <2>3. CASE Log(ok, Unresolved(pending))
    BY <2>2, <2>3, UnresolvedFrees
  <2>4. CASE Log(ok, Stopped)
    <3>1. /\ Stopped \in Events /\ Stopped.type = "stopped"
      BY EventsTyped, 0 \in Int, 0 \in Nat DEF Stopped, Event
    <3>2. TotalNow' = TotalNow
      BY <2>4, <3>1, QuietLog, TotalQuiet
    <3>3. SelectedIds' = SelectedIds
      BY <2>4, <3>1, LogSelected
    <3>4. Open(journal') = Open(journal)
      BY <2>4, <3>1, LogOpen DEF OpenAfter, Resolving
    <3>5. SlotNow' = SlotNow
      BY <3>4 DEF SlotNow
    <3>. QED BY <3>2, <3>3, <3>5 DEF SlotView
  <2>. QED BY <2>1, <2>3, <2>4
<1>8. CASE Cycle
  BY <1>1, <1>8 DEF Cycle
<1>9. CASE \/ Tick \/ Crash \/ Start \/ Dial \/ Disconnect \/ Stop \/ TasksReturn
           \/ UNCHANGED vars
  BY <1>1, <1>9 DEF Tick, Crash, Start, Dial, Disconnect, Stop, TasksReturn, vars
<1>. QED BY <1>2, <1>3, <1>4, <1>5, <1>6, <1>7, <1>8, <1>9 DEF Next

-----------------------------------------------------------------------------
(* The theorems. *)

\* What every reachable state of Shadow Mode satisfies.
ShadowInv ==
  /\ ControlOK /\ MoneyTyped /\ SlotInv /\ OrderInv
  /\ SessionInv /\ SettledInOneSession
  /\ MoneyInv /\ RollingGuardHonoured

\* Nothing is open, selected or settled in the journal of a first start.
LEMMA EmptyJournal ==
  ASSUME Init
  PROVE  /\ journal = <<>> /\ Len(journal) = 0 /\ DOMAIN journal = {} /\ journal \in Seq(Events)
         /\ Settlements(journal) = <<>> /\ Total(Settlements(journal)) = 0
         /\ SelectedIds = {} /\ Open(journal) = {}
<1>1. journal = <<>> /\ Len(journal) = 0 /\ DOMAIN journal = {} /\ journal \in Seq(Events)
  BY EmptySeq DEF Init
<1>. QED BY <1>1, SettlementsEmpty, SumEmpty DEF SelectedIds, Open

\* The invariant holds at first.
LEMMA ShadowInit == Init => ShadowInv
<1>. SUFFICES ASSUME Init PROVE ShadowInv
  OBVIOUS
<1>1. /\ now = 0 /\ pc = "down" /\ runs = 0 /\ dialled = 0 /\ last = -1 /\ equity = 0
      /\ realized = <<>> /\ rolling = 0 /\ rows = {} /\ stop = FALSE
      /\ wire = None /\ session = None /\ latest = None /\ decision = None /\ pending = None
  BY DEF Init, WindowInit
<1>2. ControlOK
  <2>1. stop \in BOOLEAN
    BY <1>1, Zenon
  <2>. QED BY <1>1, <2>1, EmptyJournal DEF ControlOK
<1>3. MoneyTyped
  BY <1>1, EmptySeq DEF MoneyTyped
<1>4. SlotInv /\ OrderInv
  BY <1>1, EmptyJournal DEF SlotInv, SlotMatches, OneOpenCandidate, OrderInv
<1>5. SessionInv /\ SettledInOneSession /\ RollingGuardHonoured
  BY <1>1, EmptyJournal DEF SessionInv, SettledInOneSession, RollingGuardHonoured, Running
<1>6. MoneyInv
  <2>1. InTime(<<>>, 0)
    BY EmptySeq DEF InTime, Ordered
  <2>2. ASSUME NEW since \in Int PROVE Within(<<>>, since) = 0 /\ Returned(<<>>, since) = 0
    <3>1. DOMAIN <<>> = {}
      OBVIOUS
    <3>2. Part(<<>>, since) = <<>> /\ PartReturned(<<>>, since) = <<>>
      BY <3>1 DEF Part, PartReturned
    <3>. QED BY <3>2, SumEmpty DEF Within, Returned, PartReturned
  <2>. QED BY <1>1, <2>1, <2>2, EmptyJournal, SumEmpty DEF MoneyInv, Running
<1>. QED BY <1>2, <1>3, <1>4, <1>5, <1>6 DEF ShadowInv

\* Every step keeps the invariant.
LEMMA ShadowStep == ShadowInv /\ [Next]_vars => ShadowInv'
BY ControlStep, MoneyTypedStep, SlotStep, OrderStep, SessionStep, MoneyStep DEF ShadowInv

\* The parts of the invariant hold together in every reachable state.
THEOREM ShadowInvariant == Spec => []ShadowInv
BY ShadowInit, ShadowStep, PTL DEF Spec

\* Every variable of Shadow Mode, the deque of returns included, keeps to the
\* values the code gives it.
THEOREM ShadowTyped == Spec => []TypeOK
<1>1. ShadowInv => TypeOK
  BY DEF ShadowInv, MoneyTyped, TypeOK, Entries
<1>. QED BY <1>1, ShadowInvariant, PTL

\* A candidate is never settled from rows received after a reconnect (sink,
\* LiveMarketWindow.accept): failed appends, crashes and reconnects included.
THEOREM SettledInOneSessionHolds == Spec => []SettledInOneSession
<1>1. ShadowInv => SettledInOneSession
  BY DEF ShadowInv
<1>. QED BY <1>1, ShadowInvariant, PTL

\* A candidate is selected only while the settlements of the day before its
\* decision, other processes' included, sum above the limit (_restore_journal_state,
\* evaluate).
THEOREM RollingGuardHolds == Spec => []RollingGuardHonoured
<1>1. ShadowInv => RollingGuardHonoured
  BY DEF ShadowInv
<1>. QED BY <1>1, ShadowInvariant, PTL

\* The equity a journal reports is the sum of the returns settled in it, as long
\* as every append succeeds (append_event, _settle_pending).
THEOREM EquityReplayableHolds ==
  ASSUME Faults = FALSE
  PROVE  Spec => []EquityReplayable
<1>1. Init => EquityInv
  <2>. SUFFICES ASSUME Init PROVE EquityInv
    OBVIOUS
  <2>1. RestoredEquity(journal) = 0
    BY EmptyJournal DEF RestoredEquity
  <2>2. pc = "down"
    BY DEF Init
  <2>. QED BY <2>1, <2>2, EmptyJournal DEF EquityInv, EquityReplayable
<1>2. ControlOK /\ EquityInv /\ [Next]_vars => EquityInv'
  BY EquityStep
<1>3. EquityInv => EquityReplayable
  BY DEF EquityInv
<1>. QED BY <1>1, <1>2, <1>3, ControlTyped, PTL DEF Spec

\* The journal implements the one slot of SHADOW_MODE.md: what the runtime,
\* its crashes, restarts and failing appends do to it are steps of ShadowSlot.
THEOREM SlotImplemented == Spec => SlotSpec
<1>1. Init => Slot!Init
  <2>. SUFFICES ASSUME Init PROVE Slot!Init
    OBVIOUS
  <2>. QED BY EmptyJournal DEF Slot!Init
<1>2. ShadowInv /\ [Next]_vars => [Slot!Next]_SlotView
  BY SlotSimulation DEF ShadowInv
<1>3. [Slot!Next]_SlotView
        => [Slot!Next]_<<IF Open(journal) = {} THEN None
                         ELSE CHOOSE id \in Open(journal) : TRUE,
                         SelectedIds, Total(Settlements(journal))>>
  BY DEF SlotView, SlotNow, TotalNow
<1>. QED BY <1>1, <1>2, <1>3, ShadowInvariant, PTL DEF Spec, SlotSpec, Slot!Spec
=============================================================================
