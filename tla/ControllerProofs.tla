-------------------------- MODULE ControllerProofs --------------------------
(***************************************************************************)
(* Proofs about Controller: for any cards, actions, period and capacity of *)
(* the channels, the loop sleeps past no card and every spinner has a run  *)
(* or a completion that ends it.                                           *)
(***************************************************************************)
EXTENDS Controller, WellFoundedInduction, TLAPS

AllControls == UNION {Controls(a) : a \in Actions}

Run == [id : Nat, control : AllControls, sent : BOOLEAN, leased : BOOLEAN]

\* TypeOK, with the channels and the runs, and the card the loop itself is sending.
Typed ==
  /\ TypeOK
  /\ done \in Seq(Cards) /\ results \in Seq(AllControls)
  /\ runs \subseteq Run /\ busy \subseteq AllControls /\ clicks \in Nat
  /\ pc = "publish" => sending \in Cards
  /\ wake \in BOOLEAN /\ closed \in BOOLEAN

\* The lease of an action is held exactly once, by a run that has not ended or whose
\* completion is not sent yet.
Leases ==
  /\ \A r \in runs : (~r.sent => r.leased) /\ (r.leased => r.control[1] \in leases)
  /\ \A r, s \in runs : (r.leased /\ s.leased /\ r.control[1] = s.control[1]) => r = s

\* A control that shows a spinner has a completion or a run.
Awaited ==
  \A control \in busy :
    closed \/ control \in ToSet(results) \/ \E run \in runs : run.control = control

IInv == Typed /\ Leases /\ Awaited /\ NoOversleep

LEMMA ControlOf ==
  ASSUME NEW control \in AllControls
  PROVE  control[1] \in Actions /\ control \in Controls(control[1])
  BY DEF AllControls, Controls

\* What the completion channels hold after a message is sent or received.
LEMMA Sent ==
  ASSUME NEW S, NEW q \in Seq(S), NEW e \in S
  PROVE  Append(q, e) \in Seq(S) /\ Len(Append(q, e)) = Len(q) + 1
         /\ ToSet(Append(q, e)) = ToSet(q) \cup {e}
<1>1. Append(q, e) \in Seq(S) /\ Len(Append(q, e)) = Len(q) + 1
  OBVIOUS
<1>2. ToSet(Append(q, e)) \subseteq ToSet(q) \cup {e}
  BY DEF ToSet
<1>3. ToSet(q) \subseteq ToSet(Append(q, e))
  <2> SUFFICES ASSUME NEW i \in 1..Len(q) PROVE \E j \in 1..Len(q) + 1 : Append(q, e)[j] = q[i]
    BY <1>1 DEF ToSet
  <2>1. i \in 1..Len(q) + 1 /\ Append(q, e)[i] = q[i]
    OBVIOUS
  <2> QED BY <2>1
<1>4. e \in ToSet(Append(q, e))
  <2>1. Append(q, e)[Len(q) + 1] = e /\ Len(q) + 1 \in 1..Len(q) + 1
    OBVIOUS
  <2> QED BY <1>1, <2>1 DEF ToSet
<1> QED BY <1>1, <1>2, <1>3, <1>4

LEMMA Received ==
  ASSUME NEW S, NEW q \in Seq(S), q # <<>>
  PROVE  /\ Tail(q) \in Seq(S) /\ Len(Tail(q)) = Len(q) - 1 /\ Head(q) \in S
         /\ ToSet(q) \subseteq ToSet(Tail(q)) \cup {Head(q)}
<1>1. Tail(q) \in Seq(S) /\ Len(Tail(q)) = Len(q) - 1 /\ Head(q) \in S
  OBVIOUS
<1>2. ASSUME NEW i \in 1..Len(q), i # 1 PROVE q[i] \in ToSet(Tail(q))
  <2>1. i - 1 \in 1..Len(q) - 1 /\ Tail(q)[i - 1] = q[i]
    BY <1>2
  <2>2. i - 1 \in DOMAIN Tail(q)
    BY <1>1, <2>1
  <2> QED BY <2>1, <2>2 DEF ToSet
<1>3. q[1] = Head(q)
  OBVIOUS
<1>4. ASSUME NEW e \in ToSet(q) PROVE e \in ToSet(Tail(q)) \cup {Head(q)}
  <2>1. PICK i \in 1..Len(q) : q[i] = e
    BY DEF ToSet
  <2> QED BY <1>2, <1>3, <2>1
<1> QED BY <1>1, <1>4

\* The timer is set to the soonest of the waiting cards, or to the longest sleep.
LEMMA Soonest ==
  ASSUME ControllerAssumption, Typed
  PROVE  LET times == {due[c] : c \in Waiting} \cup {Period}
         IN  /\ SoonestOf(times) \in 0..Period
             /\ \A t \in times : SoonestOf(times) <= t
<1> DEFINE times == {due[c] : c \in Waiting} \cup {Period}
<1>1. times \subseteq 0..Period /\ times # {}
  BY DEF ControllerAssumption, Typed, TypeOK, Waiting, Running
<1>2. \E t \in times : \A u \in times : <<u, t>> \notin {p \in Nat \X Nat : p[1] < p[2]}
  <2>1. IsWellFoundedOn({p \in Nat \X Nat : p[1] < p[2]}, Nat)
    BY NatLessThanWellFounded DEF OpToRel
  <2>2. times \subseteq Nat
    BY <1>1
  <2> HIDE DEF times
  <2> QED BY <1>1, <2>1, <2>2, WFMin
<1>3. PICK t \in times : \A u \in times : ~(u < t)
  <2>1. PICK t \in times : \A u \in times : <<u, t>> \notin {p \in Nat \X Nat : p[1] < p[2]}
    BY <1>2
  <2>2. \A u \in times : u \in Nat
    BY <1>1 DEF ControllerAssumption
  <2> HIDE DEF times
  <2>3. \A u \in times : ~(u < t)
    BY <2>1, <2>2
  <2> QED BY <2>3
<1>4. \A u \in times : t <= u
  <2>1. times \subseteq Nat
    BY <1>1
  <2> HIDE DEF times
  <2> QED BY <1>3, <2>1
<1>5. SoonestOf(times) \in times /\ \A u \in times : SoonestOf(times) <= u
  <2> HIDE DEF times
  <2> QED BY <1>4 DEF SoonestOf
<1> QED BY <1>1, <1>5

-----------------------------------------------------------------------------
(* The scheduler as the loop sees it. *)

LEMMA RequestsTyped ==
  ASSUME ControllerAssumption, Typed, NEW cards \in SUBSET Cards, Requests(cards)
  PROVE  due' \in [Cards -> Running..Period] /\ again' \subseteq Cards
<1>1. 0 \in Running..Period
  BY DEF ControllerAssumption, Running
<1> QED BY <1>1 DEF Requests, Typed, TypeOK

LEMMA DoneTyped ==
  ASSUME ControllerAssumption, Typed, NEW c \in Cards, MarkedDone(c)
  PROVE  due' \in [Cards -> Running..Period] /\ again' \subseteq Cards
<1>1. 0 \in Running..Period /\ Period \in Running..Period
  BY DEF ControllerAssumption, Running
<1> QED BY <1>1 DEF MarkedDone, Typed, TypeOK

-----------------------------------------------------------------------------
(* Steps that leave the actions alone. *)

Collecting ==
  \/ Tick \/ LoopStep \/ Receive \/ Close
  \/ \E c \in Cards : Request(c) \/ Collected(c)

LEMMA CollectingActions ==
  ASSUME IInv, Collecting
  PROVE  Leases' /\ Awaited' /\ UNCHANGED actions
<1>1. UNCHANGED actions /\ (closed => closed')
  <2>1. CASE Tick \/ Receive \/ Close
    BY <2>1 DEF Tick, Receive, Close
  <2>4. CASE \E c \in Cards : Request(c) \/ Collected(c)
    BY <2>4 DEF Request, Collected
  <2>2. CASE Sleep \/ Awake \/ AwakeClosed \/ Publish \/ Turn
    BY <2>2 DEF Sleep, Awake, AwakeClosed, Publish, Turn
  <2>3. CASE \E c \in Cards : StartCard(c) \/ SkipCard(c)
    BY <2>3 DEF StartCard, SkipCard
  <2> QED BY <2>1, <2>2, <2>3, <2>4 DEF Collecting, LoopStep
<1> QED BY <1>1 DEF IInv, Leases, Awaited, actions

LEMMA CollectingTyped ==
  ASSUME ControllerAssumption, IInv, Collecting
  PROVE  Typed' /\ NoOversleep'
<1> USE DEF ControllerAssumption
<1>1. Typed /\ NoOversleep
  BY DEF IInv
<1>2. results' = results /\ runs' = runs /\ busy' = busy /\ clicks' = clicks /\ leases' = leases
  BY CollectingActions DEF actions
<1> USE DEF Typed, TypeOK
<1>3. CASE Tick
  <2>1. /\ due' = [c \in Cards |-> IF due[c] > 0 THEN due[c] - 1 ELSE due[c]]
        /\ timer' = IF timer > 0 THEN timer - 1 ELSE 0
        /\ UNCHANGED <<collected, again, pc, wake, ready, sending, done, closed>>
    BY <1>3 DEF Tick
  <2>2. due' \in [Cards -> Running..Period] /\ timer' \in 0..Period
    BY <1>1, <2>1 DEF Running
  <2>3. \A c \in Cards : due'[c] # Running =>
           due[c] # Running /\ (timer <= due[c] => timer' <= due'[c])
    BY <1>1, <2>1 DEF Running
  <2>4. NoOversleep'
    BY <1>1, <2>1, <2>3 DEF NoOversleep, Waiting
  <2> QED BY <1>1, <1>2, <2>1, <2>2, <2>4
<1>4. ASSUME NEW c \in Cards, Request(c) PROVE Typed' /\ NoOversleep'
  <2>1. /\ Requests({c}) /\ wake' = TRUE
        /\ UNCHANGED <<collected, pc, timer, ready, sending, done, closed>>
    BY <1>4 DEF Request, loop
  <2>2. due' \in [Cards -> Running..Period] /\ again' \subseteq Cards
    BY <1>1, <2>1, RequestsTyped
  <2> QED BY <1>1, <1>2, <2>1, <2>2 DEF NoOversleep
<1>5. CASE Sleep
  <2>1. UNCHANGED <<due, collected, again, wake, ready, sending, done, closed>> /\ pc = "top"
    BY <1>5 DEF Sleep
  <2>2. CASE closed
    <3>1. pc' = "ended" /\ timer' = timer
      BY <1>5, <2>2 DEF Sleep
    <3> QED BY <1>1, <1>2, <2>1, <3>1 DEF NoOversleep
  <2>3. CASE ~closed
    <3>1. pc' = "asleep" /\ timer' = SoonestOf({due[c] : c \in Waiting} \cup {Period})
      BY <1>5, <2>3 DEF Sleep
    <3>2. timer' \in 0..Period /\ \A c \in Waiting : timer' <= due[c]
      BY <1>1, <3>1, Soonest
    <3>3. NoOversleep'
      BY <2>1, <3>2 DEF NoOversleep, Waiting
    <3> QED BY <1>1, <1>2, <2>1, <3>1, <3>2, <3>3
  <2> QED BY <2>2, <2>3
<1>6. CASE Awake
  <2>1. /\ pc' = "ready" /\ ready' \subseteq Cards /\ wake' \in {wake, FALSE}
        /\ due' = [c \in Cards |-> IF due[c] = 0 THEN Running ELSE due[c]]
        /\ UNCHANGED <<collected, again, timer, sending, done, closed>>
    BY <1>6 DEF Awake, Waiting
  <2>2. due' \in [Cards -> Running..Period]
    BY <1>1, <2>1 DEF Running
  <2> QED BY <1>1, <1>2, <2>1, <2>2 DEF NoOversleep
<1>7. CASE AwakeClosed \/ Turn
  <2>1. /\ pc' \in {"ended", "top"} /\ ready' \in {ready, {}}
        /\ UNCHANGED <<due, collected, again, timer, wake, sending, done, closed>>
    BY <1>7 DEF AwakeClosed, Turn
  <2> QED BY <1>1, <1>2, <2>1 DEF NoOversleep
<1>8. CASE Publish
  <2>1. /\ pc = "publish" /\ (Len(done) < Capacity \/ closed)
        /\ done' = IF closed THEN done ELSE Append(done, sending)
        /\ pc' = "ready" /\ UNCHANGED <<due, collected, again, timer, wake, ready, closed>>
    BY <1>8 DEF Publish
  <2>2. done' \in Seq(Cards) /\ Len(done') <= Capacity
    BY <1>1, <1>8, <2>1, Sent DEF Publish
  <2> QED BY <1>1, <1>2, <2>1, <2>2 DEF NoOversleep
<1>9. ASSUME NEW c \in Cards, StartCard(c) PROVE Typed' /\ NoOversleep'
  <2>1. /\ ready' = ready \ {c} /\ collected' \in {collected, collected \cup {c}}
        /\ \/ pc' = "ready" /\ sending' = sending
           \/ pc' = "publish" /\ sending' = c
        /\ UNCHANGED <<due, again, timer, wake, done, closed>>
    BY <1>9 DEF StartCard
  <2> QED BY <1>1, <1>2, <2>1 DEF NoOversleep
<1>10. ASSUME NEW c \in Cards, SkipCard(c) PROVE Typed' /\ NoOversleep'
  <2>1. /\ pc = "ready" /\ ready' = ready \ {c} /\ MarkedDone(c)
        /\ UNCHANGED <<collected, pc, timer, wake, sending, done, closed>>
    BY <1>10 DEF SkipCard
  <2>2. due' \in [Cards -> Running..Period] /\ again' \subseteq Cards
    BY <1>1, <2>1, DoneTyped
  <2> QED BY <1>1, <1>2, <2>1, <2>2 DEF NoOversleep
<1>11. ASSUME NEW c \in Cards, Collected(c) PROVE Typed' /\ NoOversleep'
  <2>1. /\ Len(done) < Capacity \/ closed
        /\ done' = IF closed THEN done ELSE Append(done, c)
        /\ collected' = collected \ {c}
        /\ UNCHANGED <<due, again, pc, timer, ready, sending, wake, closed>>
    BY <1>11 DEF Collected, loop
  <2>2. done' \in Seq(Cards) /\ Len(done') <= Capacity
    BY <1>1, <2>1, Sent
  <2> QED BY <1>1, <1>2, <2>1, <2>2 DEF NoOversleep, Waiting
<1>12. CASE Receive
  <2>1. /\ done # <<>> /\ done' = Tail(done) /\ MarkedDone(Head(done)) /\ wake' = TRUE
        /\ UNCHANGED <<collected, pc, timer, ready, sending, closed>>
    BY <1>12 DEF Receive, loop
  <2>2. done' \in Seq(Cards) /\ Len(done') <= Capacity /\ Head(done) \in Cards
    BY <1>1, <2>1, Received
  <2>3. due' \in [Cards -> Running..Period] /\ again' \subseteq Cards
    BY <1>1, <2>1, <2>2, DoneTyped
  <2> QED BY <1>1, <1>2, <2>1, <2>2, <2>3 DEF NoOversleep
<1>13. CASE Close
  <2>1. /\ closed' = TRUE
        /\ UNCHANGED <<due, collected, again, pc, timer, ready, sending, wake, done>>
    BY <1>13 DEF Close, loop
  <2> QED BY <1>1, <1>2, <2>1 DEF NoOversleep
<1> QED BY <1>3, <1>4, <1>5, <1>6, <1>7, <1>8, <1>9, <1>10, <1>11, <1>12, <1>13
        DEF Collecting, LoopStep

-----------------------------------------------------------------------------
(* The actions. *)

LEMMA InvokeKeeps ==
  ASSUME IInv, NEW a \in Actions, NEW control \in Controls(a),
         Invoke(a, control) \/ InvokeEmpty(a, control)
  PROVE  IInv'
<1>1. /\ control \in AllControls /\ control[1] = a
      /\ clicks \in Nat /\ clicks' = clicks + 1
      /\ UNCHANGED <<due, collected, again, pc, timer, ready, sending, wake, done, closed, results>>
  <2>1. control \in AllControls
    BY DEF AllControls
  <2>2. control[1] = a
    BY DEF Controls
  <2>3. clicks \in Nat
    BY DEF IInv, Typed
  <2> QED BY <2>1, <2>2, <2>3 DEF Invoke, InvokeEmpty, loop
<1>2. CASE UNCHANGED <<runs, leases, busy>>
  BY <1>1, <1>2 DEF IInv, Typed, TypeOK, Leases, Awaited, NoOversleep, Waiting
<1>3. ASSUME NEW run \in Run, run.control = control, runs' = runs \cup {run},
             busy' = busy \cup {control}, ~run.sent => run.leased, a \notin leases,
             leases' = IF run.leased THEN leases \cup {a} ELSE leases
      PROVE  IInv'
  <2>1. Typed' /\ NoOversleep'
    BY <1>1, <1>3 DEF IInv, Typed, TypeOK, NoOversleep, Waiting
  <2>2. \A r \in runs : r.leased => r.control[1] # a
    BY <1>3 DEF IInv, Leases
  <2>3. Leases'
    BY <1>1, <1>3, <2>2 DEF IInv, Leases
  <2>4. Awaited'
    BY <1>1, <1>3 DEF IInv, Awaited
  <2> QED BY <2>1, <2>3, <2>4 DEF IInv
<1>4. CASE InvokeEmpty(a, control)
  <2> DEFINE run == NewRun(control, TRUE)
  <2>1. run \in Run /\ run.control = control /\ run.sent /\ ~run.leased
    BY <1>1 DEF NewRun, Run
  <2>2. runs' = runs \cup {run} /\ busy' = busy \cup {control} /\ a \notin leases /\ leases' = leases
    BY <1>4 DEF InvokeEmpty
  <2> HIDE DEF run
  <2> QED BY <1>3, <2>1, <2>2
<1>5. CASE Invoke(a, control) /\ a \notin leases
  <2> DEFINE run == NewRun(control, FALSE)
  <2>1. run \in Run /\ run.control = control /\ ~run.sent /\ run.leased
    BY <1>1 DEF NewRun, Run
  <2>2. runs' = runs \cup {run} /\ busy' = busy \cup {control} /\ leases' = leases \cup {a}
    BY <1>5 DEF Invoke
  <2> HIDE DEF run
  <2> QED BY <1>3, <1>5, <2>1, <2>2
<1>6. CASE Invoke(a, control) /\ a \in leases
  BY <1>2, <1>6 DEF Invoke
<1> QED BY <1>4, <1>5, <1>6

\* A run that ends gives its lease back, and nobody else had it.
LEMMA ReleasedLeases ==
  ASSUME IInv, NEW run \in runs, runs' = runs \ {run}, leases' = Released(run)
  PROVE  Leases'
<1>1. \A r \in runs \ {run} : r.leased => r.control[1] \in Released(run)
  BY DEF IInv, Leases, Released
<1> QED BY <1>1 DEF IInv, Leases

LEMMA CommandEndsKeeps ==
  ASSUME IInv, NEW run \in runs, CommandEnds(run)
  PROVE  IInv'
<1>1. run \in Run /\ ~run.sent
      /\ UNCHANGED <<due, collected, again, pc, timer, ready, sending, wake, done, closed, results,
                     busy, clicks>>
  BY DEF CommandEnds, loop, IInv, Typed
<1>2. CASE closed
  <2>1. runs' = runs \ {run} /\ leases' = Released(run)
    BY <1>2 DEF CommandEnds
  <2>2. Leases' /\ leases' \subseteq Actions
    BY <2>1, ReleasedLeases DEF Released, IInv, Typed, TypeOK
  <2>3. Awaited'
    BY <1>1, <1>2 DEF Awaited
  <2> QED BY <1>1, <2>1, <2>2, <2>3 DEF IInv, Typed, TypeOK, NoOversleep, Waiting
<1>3. CASE ~closed
  <2> DEFINE ended == [run EXCEPT !.sent = TRUE]
  <2>1. /\ ended \in Run /\ ended.control = run.control /\ ended.leased = run.leased /\ ended.sent
    BY <1>1 DEF Run
  <2>2. runs' = (runs \ {run}) \cup {ended} /\ leases' = leases
    BY <1>3 DEF CommandEnds
  <2> HIDE DEF ended
  <2>3. Leases'
    BY <2>1, <2>2 DEF IInv, Leases
  <2>4. Awaited'
    BY <1>1, <2>1, <2>2 DEF IInv, Awaited
  <2>5. Typed' /\ NoOversleep'
    BY <1>1, <2>1, <2>2 DEF IInv, Typed, TypeOK, NoOversleep, Waiting
  <2> QED BY <2>3, <2>4, <2>5 DEF IInv
<1> QED BY <1>2, <1>3

LEMMA PublishActionKeeps ==
  ASSUME ControllerAssumption, IInv, NEW run \in runs, PublishAction(run)
  PROVE  IInv'
<1>1. /\ run \in Run /\ run.control \in AllControls /\ results \in Seq(AllControls)
      /\ runs' = runs \ {run} /\ leases' = Released(run)
      /\ Len(results) < Capacity \/ closed
      /\ results' = IF closed THEN results ELSE Append(results, run.control)
      /\ UNCHANGED <<due, collected, again, pc, timer, ready, sending, wake, done, closed, busy,
                     clicks>>
  BY DEF PublishAction, loop, IInv, Typed, Run
<1>2. Leases' /\ leases' \subseteq Actions
  BY <1>1, ReleasedLeases DEF Released, IInv, Typed, TypeOK
<1>3. results' \in Seq(AllControls) /\ Len(results') <= Capacity
  <2>1. CASE closed
    BY <1>1, <2>1 DEF IInv, Typed, TypeOK
  <2>2. CASE ~closed
    <3>1. results' = Append(results, run.control) /\ Len(results) < Capacity
      BY <1>1, <2>2
    <3>2. results' \in Seq(AllControls) /\ Len(results') = Len(results) + 1
      BY <1>1, <3>1, Sent
    <3> QED BY <1>1, <3>1, <3>2 DEF ControllerAssumption
  <2> QED BY <2>1, <2>2
<1>4. Awaited'
  <2>1. closed \/ ToSet(results') = ToSet(results) \cup {run.control}
    BY <1>1, Sent
  <2> QED BY <1>1, <2>1 DEF IInv, Awaited
<1> QED BY <1>1, <1>2, <1>3, <1>4 DEF IInv, Typed, TypeOK, NoOversleep, Waiting

LEMMA ReceiveActionKeeps ==
  ASSUME ControllerAssumption, IInv, ReceiveAction
  PROVE  IInv'
<1> DEFINE control == Head(results)
           a == control[1]
<1>1. /\ results \in Seq(AllControls) /\ results # <<>> /\ results' = Tail(results)
      /\ Requests(Linked[a]) /\ wake' = TRUE /\ busy' = busy \ {control, <<a, Nobody>>}
      /\ UNCHANGED <<collected, pc, timer, ready, sending, done, closed, runs, leases, clicks>>
  BY DEF ReceiveAction, loop, IInv, Typed
<1>2. /\ results' \in Seq(AllControls) /\ Len(results') = Len(results) - 1
      /\ control \in AllControls /\ ToSet(results) \subseteq ToSet(results') \cup {control}
  BY <1>1, Received
<1>3. Linked[a] \in SUBSET Cards
  BY <1>2, ControlOf DEF ControllerAssumption
<1>4. due' \in [Cards -> Running..Period] /\ again' \subseteq Cards
  BY <1>1, <1>3, RequestsTyped DEF IInv
<1>5. Len(results') <= Capacity
  BY <1>1, <1>2 DEF IInv, Typed, TypeOK, ControllerAssumption
<1> HIDE DEF control
<1>6. Awaited'
  BY <1>1, <1>2 DEF IInv, Awaited
<1>7. Leases'
  BY <1>1 DEF IInv, Leases
<1> QED BY <1>1, <1>2, <1>4, <1>5, <1>6, <1>7 DEF IInv, Typed, TypeOK, NoOversleep

-----------------------------------------------------------------------------
LEMMA InitIInv == ASSUME ControllerAssumption, Init PROVE IInv
<1>1. due \in [Cards -> Running..Period] /\ timer \in 0..Period
  BY DEF ControllerAssumption, Init, Running
<1>2. /\ Len(done) <= Capacity /\ Len(results) <= Capacity
      /\ done \in Seq(Cards) /\ results \in Seq(AllControls)
  BY DEF ControllerAssumption, Init
<1>3. Typed
  BY <1>1, <1>2 DEF Init, Typed, TypeOK
<1> QED BY <1>3 DEF Init, IInv, Leases, Awaited, NoOversleep

LEMMA NextIInv == ASSUME ControllerAssumption, IInv, [Next]_vars PROVE IInv'
<1>1. CASE Collecting
  BY <1>1, CollectingActions, CollectingTyped DEF IInv
<1>2. ASSUME NEW a \in Actions, NEW control \in Controls(a),
             Invoke(a, control) \/ InvokeEmpty(a, control)
      PROVE  IInv'
  BY <1>2, InvokeKeeps
<1>3. ASSUME NEW run \in runs, CommandEnds(run) \/ PublishAction(run) PROVE IInv'
  BY <1>3, CommandEndsKeeps, PublishActionKeeps
<1>4. CASE ReceiveAction
  BY <1>4, ReceiveActionKeeps
<1>5. CASE UNCHANGED vars
  BY <1>5 DEF vars, IInv, Typed, TypeOK, Leases, Awaited, NoOversleep, Waiting
<1> QED BY <1>1, <1>2, <1>3, <1>4, <1>5 DEF Next, Collecting

\* The polling loop never sleeps past a card that is due, and a control that shows a
\* spinner has one run or one completion that clears it (start_scheduler_polling,
\* acquire_action, start_action_receiver), for any cards, actions, period and capacity.
THEOREM LoopAlwaysWakes == ASSUME ControllerAssumption PROVE Spec => []LoopWakes
<1>1. Init => IInv
  BY InitIInv
<1>2. IInv /\ [Next]_vars => IInv'
  BY NextIInv
<1>3. IInv => LoopWakes
  BY DEF IInv, Typed, Leases, Awaited, LoopWakes, SpinnersEnd
<1> QED BY <1>1, <1>2, <1>3, PTL DEF Spec
=============================================================================
