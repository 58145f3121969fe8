---------------------------- MODULE LoopsProofs -----------------------------
(***************************************************************************)
(* What the loops keep.  The collections: no card shows a value from before*)
(* an event, or of another configuration, and no event goes unanswered,    *)
(* for any number of cards, workers, sources and signals and any bounds.   *)
(* Then the invariants of the other loops among the behaviours of MCLoops. *)
(***************************************************************************)
EXTENDS MCLoops, FiniteSetTheorems, TLAPS

Types ==
    /\ config \in [Cards -> Sources] /\ epoch \in Nat /\ budget \in Budgets /\ seed \in Nat
    /\ Registered \subseteq Cards /\ tasks \in [Registered -> Tasks]
    /\ refresh \in [Keys -> [revision : Nat, dependents : SUBSET Cards]]
    /\ Flying \subseteq Workers /\ worker \in [Flying -> InFlight]
    /\ DOMAIN shown \subseteq Registered /\ shown \in [DOMAIN shown -> Shown]

\* Every worker sends one completion, and is in flight until that is received.
Completions ==
    /\ channel \in Seq(Flying)
    /\ \A i \in 1 .. Len(channel) : worker[channel[i]].at = "sent"
    /\ \A i, j \in 1 .. Len(channel) : channel[i] = channel[j] => i = j

\* The coordinator knows exactly the cards that are registered.
Bindings ==
    \A key \in Keys :
        refresh[key].dependents = {c \in Registered : key \in BoundTo(tasks[c].source)}

\* A token holds only as long as a card keeps its source in use, by which every event
\* of the source reaches it.
Tokens ==
    \A w \in Flying :
        worker[w].valid => /\ worker[w].fresh
                           /\ \E c \in Registered : tasks[c].source = worker[w].source

IInv == Types /\ Completions /\ Bindings /\ Tokens /\ CurrentShown

-----------------------------------------------------------------------------
(* What requests, completions and invalidations leave alone.               *)

Keeps(t, u) == u \in Tasks /\ u.source = t.source /\ u.epoch = t.epoch

\* The card that was told of an edge.
Told(t, reason) == [t EXCEPT !.requested = @ \cup ({reason} \cap Keys)]

Agreeing(t, u) ==
    /\ u.generation = t.generation /\ u.running = t.running /\ u.runOnce = t.runOnce
    /\ u.pendingEvent = t.pendingEvent /\ u.reason = t.reason /\ u.source = t.source
    /\ u.epoch = t.epoch

LEMMA ToldKeeps ==
    ASSUME NEW t \in Tasks, NEW reason
    PROVE  Told(t, reason) \in Tasks /\ Agreeing(t, Told(t, reason))
<1> DEFINE keys == t.requested \cup ({reason} \cap Keys)
<1>1. keys \in SUBSET Keys
  BY DEF Tasks
<1>2. Told(t, reason) = [t EXCEPT !.requested = keys]
  BY DEF Told
<1> HIDE DEF keys
<1> QED
  BY <1>1, <1>2 DEF Tasks, Agreeing

LEMMA RequestedKeeps ==
    ASSUME NEW t \in Tasks, NEW reason \in Reason!Reasons
    PROVE  Keeps(t, Requested(t, reason))
<1>1. Reason!PreferReason(t.reason, reason) \in Reason!Reasons \cup {NoReason}
  BY DEF Tasks, Reason!PreferReason
<1>2. t.generation + 1 \in Nat /\ reason \in Reason!Reasons \cup {NoReason}
  BY DEF Tasks
<1> DEFINE u == Told(t, reason)
<1>3. u \in Tasks /\ Agreeing(t, u)
  BY ToldKeeps
<1> HIDE DEF u
<1>4. CASE t.running
  BY <1>1, <1>3, <1>4 DEF Tasks, Agreeing, Requested, Told, Keeps, u
<1>5. CASE ~t.running /\ t.runOnce
  BY <1>1, <1>3, <1>5 DEF Tasks, Agreeing, Requested, Told, Keeps, u
<1>6. CASE ~t.running /\ ~t.runOnce
  BY <1>2, <1>3, <1>6 DEF Tasks, Agreeing, Requested, Told, Keeps, u
<1> QED
  BY <1>4, <1>5, <1>6

LEMMA DoneKeeps ==
    ASSUME NEW t \in Tasks
    PROVE  Keeps(t, Done(t))
<1>1. t.generation + 1 \in Nat /\ NoReason \in Reason!Reasons \cup {NoReason}
  BY DEF Tasks
<1>2. CASE t.pendingEvent \/ t.requested # {}
  BY <1>1, <1>2 DEF Tasks, Done, Keeps
<1>3. CASE ~(t.pendingEvent \/ t.requested # {})
  BY <1>1, <1>3 DEF Tasks, Done, Keeps
<1> QED
  BY <1>2, <1>3

\* A step that only retires tokens, or ends the freshness of retired ones.
Weakens(ws) ==
    /\ DOMAIN ws = Flying
    /\ \A w \in Flying :
           /\ ws[w] \in InFlight
           /\ ws[w].at = worker[w].at /\ ws[w].source = worker[w].source
           /\ ws[w].valid => worker[w].valid /\ (worker[w].fresh => ws[w].fresh)

LEMMA RetiredWeakens ==
    ASSUME Types, NEW sources
    PROVE  /\ Weakens(Retired(sources))
           /\ \A w \in Flying : Retired(sources)[w].valid => worker[w].source \notin sources
BY DEF Types, Retired, Weakens, InFlight

LEMMA DisownedWeakens ==
    ASSUME Types, NEW ws, Weakens(ws), NEW cards
    PROVE  /\ Weakens(Disowned(ws, cards))
           /\ \A w \in Flying : Disowned(ws, cards)[w].valid = ws[w].valid
<1> SUFFICES ASSUME NEW w \in Flying
             PROVE  LET r == Disowned(ws, cards)[w]
                    IN  r \in InFlight /\ r.at = ws[w].at /\ r.source = ws[w].source
                        /\ r.valid = ws[w].valid /\ r.fresh = ws[w].fresh
  BY DEF Weakens, Disowned
<1>1. ws[w] \in InFlight /\ w \in DOMAIN ws
  BY DEF Weakens
<1>2. (ws[w].own /\ ws[w].card \notin cards) \in BOOLEAN
  OBVIOUS
<1> QED
  BY <1>1, <1>2 DEF Disowned, InFlight

-----------------------------------------------------------------------------
(* The parts of the invariant, over a step.                                *)

LEMMA CompletionsKept ==
    ASSUME Completions, UNCHANGED channel, Flying \subseteq DOMAIN worker',
           \A w \in Flying : worker[w].at = "sent" => worker'[w].at = "sent"
    PROVE  Completions'
<1>1. channel \in Seq(DOMAIN worker')
  BY DEF Completions, Flying
<1>2. \A i \in 1 .. Len(channel) : channel[i] \in Flying
  BY DEF Completions
<1> QED
  BY <1>1, <1>2 DEF Completions, Flying

\* Cards keep their sources and their epochs.
LEMMA CardsKept ==
    ASSUME IInv, tasks' \in [Registered -> Tasks],
           \A c \in Registered : Keeps(tasks[c], tasks'[c]),
           \A key \in Keys : refresh'[key].dependents = refresh[key].dependents,
           UNCHANGED shown
    PROVE  Bindings' /\ CurrentShown' /\ (Registered' = Registered)
<1>1. Registered' = Registered
  BY DEF Registered
<1>2. Bindings'
  BY <1>1 DEF IInv, Bindings, Keeps
<1>3. CurrentShown'
  BY DEF IInv, Types, CurrentShown, Keeps
<1> QED
  BY <1>1, <1>2, <1>3

LEMMA TokensKept ==
    ASSUME IInv, Weakens(worker'), Registered' = Registered,
           \A c \in Registered : tasks'[c].source = tasks[c].source
    PROVE  Tokens'
<1> SUFFICES ASSUME NEW w \in Flying, worker'[w].valid
             PROVE  /\ worker'[w].fresh
                    /\ \E c \in Registered : tasks'[c].source = worker'[w].source
  BY DEF Tokens, Flying, Weakens
<1> QED
  BY DEF IInv, Tokens, Weakens

\* A token that survives the pruning has a card of its source.
LEMMA TokensPruned ==
    ASSUME IInv, Weakens(worker'),
           \A w \in Flying : worker'[w].valid => worker[w].source \notin Unused(tasks')
    PROVE  Tokens'
<1> SUFFICES ASSUME NEW w \in Flying, worker'[w].valid
             PROVE  /\ worker'[w].fresh
                    /\ \E c \in DOMAIN tasks' : tasks'[c].source = worker'[w].source
  BY DEF Tokens, Flying, Weakens, Registered
<1>1. worker[w].source \in Sources
  BY DEF IInv, Types, InFlight
<1> QED
  BY <1>1 DEF IInv, Tokens, Weakens, Unused

LEMMA WorkerTypes ==
    ASSUME Types, Weakens(worker'), worker' = [w \in DOMAIN worker' |-> worker'[w]]
    PROVE  Flying' \subseteq Workers /\ worker' \in [Flying' -> InFlight]
BY DEF Types, Weakens, Flying

-----------------------------------------------------------------------------
LEMMA InitIInv ==
    ASSUME Init
    PROVE  IInv
BY DEF Init, Nothing, Unbound, IInv, Types, Completions, Bindings, Tokens, CurrentShown,
       Registered, Flying

\* A step that leaves the workers and the coordinator alone and keeps the cards.
LEMMA CardStep ==
    ASSUME IInv, UNCHANGED <<config, epoch, budget, seed, refresh, worker, channel, shown>>,
           tasks' \in [Registered -> Tasks],
           \A c \in Registered : Keeps(tasks[c], tasks'[c])
    PROVE  IInv'
<1>1. Bindings' /\ CurrentShown' /\ Registered' = Registered
  BY CardsKept
<1>2. Types'
  BY <1>1 DEF IInv, Types, Flying
<1>3. Completions'
  BY DEF IInv, Completions, Flying
<1>4. Tokens'
  BY <1>1 DEF IInv, Tokens, Keeps, Flying
<1> QED
  BY <1>1, <1>2, <1>3, <1>4 DEF IInv

LEMMA RequestStep ==
    ASSUME IInv, NEW c \in Cards, Request(c)
    PROVE  IInv'
<1>1. "manual" \in Reason!Reasons
  BY DEF Reason!Reasons
<1>2. \A d \in Registered : tasks[d] \in Tasks
  BY DEF IInv, Types
<1>3. \A d \in Registered : Keeps(tasks[d], tasks'[d])
  BY <1>1, <1>2, RequestedKeeps DEF Request, Keeps
<1>4. tasks' \in [Registered -> Tasks]
  BY <1>3 DEF Request, Keeps, IInv, Types
<1> QED
  BY <1>3, <1>4, CardStep DEF Request

LEMMA PermitStep ==
    ASSUME IInv, NEW cards \in SUBSET Registered, Permit(cards)
    PROVE  IInv'
<1>1. \A d \in Registered : tasks[d] \in Tasks
  BY DEF IInv, Types
<1>2. \A d \in Registered : Keeps(tasks[d], tasks'[d])
  BY <1>1 DEF Permit, Keeps, Tasks
<1>3. tasks' \in [Registered -> Tasks]
  BY <1>2 DEF Permit, Keeps
<1> QED
  BY <1>2, <1>3, CardStep DEF Permit

\* A step that weakens tokens and keeps the cards.
LEMMA TokenStep ==
    ASSUME IInv, UNCHANGED <<config, epoch, seed, channel, shown>>, budget' \in Budgets,
           tasks' \in [Registered -> Tasks],
           \A c \in Registered : Keeps(tasks[c], tasks'[c]),
           refresh' \in [Keys -> [revision : Nat, dependents : SUBSET Cards]],
           \A key \in Keys : refresh'[key].dependents = refresh[key].dependents,
           Weakens(worker'), worker' = [w \in Flying |-> worker'[w]]
    PROVE  IInv'
<1>1. Bindings' /\ CurrentShown' /\ Registered' = Registered
  BY CardsKept
<1>2. Types'
  BY <1>1, WorkerTypes DEF IInv, Types, Flying, Weakens
<1>3. Completions'
  BY CompletionsKept DEF IInv, Weakens
<1>4. Tokens'
  BY <1>1, TokensKept DEF Keeps
<1> QED
  BY <1>1, <1>2, <1>3, <1>4 DEF IInv

LEMMA SourceEventStep ==
    ASSUME IInv, NEW key \in Published, SourceEvent(key)
    PROVE  IInv'
<1>1. key \in Keys /\ key \in Reason!Reasons
  BY CollectionAssumption DEF Keys, Reason!Reasons
<1>2. \A d \in Registered : tasks[d] \in Tasks
  BY DEF IInv, Types
<1>3. \A d \in Registered : Keeps(tasks[d], tasks'[d])
  BY <1>1, <1>2, RequestedKeeps DEF SourceEvent, Keeps
<1>4. tasks' \in [Registered -> Tasks]
  BY <1>3 DEF SourceEvent, Keeps
<1>5. /\ refresh' \in [Keys -> [revision : Nat, dependents : SUBSET Cards]]
      /\ \A k \in Keys : refresh'[k].dependents = refresh[k].dependents
  BY <1>1 DEF SourceEvent, IInv, Types
<1> DEFINE hit == InvalidatedBy(key)
\* Whoever would see the event too late holds a token of a source that is invalidated.
<1>6. ASSUME NEW w \in Flying, worker[w].valid, worker[w].source \notin hit
      PROVE  key \notin BoundTo(worker[w].source)
  <2>1. PICK c \in Registered : tasks[c].source = worker[w].source
    BY <1>6 DEF IInv, Tokens
  <2>2. key \in BoundTo(worker[w].source) => c \in refresh[key].dependents
    BY <1>1, <2>1 DEF IInv, Bindings
  <2> QED
    BY <1>6, <2>1, <2>2 DEF InvalidatedBy
<1>7. Weakens(worker')
  <2>1. Weakens(Retired(hit)) /\ \A w \in Flying : Retired(hit)[w].valid => worker[w].source \notin hit
    BY RetiredWeakens DEF IInv
  <2> SUFFICES ASSUME NEW w \in Flying
               PROVE  /\ worker'[w] \in InFlight
                      /\ worker'[w].at = worker[w].at /\ worker'[w].source = worker[w].source
                      /\ worker'[w].valid => worker[w].valid /\ (worker[w].fresh => worker'[w].fresh)
    BY DEF Weakens, SourceEvent
  <2> DEFINE r == Retired(hit)[w]
             heard == key \notin BoundTo(worker[w].source)
  <2>2. /\ r \in InFlight /\ r.at = worker[w].at /\ r.source = worker[w].source
        /\ r.valid => worker[w].valid /\ worker[w].source \notin hit
        /\ r.fresh = worker[w].fresh
    BY <2>1 DEF Weakens, Retired, InFlight, IInv, Types
  <2>3. worker'[w] = [r EXCEPT !.fresh = r.fresh /\ heard]
    BY DEF SourceEvent
  <2>4. (r.fresh /\ heard) \in BOOLEAN
    OBVIOUS
  <2> HIDE DEF r, heard, hit
  <2>5. /\ worker'[w] \in InFlight
        /\ worker'[w].at = r.at /\ worker'[w].source = r.source /\ worker'[w].valid = r.valid
        /\ worker'[w].fresh = (r.fresh /\ heard)
    BY <2>2, <2>3, <2>4 DEF InFlight
  <2>6. r.valid => heard
    BY <1>6, <2>2 DEF heard
  <2> QED
    BY <2>2, <2>5, <2>6
<1>8. worker' = [w \in Flying |-> worker'[w]] /\ UNCHANGED <<config, epoch, seed, channel, shown>>
      /\ budget' \in Budgets
  BY DEF SourceEvent, IInv, Types
<1> QED
  BY <1>3, <1>4, <1>5, <1>7, <1>8, TokenStep

LEMMA ChangeBudgetStep ==
    ASSUME IInv, NEW bytes \in Budgets, ChangeBudget(bytes)
    PROVE  IInv'
<1>1. "wallclock" \in Reason!Reasons
  BY DEF Reason!Reasons
<1>2. \A d \in Registered : tasks[d] \in Tasks
  BY DEF IInv, Types
<1>3. \A d \in Registered : Keeps(tasks[d], tasks'[d])
  BY <1>1, <1>2, RequestedKeeps DEF ChangeBudget, Keeps
<1>4. tasks' \in [Registered -> Tasks]
  BY <1>3 DEF ChangeBudget, Keeps
<1>5. Weakens(worker') /\ worker' = [w \in Flying |-> worker'[w]]
  <2>1. Types
    BY DEF IInv
  <2>2. \A sources : Weakens(Retired(sources))
    BY <2>1, RetiredWeakens
  <2> QED
    BY <2>2 DEF ChangeBudget, Retired
<1> QED
  BY <1>3, <1>4, <1>5, TokenStep DEF ChangeBudget, IInv, Types

LEMMA NewTaskType ==
    ASSUME NEW generation \in Nat, NEW source \in Sources, NEW atEpoch \in Nat
    PROVE  /\ NewTask(generation, source, atEpoch) \in Tasks
           /\ NewTask(generation, source, atEpoch).source = source
           /\ NewTask(generation, source, atEpoch).epoch = atEpoch
BY DEF NewTask, Tasks

LEMMA RebuildStep ==
    ASSUME IInv, NEW next \in [Cards -> Sources], NEW cards \in SUBSET Cards,
           IsFiniteSet(cards), Rebuild(next, cards)
    PROVE  IInv'
<1>1. \A c \in cards : seed + Cardinality({d \in cards : d <= c}) \in Nat
  <2> TAKE c \in cards
  <2>1. IsFiniteSet({d \in cards : d <= c})
    BY FS_Subset
  <2> QED
    BY <2>1, FS_CardinalityType DEF IInv, Types
<1>2. \A c \in cards : /\ tasks'[c] \in Tasks
                       /\ tasks'[c].source = next[c] /\ tasks'[c].epoch = epoch + 1
  <2> TAKE c \in cards
  <2>1. epoch + 1 \in Nat /\ next[c] \in Sources
    BY DEF IInv, Types
  <2>2. tasks'[c] = NewTask(seed + Cardinality({d \in cards : d <= c}), next[c], epoch + 1)
    BY DEF Rebuild, Rebuilt
  <2> QED
    BY <1>1, <2>1, <2>2, NewTaskType
<1>3. DOMAIN tasks' = cards /\ tasks' \in [cards -> Tasks]
  BY <1>2 DEF Rebuild, Rebuilt
<1>4. seed' \in Nat /\ epoch' \in Nat
  BY FS_CardinalityType DEF Rebuild, IInv, Types
<1>5. /\ Weakens(worker') /\ worker' = [w \in Flying |-> worker'[w]]
      /\ \A w \in Flying : worker'[w].valid => worker[w].source \notin Unused(tasks')
  <2> DEFINE changed == {c \in Cards : next[c] # config[c]}
             gone == {config[c] : c \in changed} \cup {next[c] : c \in changed} \cup Unused(tasks')
  <2>1. Types
    BY DEF IInv
  <2>2. /\ Weakens(Retired(gone))
        /\ \A w \in Flying : Retired(gone)[w].valid => worker[w].source \notin gone
    BY <2>1, RetiredWeakens
  <2>3. worker' = Disowned(Retired(gone), Cards)
    BY DEF Rebuild
  <2> HIDE DEF changed
  <2>4. Unused(tasks') \subseteq gone
    OBVIOUS
  <2> HIDE DEF gone
  <2>5. /\ Weakens(worker')
        /\ \A w \in Flying : worker'[w].valid = Retired(gone)[w].valid
    BY <2>1, <2>2, <2>3, DisownedWeakens
  <2>6. worker' = [w \in Flying |-> worker'[w]]
    BY <2>3 DEF Disowned, Retired
  <2> QED
    BY <2>2, <2>4, <2>5, <2>6
<1>6. Types'
  <2>1. refresh' \in [Keys -> [revision : Nat, dependents : SUBSET Cards]]
    BY DEF Rebuild
  <2>2. Flying' \subseteq Workers /\ worker' \in [Flying' -> InFlight]
    BY <1>5, WorkerTypes DEF IInv, Weakens
  <2>3. DOMAIN shown' = {}
    BY DEF Rebuild, Nothing
  <2>4. shown' \in [DOMAIN shown' -> Shown]
    BY <2>3 DEF Rebuild, Nothing
  <2> QED
    BY <1>3, <1>4, <2>1, <2>2, <2>3, <2>4 DEF Rebuild, IInv, Types, Registered
<1>7. Completions'
  BY <1>5, CompletionsKept DEF Rebuild, IInv, Weakens
<1>8. Bindings'
  BY <1>2, <1>3 DEF Rebuild, Bindings, Registered
<1>9. Tokens'
  BY <1>5, TokensPruned
<1>10. CurrentShown'
  BY DEF Rebuild, Nothing, CurrentShown
<1> QED
  BY <1>6, <1>7, <1>8, <1>9, <1>10 DEF IInv

LEMMA SwitchOffStep ==
    ASSUME IInv, NEW c \in Cards, SwitchOff(c)
    PROVE  IInv'
<1>1. /\ DOMAIN tasks' = Registered \ {c}
      /\ \A d \in Registered \ {c} : tasks'[d] = tasks[d]
      /\ DOMAIN shown' = DOMAIN shown \ {c}
      /\ \A d \in DOMAIN shown \ {c} : shown'[d] = shown[d]
      /\ shown' = [d \in DOMAIN shown' |-> shown'[d]]
      /\ tasks' = [d \in DOMAIN tasks' |-> tasks'[d]]
  BY DEF SwitchOff, Except, Restrict, Registered
<1>2. /\ Weakens(worker') /\ worker' = [w \in Flying |-> worker'[w]]
      /\ \A w \in Flying : worker'[w].valid => worker[w].source \notin Unused(tasks')
  <2> DEFINE gone == Unused(tasks')
  <2>1. Types /\ worker' = Disowned(Retired(gone), {c})
    BY DEF IInv, SwitchOff
  <2> HIDE DEF gone
  <2>2. /\ Weakens(Retired(gone))
        /\ \A w \in Flying : Retired(gone)[w].valid => worker[w].source \notin gone
    BY <2>1, RetiredWeakens
  <2>3. /\ Weakens(worker')
        /\ \A w \in Flying : worker'[w].valid = Retired(gone)[w].valid
    BY <2>1, <2>2, DisownedWeakens
  <2>4. worker' = [w \in Flying |-> worker'[w]]
    BY <2>1 DEF Disowned, Retired
  <2> QED
    BY <2>2, <2>3, <2>4 DEF gone
<1>3. \A k \in Keys : /\ refresh'[k] \in [revision : Nat, dependents : SUBSET Cards]
                      /\ refresh'[k].dependents = refresh[k].dependents \ {c}
  <2> TAKE k \in Keys
  <2>1. refresh[k] \in [revision : Nat, dependents : SUBSET Cards]
    BY DEF IInv, Types
  <2>2. refresh'[k] = IF refresh[k].dependents \subseteq {c} THEN Unbound
                      ELSE [refresh[k] EXCEPT !.dependents = refresh[k].dependents \ {c}]
    BY DEF SwitchOff, Unbinding
  <2>3. CASE refresh[k].dependents \subseteq {c}
    BY <2>2, <2>3 DEF Unbound
  <2>4. CASE ~(refresh[k].dependents \subseteq {c})
    BY <2>1, <2>2, <2>4
  <2> QED
    BY <2>3, <2>4
<1>4. Types'
  <2>1. Flying' \subseteq Workers /\ worker' \in [Flying' -> InFlight]
    BY <1>2, WorkerTypes DEF IInv, Weakens
  <2>2. tasks' \in [DOMAIN tasks' -> Tasks] /\ shown' \in [DOMAIN shown' -> Shown]
    BY <1>1 DEF IInv, Types
  <2>3. refresh' \in [Keys -> [revision : Nat, dependents : SUBSET Cards]]
    BY <1>3 DEF SwitchOff, Unbinding
  <2> QED
    BY <1>1, <2>1, <2>2, <2>3 DEF SwitchOff, IInv, Types, Registered
<1>5. Completions'
  BY <1>2, CompletionsKept DEF SwitchOff, IInv, Weakens
<1>6. Bindings'
  BY <1>1, <1>3 DEF IInv, Bindings, Registered
<1>7. Tokens'
  BY <1>2, TokensPruned
<1>8. CurrentShown'
  BY <1>1 DEF IInv, Types, CurrentShown
<1> QED
  BY <1>4, <1>5, <1>6, <1>7, <1>8 DEF IInv

LEMMA SwitchOnStep ==
    ASSUME IInv, NEW c \in Cards, SwitchOn(c)
    PROVE  IInv'
<1>1. /\ DOMAIN tasks' = Registered \cup {c} /\ c \notin Registered
      /\ \A d \in Registered : tasks'[d] = tasks[d]
      /\ tasks'[c] = NewTask(seed + 1, config[c], epoch)
      /\ tasks' = [d \in DOMAIN tasks' |-> tasks'[d]]
  BY DEF SwitchOn, With, Registered
<1>2. tasks'[c] \in Tasks /\ tasks'[c].source = config[c]
  <2>1. seed + 1 \in Nat /\ epoch \in Nat /\ config[c] \in Sources
    BY DEF IInv, Types
  <2> QED
    BY <1>1, <2>1, NewTaskType
<1>3. /\ Weakens(worker') /\ worker' = [w \in Flying |-> worker'[w]]
      /\ \A w \in Flying : worker'[w].valid => worker[w].source \notin Unused(tasks')
  BY RetiredWeakens DEF IInv, SwitchOn, Retired
<1>4. \A k \in Keys : /\ refresh'[k] \in [revision : Nat, dependents : SUBSET Cards]
                      /\ refresh'[k].dependents = IF k \in BoundTo(config[c])
                                                    THEN refresh[k].dependents \cup {c}
                                                    ELSE refresh[k].dependents
  BY DEF SwitchOn, IInv, Types
<1>5. Types'
  <2>1. Flying' \subseteq Workers /\ worker' \in [Flying' -> InFlight]
    BY <1>3, WorkerTypes DEF IInv, Weakens
  <2>2. tasks' \in [DOMAIN tasks' -> Tasks]
    BY <1>1, <1>2 DEF IInv, Types
  <2>3. refresh' \in [Keys -> [revision : Nat, dependents : SUBSET Cards]]
    BY <1>4 DEF SwitchOn
  <2> QED
    BY <1>1, <2>1, <2>2, <2>3 DEF SwitchOn, IInv, Types, Registered
<1>6. Completions'
  BY <1>3, CompletionsKept DEF SwitchOn, IInv, Weakens
<1>7. Bindings'
  <2> SUFFICES ASSUME NEW k \in Keys
               PROVE  refresh'[k].dependents = {d \in DOMAIN tasks' : k \in BoundTo(tasks'[d].source)}
    BY DEF Bindings, Registered
  <2>1. refresh[k].dependents = {d \in Registered : k \in BoundTo(tasks[d].source)}
    BY DEF IInv, Bindings
  <2> QED
    BY <1>1, <1>2, <1>4, <2>1
<1>8. Tokens'
  BY <1>3, TokensPruned
<1>9. CurrentShown'
  BY <1>1 DEF SwitchOn, IInv, Types, CurrentShown
<1> QED
  BY <1>5, <1>6, <1>7, <1>8, <1>9 DEF IInv

LEMMA StartStep ==
    ASSUME IInv, NEW c \in Cards, NEW w \in Workers, Start(c, w)
    PROVE  IInv'
<1> DEFINE begun == worker'[w]
<1>1. /\ c \in Registered /\ w \notin Flying /\ tasks[c] \in Tasks
      /\ DOMAIN worker' = Flying \cup {w}
      /\ \A v \in Flying : worker'[v] = worker[v]
      /\ worker' = [v \in DOMAIN worker' |-> worker'[v]]
  BY DEF Start, With, Flying, IInv, Types
<1>2. /\ begun \in InFlight
      /\ begun.fresh /\ begun.source = tasks[c].source
  <2> DEFINE key == IF tasks[c].reason \in Keys THEN tasks[c].reason ELSE NoReason
             revision == IF key \in Keys THEN refresh[key].revision ELSE 0
  <2>1. key \in Keys \cup {NoReason} /\ revision \in Nat
    BY DEF IInv, Types
  <2>2. begun = [at |-> "collecting", card |-> c, generation |-> tasks[c].generation,
                   epoch |-> tasks[c].epoch, source |-> tasks[c].source, budget |-> budget,
                   key |-> key, revision |-> revision,
                   valid |-> TRUE, fresh |-> TRUE, own |-> TRUE]
    BY DEF Start, With
  <2> HIDE DEF key, revision, begun
  <2>3. /\ tasks[c].generation \in Nat /\ tasks[c].epoch \in Nat /\ tasks[c].source \in Sources
        /\ budget \in Budgets
    BY <1>1 DEF Tasks, IInv, Types
  <2> QED
    BY <2>1, <2>2, <2>3 DEF InFlight
<1> HIDE DEF begun
<1>3. \A d \in Registered : Keeps(tasks[d], tasks'[d])
  BY <1>1 DEF Start, Keeps, IInv, Types, Tasks
<1>4. tasks' \in [Registered -> Tasks]
  BY <1>3 DEF Start, Keeps, IInv, Types
<1>5. Bindings' /\ CurrentShown' /\ Registered' = Registered
  BY <1>3, <1>4, CardsKept DEF Start
<1>6. Types'
  <2>1. Flying' \subseteq Workers /\ worker' \in [Flying' -> InFlight]
    BY <1>1, <1>2 DEF IInv, Types, Flying, begun
  <2> QED
    BY <1>4, <1>5, <2>1 DEF Start, IInv, Types
<1>7. Completions'
  BY <1>1, CompletionsKept DEF Start, IInv
<1>8. Tokens'
  <2> SUFFICES ASSUME NEW v \in Flying \cup {w}, worker'[v].valid
               PROVE  /\ worker'[v].fresh
                      /\ \E d \in Registered : tasks'[d].source = worker'[v].source
    BY <1>1, <1>5 DEF Tokens, Flying
  <2>1. CASE v = w
    BY <1>1, <1>2, <1>3, <2>1 DEF Keeps, begun
  <2>2. CASE v \in Flying
    BY <1>1, <1>3, <2>2 DEF IInv, Tokens, Keeps
  <2> QED
    BY <2>1, <2>2
<1> QED
  BY <1>5, <1>6, <1>7, <1>8 DEF IInv

\* A worker goes one stage further.
LEMMA StageStep ==
    ASSUME IInv, NEW w \in Flying, NEW stage \in {"sending", "sent"},
           worker' = [worker EXCEPT ![w].at = stage], worker[w].at # "sent", Completions',
           UNCHANGED <<config, epoch, budget, seed, tasks, refresh, shown>>
    PROVE  IInv'
<1>1. /\ DOMAIN worker' = Flying /\ worker' \in [Flying -> InFlight]
      /\ \A v \in Flying : /\ worker'[v].valid = worker[v].valid
                           /\ worker'[v].fresh = worker[v].fresh
                           /\ worker'[v].source = worker[v].source
  BY DEF IInv, Types, InFlight, Flying
<1>2. Types'
  BY <1>1 DEF IInv, Types, Flying, Registered
<1>3. Bindings' /\ CurrentShown'
  BY DEF IInv, Bindings, CurrentShown, Registered
<1>4. Tokens'
  BY <1>1 DEF IInv, Tokens, Flying, Registered
<1> QED
  BY <1>2, <1>3, <1>4 DEF IInv

LEMMA PublishStep ==
    ASSUME IInv, NEW w \in Workers, Publish(w)
    PROVE  IInv'
<1>1. /\ w \in Flying /\ worker[w].at = "collecting" /\ UNCHANGED channel
      /\ worker' = [worker EXCEPT ![w].at = "sending"]
      /\ UNCHANGED <<config, epoch, budget, seed, tasks, refresh, shown>>
  BY DEF Publish, At
<1>2. Completions'
  BY <1>1, CompletionsKept DEF IInv, Flying
<1> QED
  BY <1>1, <1>2, StageStep

LEMMA SendStep ==
    ASSUME IInv, NEW w \in Workers, Send(w)
    PROVE  IInv'
<1>1. /\ w \in Flying /\ worker[w].at = "sending" /\ channel' = Append(channel, w)
      /\ worker' = [worker EXCEPT ![w].at = "sent"]
      /\ UNCHANGED <<config, epoch, budget, seed, tasks, refresh, shown>>
  BY DEF Send, At
<1>2. Completions'
  <2>1. /\ channel \in Seq(Flying) /\ DOMAIN worker' = Flying
        /\ \A i \in 1 .. Len(channel) : channel[i] \in Flying /\ worker[channel[i]].at = "sent"
        /\ \A i, j \in 1 .. Len(channel) : channel[i] = channel[j] => i = j
    BY <1>1 DEF IInv, Completions, Flying
  <2>2. /\ channel' \in Seq(Flying) /\ Len(channel') = Len(channel) + 1
        /\ \A i \in 1 .. Len(channel) : channel'[i] = channel[i]
        /\ channel'[Len(channel) + 1] = w
    BY <1>1, <2>1
  <2>3. \A i \in 1 .. Len(channel) : channel[i] # w
    BY <1>1, <2>1
  <2>4. \A v \in Flying : worker[v].at = "sent" \/ v = w => worker'[v].at = "sent"
    BY <1>1 DEF IInv, Types, InFlight
  <2>5. \A i \in 1 .. Len(channel') : i \in 1 .. Len(channel) \/ i = Len(channel) + 1
    BY <2>1, <2>2
  <2>6. \A i \in 1 .. Len(channel') : worker'[channel'[i]].at = "sent"
    BY <1>1, <2>1, <2>2, <2>4, <2>5
  <2>7. \A i, j \in 1 .. Len(channel') : channel'[i] = channel'[j] => i = j
    BY <2>1, <2>2, <2>3, <2>5
  <2> QED
    BY <2>1, <2>2, <2>6, <2>7 DEF Completions, Flying
<1> QED
  BY <1>1, <1>2, StageStep

LEMMA ReceiveStep ==
    ASSUME IInv, Receive
    PROVE  IInv'
<1> DEFINE w == Head(channel)
           c == worker[w].card
           projects == ~Outdated(w) /\ ~Rejected(w) /\ Latest(w)
<1>1. /\ channel # <<>> /\ channel' = Tail(channel) /\ worker' = Except(worker, w)
      /\ tasks' = Freed(w)
      /\ shown' = IF projects
                    THEN With(shown, c, [source |-> worker[w].source, epoch |-> worker[w].epoch,
                                         fresh |-> worker[w].fresh])
                    ELSE shown
      /\ UNCHANGED <<config, epoch, budget, seed, refresh>>
  BY DEF Receive
<1>2. /\ w \in Flying /\ worker[w] \in InFlight
      /\ \A i \in 1 .. Len(channel) : channel[i] = w => i = 1
  <2>1. /\ channel \in Seq(Flying)
        /\ \A i, j \in 1 .. Len(channel) : channel[i] = channel[j] => i = j
    BY DEF IInv, Completions
  <2>2. w = channel[1] /\ 1 \in 1 .. Len(channel)
    BY <1>1, <2>1
  <2> HIDE DEF w
  <2>3. w \in Flying
    BY <2>1, <2>2
  <2> QED
    BY <2>1, <2>2, <2>3 DEF IInv, Types
<1>3. /\ DOMAIN worker' = Flying \ {w}
      /\ \A v \in Flying \ {w} : worker'[v] = worker[v]
      /\ worker' = [v \in DOMAIN worker' |-> worker'[v]]
  BY <1>1 DEF Except, Restrict, Flying
<1> HIDE DEF w
<1>4. \A d \in Registered : Keeps(tasks[d], tasks'[d])
  <2>1. \A d \in Registered : tasks[d] \in Tasks /\ Keeps(tasks[d], tasks[d])
    BY DEF IInv, Types, Keeps
  <2>2. CASE Outdated(w)
    BY <1>1, <2>1, <2>2 DEF Freed
  <2>3. CASE ~Outdated(w)
    <3>1. c \in Registered /\ tasks' = [tasks EXCEPT ![c] = Done(tasks[c])]
      BY <1>1, <2>3 DEF Freed, Outdated
    <3>2. Keeps(tasks[c], Done(tasks[c]))
      BY <2>1, <3>1, DoneKeeps
    <3> QED
      BY <2>1, <3>1, <3>2 DEF IInv, Types
  <2> QED
    BY <2>2, <2>3
<1>5. tasks' \in [Registered -> Tasks] /\ Registered' = Registered
  BY <1>1, <1>4 DEF Freed, Keeps, IInv, Types, Registered
\* What is shown now is the value of w, which passed the checks, or was shown before.
<1>6. \A d \in DOMAIN shown' :
        /\ d \in Registered /\ shown'[d] \in Shown
        /\ shown'[d].source = tasks[d].source /\ shown'[d].epoch = tasks[d].epoch
        /\ shown'[d].fresh
  <2>1. \A d \in DOMAIN shown :
          /\ d \in Registered /\ shown[d] \in Shown
          /\ shown[d].source = tasks[d].source /\ shown[d].epoch = tasks[d].epoch
          /\ shown[d].fresh
    BY DEF IInv, Types, CurrentShown
  <2>2. CASE ~projects
    BY <1>1, <2>1, <2>2
  <2>3. CASE projects
    <3> DEFINE value == [source |-> worker[w].source, epoch |-> worker[w].epoch,
                         fresh |-> worker[w].fresh]
    <3>1. /\ DOMAIN shown' = DOMAIN shown \cup {c} /\ shown'[c] = value
          /\ \A d \in DOMAIN shown \ {c} : shown'[d] = shown[d]
      BY <1>1, <2>3 DEF With
    <3>2. /\ c \in Registered /\ worker[w].epoch = tasks[c].epoch
          /\ worker[w].source = tasks[c].source /\ worker[w].valid
      BY <2>3 DEF Outdated, Rejected
    <3>3. worker[w].fresh
      BY <1>2, <3>2 DEF IInv, Tokens
    <3>4. value \in Shown /\ value.source = tasks[c].source /\ value.epoch = tasks[c].epoch
          /\ value.fresh
      BY <1>2, <3>2, <3>3 DEF Shown, InFlight
    <3> QED
      BY <2>1, <3>1, <3>2, <3>4
  <2> QED
    BY <2>2, <2>3
<1>7. shown' = [d \in DOMAIN shown' |-> shown'[d]]
  BY <1>1 DEF With, IInv, Types
<1>8. Types'
  <2>1. Flying' \subseteq Workers /\ worker' \in [Flying' -> InFlight]
    BY <1>3 DEF IInv, Types, Flying
  <2>2. DOMAIN shown' \subseteq Registered' /\ shown' \in [DOMAIN shown' -> Shown]
    BY <1>5, <1>6, <1>7
  <2> QED
    BY <1>1, <1>5, <2>1, <2>2 DEF IInv, Types
<1>9. Completions'
  <2>1. /\ channel \in Seq(Flying) /\ channel # <<>>
        /\ \A i \in 1 .. Len(channel) : channel[i] \in Flying /\ worker[channel[i]].at = "sent"
        /\ \A i, j \in 1 .. Len(channel) : channel[i] = channel[j] => i = j
    BY <1>1 DEF IInv, Completions
  <2>2. /\ channel' \in Seq(Flying) /\ Len(channel') = Len(channel) - 1
        /\ \A i \in 1 .. Len(channel') : i + 1 \in 1 .. Len(channel) /\ channel'[i] = channel[i + 1]
    BY <1>1, <2>1
  <2>3. \A i \in 1 .. Len(channel') : channel'[i] \in Flying \ {w}
    BY <1>2, <2>1, <2>2
  <2>4. channel' \in Seq(DOMAIN worker')
    BY <1>3, <2>2, <2>3
  <2>5. \A i \in 1 .. Len(channel') : worker'[channel'[i]].at = "sent"
    BY <1>3, <2>1, <2>2, <2>3
  <2>6. \A i, j \in 1 .. Len(channel') : channel'[i] = channel'[j] => i = j
    BY <2>1, <2>2
  <2> QED
    BY <2>4, <2>5, <2>6 DEF Completions, Flying
<1>10. Bindings'
  BY <1>1, <1>4, <1>5 DEF IInv, Bindings, Keeps
<1>11. Tokens'
  BY <1>3, <1>4, <1>5 DEF IInv, Tokens, Keeps, Flying
<1>12. CurrentShown'
  BY <1>4, <1>5, <1>6 DEF CurrentShown, Keeps
<1> QED
  BY <1>8, <1>9, <1>10, <1>11, <1>12 DEF IInv

-----------------------------------------------------------------------------
LEMMA StutterStep ==
    ASSUME IInv, UNCHANGED vars
    PROVE  IInv'
BY DEF vars, IInv, Types, Completions, Bindings, Tokens, CurrentShown, Registered, Flying

LEMMA NextIInv ==
    ASSUME IInv, [Next]_vars
    PROVE  IInv'
<1>1. ASSUME NEW next \in [Cards -> Sources], NEW cards \in SUBSET Cards, Rebuild(next, cards)
      PROVE  IInv'
  <2>1. IsFiniteSet(cards)
    BY CollectionAssumption, FS_Subset
  <2> QED
    BY <1>1, <2>1, RebuildStep
<1>2. CASE Reload
  BY <1>1, <1>2, ChangeBudgetStep, SwitchOffStep, SwitchOnStep DEF Reload
<1>3. CASE Ask
  BY <1>3, RequestStep, SourceEventStep, PermitStep DEF Ask
<1>4. CASE Work
  BY <1>4, StartStep, PublishStep, SendStep DEF Work
<1>5. CASE Receive
  BY <1>5, ReceiveStep
<1> QED
  BY <1>2, <1>3, <1>4, <1>5, StutterStep DEF Next

\* A card never shows a value from before an event of its source or of a signal about it,
\* nor one of another source or configuration, for every number of cards, workers,
\* sources and signals: the epoch, the generation and the token that the receiver
\* compares are enough, because a token only lasts while a card uses its source
\* (start_metric_receiver, publish_source_event, prune_source_nodes).
THEOREM ShownCurrent == Spec => []CurrentShown
<1>1. Init => IInv
  BY InitIInv
<1>2. IInv /\ [Next]_vars => IInv'
  BY NextIInv
<1>3. IInv => CurrentShown
  BY DEF IInv
<1> QED
  BY <1>1, <1>2, <1>3, PTL DEF Spec

-----------------------------------------------------------------------------
(* EventFollowed: what must hold of the workers besides.                   *)

\* The slot of a card: it is queued or runs, and is asked for by one of its own keys.
OwnReason(t) == t.reason \in Keys => t.reason \in BoundTo(t.source)

Slots ==
    \A c \in Registered : OwnReason(tasks[c]) /\ (tasks[c].running => ~tasks[c].runOnce)

\* What a worker captured, if its card is registered as it was: the source and the
\* configuration of the card, a generation the card has had, and, as long as its token
\* holds, the budget and the revision of the event it was started for.
Matches(x, t) ==
    /\ x.source = t.source /\ x.epoch = t.epoch
    /\ x.generation <= t.generation
    /\ ~t.running => x.generation < t.generation

UpToDate(x) ==
    /\ x.budget = budget
    /\ x.key \in Keys => refresh[x.key].revision <= x.revision

Owned ==
    \A w \in Flying : worker[w].own =>
        /\ worker[w].card \in Registered /\ Matches(worker[w], tasks[worker[w].card])
        /\ worker[w].key \in Keys => worker[w].key \in BoundTo(worker[w].source)
        /\ worker[w].valid => UpToDate(worker[w])

\* One worker to a generation of a card.
Alone ==
    \A v, w \in Flying :
        /\ worker[v].own /\ worker[w].own /\ worker[v].card = worker[w].card
        /\ worker[v].generation = worker[w].generation
        => v = w

\* The worker that holds the slot of its card.
Holds(x) ==
    x.card \in Registered /\ tasks[x.card].running /\ tasks[x.card].generation = x.generation

\* Whoever has seen every event and does not hold its slot any more has nothing left to
\* bring: its card misses nothing, or lost it on the way.
Overtaken ==
    \A w \in Flying :
        worker[w].own /\ worker[w].fresh /\ ~Holds(worker[w])
        => worker[w].card \notin missed \ lost

WorkersInv == Owned /\ Alone /\ Overtaken

FollowInv == Slots /\ missed \subseteq Registered /\ WorkersInv /\ EventFollowed

\* An event not shown yet is followed up.
Followed(c) ==
    \/ tasks[c].runOnce
    \/ tasks[c].running /\ (tasks[c].pendingEvent \/ Underway(c))

-----------------------------------------------------------------------------
\* A worker and a card after a step that starts and ends no collection.
Ages(x, y) ==
    /\ y \in InFlight
    /\ y.card = x.card /\ y.generation = x.generation /\ y.source = x.source
    /\ y.epoch = x.epoch /\ y.budget = x.budget /\ y.key = x.key /\ y.revision = x.revision
    /\ y.own => x.own
    /\ y.valid => x.valid
    /\ y.fresh => x.fresh

Grows(t, u) ==
    /\ u.source = t.source /\ u.epoch = t.epoch
    /\ u.running = t.running
    /\ u.generation >= t.generation
    /\ t.running => u.generation = t.generation
    /\ t.runOnce => u.runOnce
    /\ t.pendingEvent => u.pendingEvent
    /\ (t.running => ~t.runOnce) => (u.running => ~u.runOnce)
    /\ OwnReason(t) => OwnReason(u)

LEMMA RequestedGrows ==
    ASSUME NEW t \in Tasks, NEW reason \in Reason!Reasons,
           reason \in Keys => reason \in BoundTo(t.source)
    PROVE  /\ Grows(t, Requested(t, reason))
           /\ Requested(t, reason).runOnce \/ (t.running /\ Requested(t, reason).pendingEvent)
<1> DEFINE best == Reason!PreferReason(t.reason, reason)
<1>1. best = t.reason \/ best = reason
  BY DEF Reason!PreferReason
<1>2. best \in Reason!Reasons \cup {NoReason} /\ t.generation \in Nat
  BY <1>1 DEF Tasks
<1> HIDE DEF best
<1> DEFINE v == Told(t, reason)
<1>6. v \in Tasks /\ Agreeing(t, v)
  BY ToldKeeps
<1> DEFINE u == Requested(t, reason)
<1> HIDE DEF v
<1>3. CASE t.running
  <2>1. u = [v EXCEPT !.pendingEvent = TRUE, !.reason = best]
    BY <1>3 DEF Requested, Told, v, best
  <2>2. /\ u.source = t.source /\ u.epoch = t.epoch /\ u.generation = t.generation
        /\ u.running = t.running /\ u.runOnce = t.runOnce
        /\ u.pendingEvent = TRUE /\ u.reason = best
    BY <1>6, <2>1 DEF Tasks, Agreeing
  <2> HIDE DEF u
  <2> QED
    BY <1>1, <1>2, <1>3, <2>2 DEF u, Grows, OwnReason
<1>4. CASE ~t.running /\ t.runOnce
  <2>1. u = [v EXCEPT !.reason = best]
    BY <1>4 DEF Requested, Told, v, best
  <2>2. /\ u.source = t.source /\ u.epoch = t.epoch /\ u.generation = t.generation
        /\ u.running = t.running /\ u.runOnce = t.runOnce
        /\ u.pendingEvent = t.pendingEvent /\ u.reason = best
    BY <1>6, <2>1 DEF Tasks, Agreeing
  <2> HIDE DEF u
  <2>3. t.running \in BOOLEAN /\ t.runOnce \in BOOLEAN /\ t.pendingEvent \in BOOLEAN
    BY DEF Tasks
  <2>4. OwnReason(t) => OwnReason(u)
    BY <1>1, <2>2 DEF OwnReason
  <2>5. Grows(t, u)
    BY <1>2, <1>4, <2>2, <2>3, <2>4 DEF Grows
  <2> QED
    BY <1>4, <2>2, <2>5 DEF u
<1>5. CASE ~t.running /\ ~t.runOnce
  <2>1. u = [v EXCEPT !.runOnce = TRUE, !.reason = reason, !.generation = t.generation + 1]
    BY <1>5, <1>6 DEF Requested, Told, v, Agreeing
  <2>2. /\ u.source = t.source /\ u.epoch = t.epoch /\ u.generation = t.generation + 1
        /\ u.running = t.running /\ u.runOnce = TRUE
        /\ u.pendingEvent = t.pendingEvent /\ u.reason = reason
    BY <1>6, <2>1 DEF Tasks, Agreeing
  <2> HIDE DEF u
  <2>3. OwnReason(t) => OwnReason(u)
    BY <2>2 DEF OwnReason
  <2>4. Grows(t, u)
    BY <1>2, <1>5, <2>2, <2>3 DEF Grows
  <2> QED
    BY <2>2, <2>4 DEF u
<1> QED
  BY <1>3, <1>4, <1>5

\* The workers after such a step: those still of their registration are of cards that
\* stay, those with a token are up to date, and no card of a worker that has seen every
\* event misses one it did not miss before.
LEMMA WorkersAge ==
    ASSUME IInv, WorkersInv, IInv', DOMAIN worker' = Flying,
           \A w \in Flying : Ages(worker[w], worker'[w]),
           \A w \in Flying : worker'[w].own =>
               /\ worker[w].card \in Registered'
               /\ Grows(tasks[worker[w].card], tasks'[worker[w].card])
               /\ worker'[w].valid /\ UpToDate(worker[w]) => UpToDate(worker[w])'
               /\ worker'[w].fresh /\ worker[w].card \in missed' \ lost'
                  => worker[w].card \in missed \ lost
    PROVE  WorkersInv'
<1>1. \A w \in Flying : worker'[w].own =>
        /\ worker[w].own /\ Matches(worker[w], tasks[worker[w].card])
        /\ worker[w].card \in Registered /\ tasks[worker[w].card] \in Tasks
        /\ worker[w].card \in Registered' /\ tasks'[worker[w].card] \in Tasks
        /\ Ages(worker[w], worker'[w]) /\ worker[w].generation \in Nat
  BY DEF Ages, WorkersInv, Owned, IInv, Types, InFlight
<1>2. Owned'
  <2> SUFFICES ASSUME NEW w \in Flying, worker'[w].own
               PROVE  /\ Matches(worker'[w], tasks'[worker[w].card])
                      /\ worker'[w].key \in Keys => worker'[w].key \in BoundTo(worker'[w].source)
                      /\ worker'[w].valid => UpToDate(worker[w])'
    BY <1>1 DEF Owned, Flying, Ages
  <2> DEFINE t == tasks[worker[w].card]
             u == tasks'[worker[w].card]
  <2>1. Grows(t, u) /\ Ages(worker[w], worker'[w]) /\ Matches(worker[w], t)
        /\ worker[w].generation \in Nat /\ t.generation \in Nat /\ u.generation \in Nat
    BY <1>1 DEF Tasks
  <2> HIDE DEF t, u
  <2>2. Matches(worker'[w], u)
    BY <2>1 DEF Grows, Ages, Matches
  <2>3. worker'[w].key \in Keys => worker'[w].key \in BoundTo(worker'[w].source)
    BY <1>1, <2>1 DEF Ages, WorkersInv, Owned
  <2>4. worker'[w].valid => UpToDate(worker[w])'
    BY <1>1, <2>1 DEF Ages, WorkersInv, Owned
  <2> QED
    BY <2>2, <2>3, <2>4 DEF u
<1>3. Alone'
  <2> SUFFICES ASSUME NEW v \in Flying, NEW w \in Flying, worker'[v].own, worker'[w].own,
                      worker'[v].card = worker'[w].card,
                      worker'[v].generation = worker'[w].generation
               PROVE  v = w
    BY DEF Alone, Flying
  <2> QED
    BY <1>1 DEF Ages, WorkersInv, Alone
<1>4. Overtaken'
  <2> SUFFICES ASSUME NEW w \in Flying, worker'[w].own, worker'[w].fresh, ~Holds(worker[w])'
               PROVE  worker[w].card \notin missed' \ lost'
    BY <1>1 DEF Overtaken, Flying, Ages
  <2>1. worker[w].fresh
    BY <1>1 DEF Ages
  <2>2. ~Holds(worker[w])
    BY <1>1 DEF Holds, Ages, Grows
  <2> QED
    BY <1>1, <2>1, <2>2 DEF WorkersInv, Overtaken
<1> QED
  BY <1>2, <1>3, <1>4 DEF WorkersInv

LEMMA FollowedKept ==
    ASSUME NEW c, Grows(tasks[c], tasks'[c]), Flying \subseteq DOMAIN worker', Followed(c),
           \A w \in Flying :
               /\ worker[w].card = c
               /\ worker[w].own /\ worker[w].fresh /\ worker[w].valid
               => /\ worker'[w].card = c
                  /\ worker'[w].own /\ worker'[w].fresh /\ worker'[w].valid
    PROVE  Followed(c)'
<1>1. Underway(c) => Underway(c)'
  BY DEF Underway, Flying
<1> QED
  BY <1>1 DEF Followed, Grows

\* The worker after tokens were retired, registrations ended.
LEMMA RetiredAges ==
    ASSUME Types, NEW sources, NEW w \in Flying
    PROVE  LET y == Retired(sources)[w]
           IN  /\ Ages(worker[w], y)
               /\ y.own = worker[w].own /\ y.fresh = worker[w].fresh
               /\ y.valid = (worker[w].valid /\ worker[w].source \notin sources)
<1> DEFINE holds == worker[w].source \notin sources
<1>1. worker[w] \in InFlight /\ (worker[w].valid /\ holds) \in BOOLEAN
  BY DEF Types
<1>2. Retired(sources)[w] = [worker[w] EXCEPT !.valid = worker[w].valid /\ holds]
  BY DEF Retired
<1> HIDE DEF holds
<1>3. /\ Ages(worker[w], Retired(sources)[w])
      /\ Retired(sources)[w].own = worker[w].own
      /\ Retired(sources)[w].fresh = worker[w].fresh
      /\ Retired(sources)[w].valid = (worker[w].valid /\ holds)
  BY <1>1, <1>2 DEF Ages, InFlight
<1> QED
  BY <1>3 DEF holds

LEMMA DisownedAges ==
    ASSUME NEW x, NEW ws, NEW cards, NEW w \in DOMAIN ws, Ages(x, ws[w])
    PROVE  LET y == Disowned(ws, cards)[w]
           IN  /\ Ages(x, y)
               /\ y.fresh = ws[w].fresh /\ y.valid = ws[w].valid
               /\ y.own = (ws[w].own /\ ws[w].card \notin cards)
<1> DEFINE stays == ws[w].card \notin cards
<1>1. ws[w] \in InFlight /\ (ws[w].own /\ stays) \in BOOLEAN
  BY DEF Ages
<1>2. Disowned(ws, cards)[w] = [ws[w] EXCEPT !.own = ws[w].own /\ stays]
  BY DEF Disowned
<1> HIDE DEF stays
<1>3. /\ Ages(x, Disowned(ws, cards)[w])
      /\ Disowned(ws, cards)[w].fresh = ws[w].fresh
      /\ Disowned(ws, cards)[w].valid = ws[w].valid
      /\ Disowned(ws, cards)[w].own = (ws[w].own /\ stays)
  BY <1>1, <1>2 DEF Ages, InFlight
<1> QED
  BY <1>3 DEF stays

\* Slots of cards that only grow.
LEMMA SlotsKept ==
    ASSUME Slots, Registered' = Registered, \A c \in Registered : Grows(tasks[c], tasks'[c])
    PROVE  Slots'
BY DEF Slots, Grows, Registered

LEMMA Unchanged ==
    ASSUME NEW t \in Tasks
    PROVE  Grows(t, t)
BY DEF Tasks, Grows

LEMMA SameWorker ==
    ASSUME Types, NEW w \in Flying
    PROVE  Ages(worker[w], worker[w])
BY DEF Types, Ages

-----------------------------------------------------------------------------
(* The steps that start and end no collection.                             *)

\* A step on the slots of cards alone.
LEMMA SlotFollows ==
    ASSUME IInv, FollowInv, IInv', UNCHANGED <<budget, refresh, worker, missed, lost>>,
           Registered' = Registered, \A c \in Registered : Grows(tasks[c], tasks'[c])
    PROVE  FollowInv'
<1>1. Slots'
  BY SlotsKept DEF FollowInv
<1>2. WorkersInv'
  <2>1. \A w \in Flying : Ages(worker[w], worker'[w])
    BY SameWorker DEF IInv
  <2>2. \A w \in Flying : worker'[w].own => worker[w].card \in Registered
    BY DEF FollowInv, WorkersInv, Owned
  <2>3. \A w \in Flying : UpToDate(worker[w])' = UpToDate(worker[w])
    BY DEF UpToDate
  <2> QED
    BY <2>1, <2>2, <2>3, WorkersAge DEF FollowInv, Flying
<1>3. EventFollowed'
  <2> SUFFICES ASSUME NEW c \in missed \ (lost \cup Scheduled)
               PROVE  Followed(c)'
    BY DEF EventFollowed, Followed
  <2>1. c \in Registered /\ Followed(c)
    BY DEF FollowInv, EventFollowed, Followed
  <2> QED
    BY <2>1, FollowedKept DEF Flying
<1> QED
  BY <1>1, <1>2, <1>3 DEF FollowInv

LEMMA AskedReasons ==
    /\ "manual" \in Reason!Reasons /\ "manual" \notin Keys
    /\ "wallclock" \in Reason!Reasons /\ "wallclock" \notin Keys
    /\ NoReason \notin Keys
BY CollectionAssumption DEF Reason!Reasons, Keys, NoReason, Reason!NoReason

LEMMA RequestFollows ==
    ASSUME IInv, FollowInv, IInv', NEW c \in Cards, Request(c)
    PROVE  FollowInv'
<1>1. \A d \in Registered : Grows(tasks[d], tasks'[d])
  <2> TAKE d \in Registered
  <2>1. tasks[d] \in Tasks /\ tasks'[d] = IF d = c THEN Requested(tasks[d], "manual") ELSE tasks[d]
    BY DEF Request, IInv, Types
  <2> QED
    BY <2>1, AskedReasons, RequestedGrows, Unchanged
<1>2. Registered' = Registered
  BY DEF Request, Registered
<1> QED
  BY <1>1, <1>2, SlotFollows DEF Request

LEMMA PermitFollows ==
    ASSUME IInv, FollowInv, IInv', NEW cards \in SUBSET Registered, Permit(cards)
    PROVE  FollowInv'
<1>1. \A d \in Registered : Grows(tasks[d], tasks'[d])
  <2> TAKE d \in Registered
  <2>1. /\ tasks[d] \in Tasks
        /\ d \in cards => ~tasks[d].running
        /\ tasks'[d] = IF d \in cards
                         THEN [tasks[d] EXCEPT !.generation = tasks[d].generation + 1]
                         ELSE tasks[d]
    BY DEF Permit, IInv, Types
  <2> QED
    BY <2>1, Unchanged DEF Tasks, Grows, OwnReason
<1>2. Registered' = Registered
  BY DEF Permit, Registered
<1> QED
  BY <1>1, <1>2, SlotFollows DEF Permit

\* Whoever would see the event too late holds a token of a source that is invalidated.
LEMMA Reached ==
    ASSUME IInv, NEW key \in Keys, NEW w \in Flying, worker[w].valid,
           worker[w].source \notin InvalidatedBy(key)
    PROVE  key \notin BoundTo(worker[w].source)
<1>1. PICK c \in Registered : tasks[c].source = worker[w].source
  BY DEF IInv, Tokens
<1>2. key \in BoundTo(worker[w].source) => c \in refresh[key].dependents
  BY <1>1 DEF IInv, Bindings
<1> QED
  BY <1>1, <1>2 DEF InvalidatedBy

LEMMA SourceEventFollows ==
    ASSUME IInv, FollowInv, IInv', NEW key \in Published, SourceEvent(key)
    PROVE  FollowInv'
<1> DEFINE hit == InvalidatedBy(key)
           asked == refresh[key].dependents
<1>1. key \in Keys /\ key \in Reason!Reasons
  BY CollectionAssumption DEF Keys, Reason!Reasons
<1>2. asked = {c \in Registered : key \in BoundTo(tasks[c].source)}
  BY <1>1 DEF IInv, Bindings
<1>3. Registered' = Registered /\ UNCHANGED <<budget, lost>>
      /\ missed' = missed \cup asked
  BY <1>2 DEF SourceEvent, Registered
<1>4. \A c \in Registered :
        /\ Grows(tasks[c], tasks'[c])
        /\ c \in asked => Followed(c)'
  <2> TAKE c \in Registered
  <2>1. /\ tasks[c] \in Tasks
        /\ tasks'[c] = IF c \in asked THEN Requested(tasks[c], key) ELSE tasks[c]
    BY DEF SourceEvent, IInv, Types
  <2>2. CASE c \in asked
    <3>1. key \in BoundTo(tasks[c].source)
      BY <1>2, <2>2
    <3>2. /\ Grows(tasks[c], tasks'[c])
          /\ tasks'[c].runOnce \/ (tasks[c].running /\ tasks'[c].pendingEvent)
      BY <1>1, <2>1, <2>2, <3>1, RequestedGrows
    <3> QED
      BY <3>2 DEF Grows, Followed
  <2>3. CASE c \notin asked
    BY <2>1, <2>3, Unchanged
  <2> QED
    BY <2>2, <2>3
<1>5. \A w \in Flying :
        /\ Ages(worker[w], worker'[w]) /\ worker'[w].own = worker[w].own
        /\ worker'[w].fresh = (worker[w].fresh /\ key \notin BoundTo(worker[w].source))
        /\ worker'[w].valid = (worker[w].valid /\ worker[w].source \notin hit)
  <2> TAKE w \in Flying
  <2> DEFINE r == Retired(hit)[w]
             heard == key \notin BoundTo(worker[w].source)
  <2>1. /\ Ages(worker[w], r) /\ r.own = worker[w].own /\ r.fresh = worker[w].fresh
        /\ r.valid = (worker[w].valid /\ worker[w].source \notin hit)
    BY RetiredAges DEF IInv
  <2>2. worker'[w] = [r EXCEPT !.fresh = r.fresh /\ heard]
    BY DEF SourceEvent
  <2>3. (r.fresh /\ heard) \in BOOLEAN
    OBVIOUS
  <2> HIDE DEF r, heard, hit
  <2>4. /\ Ages(worker[w], worker'[w]) /\ worker'[w].own = r.own /\ worker'[w].valid = r.valid
        /\ worker'[w].fresh = (r.fresh /\ heard)
    BY <2>1, <2>2, <2>3 DEF Ages, InFlight
  <2> QED
    BY <2>1, <2>4 DEF heard
<1>6. DOMAIN worker' = Flying
  BY DEF SourceEvent
<1>7. Slots'
  BY <1>3, <1>4, SlotsKept DEF FollowInv
<1>8. WorkersInv'
  <2> SUFFICES ASSUME NEW w \in Flying, worker'[w].own
               PROVE  /\ worker[w].card \in Registered
                      /\ worker'[w].valid /\ UpToDate(worker[w]) => UpToDate(worker[w])'
                      /\ worker'[w].fresh /\ worker[w].card \in missed' \ lost'
                         => worker[w].card \in missed \ lost
    BY <1>3, <1>4, <1>5, <1>6, WorkersAge DEF FollowInv
  <2>1. /\ worker[w].own /\ worker[w].card \in Registered
        /\ worker[w].source = tasks[worker[w].card].source
        /\ worker[w].key \in Keys => worker[w].key \in BoundTo(worker[w].source)
    BY <1>5 DEF FollowInv, WorkersInv, Owned, Matches
  <2>2. worker'[w].valid => key \notin BoundTo(worker[w].source)
    BY <1>1, <1>5, Reached
  <2>3. \A k \in Keys : k # key => refresh'[k].revision = refresh[k].revision
    BY <1>1 DEF SourceEvent, IInv, Types
  <2>4. worker'[w].valid /\ UpToDate(worker[w]) => UpToDate(worker[w])'
    BY <1>3, <1>5, <2>1, <2>2, <2>3 DEF UpToDate, Ages
  <2>5. worker'[w].fresh => worker[w].card \notin asked
    BY <1>2, <1>5, <2>1
  <2> QED
    BY <1>3, <2>1, <2>4, <2>5
<1>9. EventFollowed'
  <2> SUFFICES ASSUME NEW c \in missed' \ (lost \cup Scheduled)
               PROVE  Followed(c)'
    BY <1>3 DEF EventFollowed, Followed
  <2>1. CASE c \in asked
    BY <1>2, <1>4, <2>1
  <2>2. CASE c \notin asked
    <3>1. c \in Registered /\ Followed(c) /\ Grows(tasks[c], tasks'[c])
      BY <1>3, <1>4, <2>2 DEF FollowInv, EventFollowed, Followed
    <3>2. ASSUME NEW w \in Flying, worker[w].card = c, worker[w].own, worker[w].valid
          PROVE  worker[w].source \notin hit /\ key \notin BoundTo(worker[w].source)
      <4>1. worker[w].source = tasks[c].source
        BY <3>2 DEF FollowInv, WorkersInv, Owned, Matches
      <4>2. key \notin BoundTo(tasks[c].source)
        BY <1>2, <2>2, <3>1
      <4>3. tasks[c].source # key
        BY <4>2 DEF BoundTo
      <4>4. \A d \in asked : tasks[d].source # tasks[c].source
        BY <1>2, <4>2
      <4> QED
        BY <4>1, <4>2, <4>3, <4>4 DEF InvalidatedBy
    <3> QED
      BY <1>5, <1>6, <3>1, <3>2, FollowedKept DEF Ages
  <2> QED
    BY <2>1, <2>2
<1>10. missed' \subseteq Registered'
  BY <1>2, <1>3 DEF FollowInv
<1> QED
  BY <1>7, <1>8, <1>9, <1>10 DEF FollowInv

LEMMA ChangeBudgetFollows ==
    ASSUME IInv, FollowInv, IInv', NEW bytes \in Budgets, ChangeBudget(bytes)
    PROVE  FollowInv'
<1> DEFINE used == {tasks[c].source : c \in Registered}
           asked == Registered \ Scheduled
<1>1. /\ Registered' = Registered /\ UNCHANGED <<refresh, missed, lost>>
      /\ worker' = Retired(used)
  BY DEF ChangeBudget, Registered
<1>2. \A c \in Registered :
        /\ Grows(tasks[c], tasks'[c])
        /\ c \in asked => Followed(c)'
  <2> TAKE c \in Registered
  <2>1. /\ tasks[c] \in Tasks
        /\ tasks'[c] = IF c \in asked THEN Requested(tasks[c], "wallclock") ELSE tasks[c]
    BY DEF ChangeBudget, IInv, Types
  <2>2. CASE c \in asked
    <3>1. /\ Grows(tasks[c], tasks'[c])
          /\ tasks'[c].runOnce \/ (tasks[c].running /\ tasks'[c].pendingEvent)
      BY <2>1, <2>2, AskedReasons, RequestedGrows
    <3> QED
      BY <3>1 DEF Grows, Followed
  <2>3. CASE c \notin asked
    BY <2>1, <2>3, Unchanged
  <2> QED
    BY <2>2, <2>3
<1>3. \A w \in Flying : /\ Ages(worker[w], worker'[w]) /\ worker'[w].own = worker[w].own
                         /\ ~worker'[w].valid
  <2> TAKE w \in Flying
  <2>1. /\ Ages(worker[w], worker'[w]) /\ worker'[w].own = worker[w].own
        /\ worker'[w].valid = (worker[w].valid /\ worker[w].source \notin used)
    BY <1>1, RetiredAges DEF IInv
  <2>2. worker[w].valid => worker[w].source \in used
    BY DEF IInv, Tokens
  <2> QED
    BY <2>1, <2>2
<1>4. DOMAIN worker' = Flying
  BY <1>1 DEF Retired
<1>5. Slots'
  BY <1>1, <1>2, SlotsKept DEF FollowInv
<1>6. WorkersInv'
  <2>1. \A w \in Flying : worker'[w].own => worker[w].card \in Registered
    BY <1>3 DEF FollowInv, WorkersInv, Owned
  <2> QED
    BY <1>1, <1>2, <1>3, <1>4, <2>1, WorkersAge DEF FollowInv
<1>7. EventFollowed'
  <2> SUFFICES ASSUME NEW c \in missed \ (lost \cup Scheduled)
               PROVE  Followed(c)'
    BY <1>1 DEF EventFollowed, Followed
  <2>1. c \in asked
    BY DEF FollowInv
  <2> QED
    BY <1>2, <2>1
<1> QED
  BY <1>1, <1>5, <1>6, <1>7 DEF FollowInv

\* Of the cards that are registered anew nobody works yet, and nothing is missed.
LEMMA RebuildFollows ==
    ASSUME IInv, FollowInv, IInv', NEW next \in [Cards -> Sources], NEW cards \in SUBSET Cards,
           Rebuild(next, cards)
    PROVE  FollowInv'
<1> DEFINE changed == {c \in Cards : next[c] # config[c]}
           gone == {config[c] : c \in changed} \cup {next[c] : c \in changed} \cup Unused(tasks')
<1>1. worker' = Disowned(Retired(gone), Cards) /\ missed' = {}
  BY DEF Rebuild
<1> HIDE DEF gone
<1>2. DOMAIN worker' = Flying
  BY <1>1 DEF Disowned, Retired
<1>3. \A w \in Flying : Ages(worker[w], worker'[w]) /\ ~worker'[w].own
  <2> TAKE w \in Flying
  <2> DEFINE ws == Retired(gone)
  <2>1. Ages(worker[w], ws[w]) /\ w \in DOMAIN ws /\ worker' = Disowned(ws, Cards)
    BY <1>1, RetiredAges DEF IInv, Retired
  <2> HIDE DEF ws
  <2>2. /\ Ages(worker[w], worker'[w])
        /\ worker'[w].own = (ws[w].own /\ ws[w].card \notin Cards)
    BY <2>1, DisownedAges
  <2>3. ws[w].card \in Cards
    BY <2>1 DEF Ages, InFlight
  <2> QED
    BY <2>2, <2>3
<1>4. Slots'
  <2> SUFFICES ASSUME NEW c \in cards
               PROVE  OwnReason(tasks'[c]) /\ ~tasks'[c].running
    BY DEF Slots, Registered, Rebuild, Rebuilt
  <2> QED
    BY AskedReasons DEF Rebuild, Rebuilt, NewTask, OwnReason
<1>5. WorkersInv'
  BY <1>2, <1>3, WorkersAge DEF FollowInv
<1>6. EventFollowed'
  BY <1>1 DEF EventFollowed
<1> QED
  BY <1>1, <1>4, <1>5, <1>6 DEF FollowInv

LEMMA SwitchOffFollows ==
    ASSUME IInv, FollowInv, IInv', NEW c \in Cards, SwitchOff(c)
    PROVE  FollowInv'
<1> DEFINE gone == Unused(tasks')
<1>1. /\ worker' = Disowned(Retired(gone), {c}) /\ UNCHANGED budget
      /\ missed' = missed \ {c} /\ lost' = lost \ {c}
      /\ Registered' = Registered \ {c}
      /\ \A d \in Registered \ {c} : tasks'[d] = tasks[d]
  BY DEF SwitchOff, Except, Restrict, Registered
<1>2. \A d \in Registered \ {c} :
        /\ Grows(tasks[d], tasks'[d])
        /\ tasks[d].source \notin gone
  <2> TAKE d \in Registered \ {c}
  <2>1. tasks[d] \in Tasks /\ tasks'[d] = tasks[d] /\ d \in DOMAIN tasks'
    BY <1>1 DEF IInv, Types, Registered
  <2> QED
    BY <2>1, Unchanged DEF Unused
<1> HIDE DEF gone
<1>3. DOMAIN worker' = Flying
  BY <1>1 DEF Disowned, Retired
<1>4. \A w \in Flying :
        /\ Ages(worker[w], worker'[w])
        /\ worker'[w].own = (worker[w].own /\ worker[w].card # c)
        /\ worker'[w].fresh = worker[w].fresh
        /\ worker'[w].valid = (worker[w].valid /\ worker[w].source \notin gone)
  <2> TAKE w \in Flying
  <2> DEFINE ws == Retired(gone)
             off == {c}
  <2>1. /\ Ages(worker[w], ws[w]) /\ w \in DOMAIN ws /\ worker' = Disowned(ws, off)
        /\ ws[w].own = worker[w].own /\ ws[w].fresh = worker[w].fresh
        /\ ws[w].valid = (worker[w].valid /\ worker[w].source \notin gone)
    BY <1>1, RetiredAges DEF IInv, Retired
  <2> HIDE DEF ws, off
  <2>2. /\ Ages(worker[w], worker'[w])
        /\ worker'[w].own = (ws[w].own /\ ws[w].card \notin off)
        /\ worker'[w].fresh = ws[w].fresh /\ worker'[w].valid = ws[w].valid
    BY <2>1, DisownedAges
  <2> QED
    BY <2>1, <2>2 DEF Ages, off
<1>5. \A k \in Keys : refresh'[k].revision <= refresh[k].revision
  <2> TAKE k \in Keys
  <2>1. refresh[k] \in [revision : Nat, dependents : SUBSET Cards]
    BY DEF IInv, Types
  <2>2. refresh'[k] = IF refresh[k].dependents \subseteq {c} THEN Unbound
                      ELSE [refresh[k] EXCEPT !.dependents = refresh[k].dependents \ {c}]
    BY DEF SwitchOff, Unbinding
  <2>3. refresh'[k].revision = refresh[k].revision \/ refresh'[k].revision = 0
    BY <2>1, <2>2 DEF Unbound
  <2> QED
    BY <2>1, <2>3
<1>6. Slots'
  BY <1>1 DEF FollowInv, Slots
<1>7. WorkersInv'
  <2> SUFFICES ASSUME NEW w \in Flying, worker'[w].own
               PROVE  /\ worker[w].card \in Registered'
                      /\ Grows(tasks[worker[w].card], tasks'[worker[w].card])
                      /\ worker'[w].valid /\ UpToDate(worker[w]) => UpToDate(worker[w])'
    BY <1>1, <1>3, <1>4, WorkersAge DEF FollowInv
  <2>1. worker[w].card \in Registered \ {c}
    BY <1>4 DEF FollowInv, WorkersInv, Owned
  <2>2. UpToDate(worker[w]) => UpToDate(worker[w])'
    <3>1. worker'[w].key = worker[w].key /\ worker'[w].revision = worker[w].revision
          /\ worker'[w].budget = worker[w].budget /\ worker[w].revision \in Nat
      BY <1>4 DEF Ages, IInv, Types, InFlight
    <3>2. \A k \in Keys : refresh'[k].revision \in Nat /\ refresh[k].revision \in Nat
      BY DEF IInv, Types
    <3> QED
      BY <1>1, <1>5, <3>1, <3>2 DEF UpToDate
  <2> QED
    BY <1>1, <1>2, <2>1, <2>2
<1>8. EventFollowed'
  <2> SUFFICES ASSUME NEW d \in missed \ (lost \cup Scheduled), d # c
               PROVE  Followed(d)'
    BY <1>1 DEF EventFollowed, Followed
  <2>1. d \in Registered \ {c} /\ Followed(d)
    BY DEF FollowInv, EventFollowed, Followed
  <2>2. \A w \in Flying : worker[w].own /\ worker[w].card = d => worker[w].source = tasks[d].source
    BY DEF FollowInv, WorkersInv, Owned, Matches
  <2>3. \A w \in Flying : worker'[w].card = worker[w].card
    BY <1>4 DEF Ages
  <2> QED
    BY <1>2, <1>3, <1>4, <2>1, <2>2, <2>3, FollowedKept
<1> QED
  BY <1>1, <1>6, <1>7, <1>8 DEF FollowInv

LEMMA SwitchOnFollows ==
    ASSUME IInv, FollowInv, IInv', NEW c \in Cards, SwitchOn(c)
    PROVE  FollowInv'
<1> DEFINE gone == Unused(tasks')
<1>1. /\ worker' = Retired(gone) /\ UNCHANGED <<budget, missed, lost>>
      /\ c \notin Registered /\ Registered' = Registered \cup {c}
      /\ \A d \in Registered : tasks'[d] = tasks[d]
      /\ tasks'[c] = NewTask(seed + 1, config[c], epoch)
  BY DEF SwitchOn, With, Registered
<1>2. \A d \in Registered :
        /\ Grows(tasks[d], tasks'[d])
        /\ tasks[d].source \notin gone
  <2> TAKE d \in Registered
  <2>1. tasks[d] \in Tasks /\ tasks'[d] = tasks[d] /\ d \in DOMAIN tasks'
    BY <1>1 DEF IInv, Types, Registered
  <2> QED
    BY <2>1, Unchanged DEF Unused
<1> HIDE DEF gone
<1>3. DOMAIN worker' = Flying
  BY <1>1 DEF Retired
<1>4. \A w \in Flying :
        /\ Ages(worker[w], worker'[w])
        /\ worker'[w].own = worker[w].own /\ worker'[w].fresh = worker[w].fresh
        /\ worker'[w].valid = (worker[w].valid /\ worker[w].source \notin gone)
  BY <1>1, RetiredAges DEF IInv
<1>5. \A k \in Keys : refresh'[k].revision = refresh[k].revision
  BY DEF SwitchOn, IInv, Types
<1>6. Slots'
  <2>1. OwnReason(tasks'[c]) /\ ~tasks'[c].running
    BY <1>1, AskedReasons DEF NewTask, OwnReason
  <2> QED
    BY <1>1, <2>1 DEF FollowInv, Slots
<1>7. WorkersInv'
  <2> SUFFICES ASSUME NEW w \in Flying, worker'[w].own
               PROVE  /\ worker[w].card \in Registered
                      /\ worker'[w].valid /\ UpToDate(worker[w]) => UpToDate(worker[w])'
    BY <1>1, <1>2, <1>3, <1>4, WorkersAge DEF FollowInv
  <2>1. worker[w].card \in Registered
    BY <1>4 DEF FollowInv, WorkersInv, Owned
  <2>2. UpToDate(worker[w]) => UpToDate(worker[w])'
    BY <1>1, <1>4, <1>5 DEF UpToDate, Ages
  <2> QED
    BY <2>1, <2>2
<1>8. EventFollowed'
  <2> SUFFICES ASSUME NEW d \in missed \ (lost \cup Scheduled)
               PROVE  Followed(d)'
    BY <1>1 DEF EventFollowed, Followed
  <2>1. d \in Registered /\ Followed(d)
    BY DEF FollowInv, EventFollowed, Followed
  <2>2. \A w \in Flying : worker[w].own /\ worker[w].card = d => worker[w].source = tasks[d].source
    BY DEF FollowInv, WorkersInv, Owned, Matches
  <2>3. \A w \in Flying : worker'[w].card = worker[w].card
    BY <1>4 DEF Ages
  <2> QED
    BY <1>2, <1>3, <1>4, <2>1, <2>2, <2>3, FollowedKept
<1> QED
  BY <1>1, <1>6, <1>7, <1>8 DEF FollowInv

\* A worker goes one stage further: nothing the invariant speaks of changes.
LEMMA StageFollows ==
    ASSUME IInv, FollowInv, IInv', NEW w \in Flying, NEW stage \in {"sending", "sent"},
           worker' = [worker EXCEPT ![w].at = stage],
           UNCHANGED <<budget, tasks, refresh, missed, lost>>
    PROVE  FollowInv'
<1>1. DOMAIN worker' = Flying
  BY DEF Flying
<1>2. \A v \in Flying :
        /\ Ages(worker[v], worker'[v]) /\ worker'[v].own = worker[v].own
        /\ worker'[v].fresh = worker[v].fresh /\ worker'[v].valid = worker[v].valid
  BY DEF IInv, Types, InFlight, Ages, Flying
<1>3. \A c \in Registered : Grows(tasks[c], tasks'[c])
  BY Unchanged DEF IInv, Types
<1>4. Slots' /\ Registered' = Registered
  BY DEF FollowInv, Slots, Registered
<1>5. WorkersInv'
  <2>1. \A v \in Flying : worker'[v].own => worker[v].card \in Registered
    BY <1>2 DEF FollowInv, WorkersInv, Owned
  <2>2. \A v \in Flying : UpToDate(worker[v]) => UpToDate(worker[v])'
    BY <1>2 DEF UpToDate, Ages
  <2> QED
    BY <1>1, <1>2, <1>3, <1>4, <2>1, <2>2, WorkersAge DEF FollowInv
<1>6. EventFollowed'
  <2> SUFFICES ASSUME NEW c \in missed \ (lost \cup Scheduled)
               PROVE  Followed(c)'
    BY DEF EventFollowed, Followed
  <2>1. c \in Registered /\ Followed(c)
    BY DEF FollowInv, EventFollowed, Followed
  <2>2. \A v \in Flying : worker'[v].card = worker[v].card
    BY <1>2 DEF Ages
  <2> QED
    BY <1>1, <1>2, <1>3, <2>1, <2>2, FollowedKept
<1> QED
  BY <1>4, <1>5, <1>6 DEF FollowInv

-----------------------------------------------------------------------------
(* The start and the end of a collection.                                  *)

\* The new worker has the slot of its card, and all others of that card are older.
LEMMA StartFollows ==
    ASSUME IInv, FollowInv, IInv', NEW c \in Cards, NEW w \in Workers, Start(c, w)
    PROVE  FollowInv'
<1> DEFINE t == tasks[c]
           key == IF t.reason \in Keys THEN t.reason ELSE NoReason
           x == [at |-> "collecting", card |-> c, generation |-> t.generation,
                 epoch |-> t.epoch, source |-> t.source, budget |-> budget,
                 key |-> key, revision |-> IF key \in Keys THEN refresh[key].revision ELSE 0,
                 valid |-> TRUE, fresh |-> TRUE, own |-> TRUE]
           u == [t EXCEPT !.running = TRUE, !.runOnce = FALSE, !.reason = NoReason,
                          !.requested = {}]
<1>1. /\ c \in Registered /\ ~t.running /\ w \notin Flying /\ t \in Tasks
      /\ DOMAIN worker' = Flying \cup {w} /\ worker'[w] = x
      /\ \A v \in Flying : worker'[v] = worker[v]
      /\ tasks' = [tasks EXCEPT ![c] = u]
      /\ UNCHANGED <<budget, refresh, missed, lost>>
  BY DEF Start, With, Flying, IInv, Types
<1>2. Registered' = Registered /\ \A d \in Registered : tasks'[d] = IF d = c THEN u ELSE tasks[d]
  BY <1>1 DEF Registered
<1>3. /\ u.running /\ ~u.runOnce /\ u.reason = NoReason /\ u.source = t.source
      /\ u.epoch = t.epoch /\ u.generation = t.generation /\ t.generation \in Nat
  BY <1>1 DEF Tasks
<1>4. /\ x.card = c /\ x.generation = t.generation /\ x.epoch = t.epoch
      /\ x.source = t.source /\ x.budget = budget /\ x.own /\ x.fresh /\ x.valid
      /\ x.key = key
      /\ key \in Keys => key = t.reason /\ x.revision = refresh[key].revision
  BY AskedReasons
<1>5. \A v \in Flying : worker[v].own =>
        /\ worker[v].card \in Registered
        /\ Matches(worker[v], tasks[worker[v].card])
        /\ worker[v].card = c => worker[v].generation < t.generation
        /\ worker[v].generation \in Nat
  BY <1>1 DEF FollowInv, WorkersInv, Owned, Matches, IInv, Types, InFlight
<1> HIDE DEF x, u, key
<1>6. Slots'
  BY <1>2, <1>3, AskedReasons DEF FollowInv, Slots, OwnReason
<1>7. Owned'
  <2> SUFFICES ASSUME NEW v \in Flying \cup {w}, worker'[v].own
               PROVE  /\ worker'[v].card \in Registered
                      /\ Matches(worker'[v], tasks'[worker'[v].card])
                      /\ worker'[v].key \in Keys => worker'[v].key \in BoundTo(worker'[v].source)
                      /\ worker'[v].valid => UpToDate(worker[v])'
    BY <1>1, <1>2 DEF Owned, Flying
  <2>1. CASE v = w
    <3>1. worker'[v] = x /\ tasks'[c] = u
      BY <1>1, <1>2, <2>1
    <3>2. Matches(x, u)
      BY <1>3, <1>4 DEF Matches
    <3>3. key \in Keys => key \in BoundTo(t.source)
      BY <1>1, <1>4 DEF FollowInv, Slots, OwnReason
    <3>4. key \in Keys => refresh[key].revision \in Nat
      BY DEF IInv, Types
    <3>5. UpToDate(worker[v])'
      BY <1>1, <1>4, <3>1, <3>4 DEF UpToDate
    <3> QED
      BY <1>1, <1>4, <3>1, <3>2, <3>3, <3>5
  <2>2. CASE v \in Flying
    <3>1. worker'[v] = worker[v] /\ worker[v].own
      BY <1>1, <2>2
    <3>2. Matches(worker[v], tasks'[worker[v].card])
      <4>1. CASE worker[v].card = c
        BY <1>2, <1>3, <1>5, <2>2, <3>1, <4>1 DEF Matches
      <4>2. CASE worker[v].card # c
        BY <1>2, <1>5, <2>2, <3>1, <4>2
      <4> QED
        BY <4>1, <4>2
    <3>3. UpToDate(worker[v])' = UpToDate(worker[v])
      BY <1>1, <3>1 DEF UpToDate
    <3> QED
      BY <1>5, <2>2, <3>1, <3>2, <3>3 DEF FollowInv, WorkersInv, Owned
  <2> QED
    BY <2>1, <2>2
<1>8. Alone'
  <2> SUFFICES ASSUME NEW v \in Flying \cup {w}, NEW y \in Flying \cup {w},
                      worker'[v].own, worker'[y].own, worker'[v].card = worker'[y].card,
                      worker'[v].generation = worker'[y].generation
               PROVE  v = y
    BY <1>1 DEF Alone, Flying
  <2>1. ASSUME NEW z \in Flying, worker[z].own, worker[z].card = x.card
        PROVE  worker[z].generation # x.generation
    BY <1>3, <1>4, <1>5, <2>1
  <2> QED
    BY <1>1, <2>1 DEF FollowInv, WorkersInv, Alone
<1>9. Overtaken'
  <2> SUFFICES ASSUME NEW v \in Flying \cup {w}, worker'[v].own, worker'[v].fresh,
                      ~Holds(worker[v])'
               PROVE  worker'[v].card \notin missed \ lost
    BY <1>1 DEF Overtaken, Flying
  <2>1. CASE v = w
    <3>1. worker'[v] = x /\ tasks'[c] = u
      BY <1>1, <1>2, <2>1
    <3>2. Holds(worker[v])'
      BY <1>1, <1>2, <1>3, <1>4, <3>1 DEF Holds
    <3> QED
      BY <3>2
  <2>2. CASE v \in Flying
    <3>1. worker'[v] = worker[v] /\ worker[v].own /\ worker[v].fresh
      BY <1>1, <2>2
    <3>2. ~Holds(worker[v])
      BY <1>1, <1>2, <1>5, <2>2, <3>1 DEF Holds
    <3> QED
      BY <2>2, <3>1, <3>2 DEF FollowInv, WorkersInv, Overtaken
  <2> QED
    BY <2>1, <2>2
<1>10. EventFollowed'
  <2> SUFFICES ASSUME NEW d \in missed \ (lost \cup Scheduled)
               PROVE  Followed(d)'
    BY <1>1 DEF EventFollowed, Followed
  <2>1. d \in Registered /\ Followed(d)
    BY DEF FollowInv, EventFollowed, Followed
  <2>2. CASE d = c
    <3>1. w \in DOMAIN worker'
      BY <1>1
    <3>2. Underway(c)'
      BY <1>1, <1>4, <3>1 DEF Underway, Flying
    <3> QED
      BY <1>2, <1>3, <2>1, <2>2, <3>2 DEF Followed
  <2>3. CASE d # c
    <3>1. Grows(tasks[d], tasks'[d])
      BY <1>2, <2>1, <2>3, Unchanged DEF IInv, Types
    <3> QED
      BY <1>1, <2>1, <3>1, FollowedKept
  <2> QED
    BY <2>2, <2>3
<1> QED
  BY <1>1, <1>2, <1>6, <1>7, <1>8, <1>9, <1>10 DEF FollowInv, WorkersInv

LEMMA PublishFollows ==
    ASSUME IInv, FollowInv, IInv', NEW w \in Workers, Publish(w)
    PROVE  FollowInv'
BY StageFollows DEF Publish, At

LEMMA SendFollows ==
    ASSUME IInv, FollowInv, IInv', NEW w \in Workers, Send(w)
    PROVE  FollowInv'
BY StageFollows DEF Send, At

\* The worker w reports.  Its slot comes back unless a later run has it: then the worker
\* was overtaken, and what the card misses is followed up without it.
LEMMA ReceiveFollows ==
    ASSUME IInv, FollowInv, IInv', Receive
    PROVE  FollowInv'
<1> DEFINE late == Head(channel)
<1>1. PICK w \in Flying :
        LET c == worker[w].card
            projects == ~Outdated(w) /\ ~Rejected(w) /\ Latest(w)
        IN  /\ DOMAIN worker' = Flying \ {w}
            /\ \A v \in Flying \ {w} : worker'[v] = worker[v]
            /\ tasks' = Freed(w)
            /\ missed' = IF projects THEN missed \ {c} ELSE missed
            /\ lost' = IF projects THEN lost \ {c}
                       ELSE IF ~Outdated(w) /\ (~worker[w].own \/ ~Rejected(w)) THEN lost \cup {c}
                       ELSE lost
            /\ UNCHANGED <<budget, refresh>>
  <2>1. late \in Flying
    BY DEF Receive, IInv, Completions
  <2>2. DOMAIN worker' = Flying \ {late} /\ \A v \in Flying \ {late} : worker'[v] = worker[v]
    BY DEF Receive, Except, Restrict, Flying
  <2> WITNESS late \in Flying
  <2> QED
    BY <2>2 DEF Receive
<1> HIDE DEF late
<1> DEFINE c == worker[w].card
           projects == ~Outdated(w) /\ ~Rejected(w) /\ Latest(w)
<1>2. Registered' = Registered
  BY <1>1 DEF Freed, Registered
<1>3. \A d \in Registered : tasks[d] \in Tasks /\ Grows(tasks[d], tasks[d])
  BY Unchanged DEF IInv, Types
\* What a card misses after, it missed before.
<1>4. missed' \ lost' \subseteq missed \ lost
  BY <1>1
<1>5. \A v \in Flying : worker[v].own =>
        /\ worker[v].card \in Registered
        /\ Matches(worker[v], tasks[worker[v].card])
        /\ worker[v].generation \in Nat
  BY DEF FollowInv, WorkersInv, Owned, IInv, Types, InFlight
<1>6. \A v \in Flying \ {w} : UpToDate(worker[v])' = UpToDate(worker[v])
  BY <1>1 DEF UpToDate
<1>7. Alone'
  BY <1>1 DEF FollowInv, WorkersInv, Alone, Flying
<1>8. CASE Outdated(w)
  <2>1. tasks' = tasks /\ missed' = missed /\ lost' = lost
    BY <1>1, <1>8 DEF Freed
  <2>2. Slots'
    BY <2>1 DEF FollowInv, Slots, Registered
  <2>3. Owned'
    BY <1>1, <1>6, <2>1 DEF FollowInv, WorkersInv, Owned, Flying, Registered
  <2>4. Overtaken'
    <3>1. \A v \in Flying \ {w} : Holds(worker[v])' = Holds(worker[v])
      BY <1>1, <2>1 DEF Holds, Registered
    <3> QED
      BY <1>1, <2>1, <3>1 DEF FollowInv, WorkersInv, Overtaken, Flying
  <2>5. EventFollowed'
    <3> SUFFICES ASSUME NEW d \in missed \ (lost \cup Scheduled)
                 PROVE  Followed(d)'
      BY <2>1 DEF EventFollowed, Followed
    <3>1. d \in Registered /\ Followed(d)
      BY DEF FollowInv, EventFollowed, Followed
    <3>2. ~(worker[w].card = d /\ worker[w].own /\ worker[w].fresh)
      BY <1>8 DEF FollowInv, WorkersInv, Overtaken, Outdated, Holds
    <3>3. Underway(d) => Underway(d)'
      BY <1>1, <3>2 DEF Underway, Flying
    <3> QED
      BY <2>1, <3>1, <3>3 DEF Followed
  <2> QED
    BY <1>2, <1>7, <2>1, <2>2, <2>3, <2>4, <2>5 DEF FollowInv, WorkersInv
<1>9. CASE ~Outdated(w)
  <2> DEFINE t == tasks[c]
             u == Done(t)
  <2>1. /\ c \in Registered /\ t \in Tasks /\ t.generation = worker[w].generation
        /\ tasks' = [tasks EXCEPT ![c] = u]
        /\ \A d \in Registered : tasks'[d] = IF d = c THEN u ELSE tasks[d]
    BY <1>1, <1>3, <1>9 DEF Freed, Outdated, Registered
  <2>2. /\ ~u.running /\ u.generation = t.generation + 1 /\ t.generation \in Nat
        /\ u.source = t.source /\ u.epoch = t.epoch
        /\ t.pendingEvent => u.runOnce
        /\ u.reason = t.reason \/ u.reason = NoReason
    BY <2>1 DEF Done, Tasks
  <2> HIDE DEF u
  \* Another worker of the card has lost the slot to this one.
  <2>3. ASSUME NEW v \in Flying \ {w}, worker[v].own, worker[v].fresh, worker[v].card = c,
               worker[w].own
        PROVE  c \notin missed \ lost
    <3>1. worker[v].generation # worker[w].generation
      BY <2>3 DEF FollowInv, WorkersInv, Alone
    <3>2. ~Holds(worker[v])
      BY <2>1, <2>3, <3>1 DEF Holds
    <3> QED
      BY <2>3, <3>2 DEF FollowInv, WorkersInv, Overtaken
  \* What the card misses after its worker reported.
  <2>4. c \in missed' \ lost' => c \in missed \ lost /\ worker[w].own /\ Rejected(w)
    BY <1>1, <1>9
  <2>5. Slots'
    BY <1>2, <2>1, <2>2, AskedReasons DEF FollowInv, Slots, OwnReason
  <2>6. Owned'
    <3> SUFFICES ASSUME NEW v \in Flying \ {w}, worker[v].own
                 PROVE  Matches(worker[v], tasks'[worker[v].card])
      BY <1>1, <1>2, <1>6 DEF FollowInv, WorkersInv, Owned, Flying
    <3>1. CASE worker[v].card = c
      BY <1>5, <2>1, <2>2, <3>1 DEF Matches
    <3>2. CASE worker[v].card # c
      BY <1>5, <2>1, <3>2
    <3> QED
      BY <3>1, <3>2
  <2>7. Overtaken'
    <3> SUFFICES ASSUME NEW v \in Flying \ {w}, worker[v].own, worker[v].fresh,
                        ~Holds(worker[v])'
                 PROVE  worker[v].card \notin missed' \ lost'
      BY <1>1 DEF Overtaken, Flying
    <3>1. CASE worker[v].card = c
      BY <2>3, <2>4, <3>1
    <3>2. CASE worker[v].card # c
      <4>1. ~Holds(worker[v])
        BY <1>1, <1>2, <2>1, <3>2 DEF Holds
      <4> QED
        BY <1>4, <4>1 DEF FollowInv, WorkersInv, Overtaken
    <3> QED
      BY <3>1, <3>2
  <2>8. EventFollowed'
    <3> SUFFICES ASSUME NEW d \in missed' \ (lost' \cup Scheduled)
                 PROVE  Followed(d)'
      BY DEF EventFollowed, Followed
    <3>1. d \in missed \ (lost \cup Scheduled) /\ d \in Registered /\ Followed(d)
      BY <1>4 DEF FollowInv, EventFollowed, Followed
    <3>2. CASE d # c
      <4>1. Underway(d) => Underway(d)'
        BY <1>1, <3>2 DEF Underway, Flying
      <4> QED
        BY <2>1, <3>1, <3>2, <4>1 DEF Followed
    <3>3. CASE d = c
      <4>1. worker[w].own /\ Rejected(w) /\ c \in missed \ lost
        BY <2>4, <3>3
      <4>2. Matches(worker[w], t)
        BY <1>5, <4>1
      <4>3. t.running /\ ~t.runOnce
        BY <2>1, <2>2, <4>2 DEF Matches, FollowInv, Slots
      <4>4. ~worker[w].valid
        <5>1. worker[w].epoch = t.epoch /\ worker[w].source = t.source
          BY <4>2 DEF Matches
        <5>2. ASSUME worker[w].valid, worker[w].key \in Keys
              PROVE  ~(worker[w].revision < refresh[worker[w].key].revision)
          <6>1. worker[w].revision \in Nat /\ refresh[worker[w].key].revision \in Nat
            BY <5>2 DEF IInv, Types, InFlight
          <6>2. refresh[worker[w].key].revision <= worker[w].revision
            BY <4>1, <5>2 DEF FollowInv, WorkersInv, Owned, UpToDate
          <6> QED
            BY <6>1, <6>2
        <5>3. worker[w].valid => worker[w].budget = budget
          BY <4>1 DEF FollowInv, WorkersInv, Owned, UpToDate
        <5> QED
          BY <4>1, <5>1, <5>2, <5>3 DEF Rejected
      <4>5. ~Underway(c)
        BY <2>3, <4>1, <4>4 DEF Underway
      <4>6. u.runOnce
        BY <2>2, <3>1, <3>3, <4>3, <4>5 DEF Followed
      <4> QED
        BY <2>1, <3>3, <4>6 DEF Followed
    <3> QED
      BY <3>2, <3>3
  <2>9. missed' \subseteq Registered'
    BY <1>1, <1>2 DEF FollowInv
  <2> QED
    BY <1>7, <2>5, <2>6, <2>7, <2>8, <2>9 DEF FollowInv, WorkersInv
<1> QED
  BY <1>8, <1>9

-----------------------------------------------------------------------------
LEMMA InitFollows ==
    ASSUME Init
    PROVE  FollowInv
BY DEF Init, Nothing, FollowInv, Slots, WorkersInv, Owned, Alone, Overtaken, EventFollowed,
       Registered, Flying

LEMMA StutterFollows ==
    ASSUME FollowInv, UNCHANGED vars
    PROVE  FollowInv'
BY DEF vars, FollowInv, Slots, WorkersInv, Owned, Alone, Overtaken, EventFollowed,
       Registered, Flying, Holds, UpToDate, Underway

LEMMA NextFollows ==
    ASSUME IInv, FollowInv, [Next]_vars
    PROVE  FollowInv'
<1>1. IInv'
  BY NextIInv
<1>2. CASE Reload
  BY <1>1, <1>2, RebuildFollows, ChangeBudgetFollows, SwitchOffFollows, SwitchOnFollows DEF Reload
<1>3. CASE Ask
  BY <1>1, <1>3, RequestFollows, SourceEventFollows, PermitFollows DEF Ask
<1>4. CASE Work
  BY <1>1, <1>4, StartFollows, PublishFollows, SendFollows DEF Work
<1>5. CASE Receive
  BY <1>1, <1>5, ReceiveFollows
<1> QED
  BY <1>2, <1>3, <1>4, <1>5, StutterFollows DEF Next

\* No event is lost on the way: a card that does not show it yet is queued, will be when
\* its collection ends, or has a collection under way that saw the event, unless its value
\* itself was lost between a worker and the screen.  For every number of cards, workers,
\* sources and signals, and whatever is switched, reloaded or rebuilt meanwhile
\* (publish_source_event, mark_done, start_metric_receiver).
THEOREM EventAlwaysFollowed == Spec => []EventFollowed
<1>1. Init => IInv /\ FollowInv
  BY InitIInv, InitFollows
<1>2. IInv /\ FollowInv /\ [Next]_vars => IInv' /\ FollowInv'
  BY NextIInv, NextFollows
<1>3. FollowInv => EventFollowed
  BY DEF FollowInv
<1> QED
  BY <1>1, <1>2, <1>3, PTL DEF Spec

-----------------------------------------------------------------------------
(* The other loops, whose proofs are in modules of their own.  What they   *)
(* call Init and Next is what MCLoops instantiates.                        *)

CtlP == INSTANCE ControllerProofs WITH Nobody <- None
CmdP == INSTANCE SubprocessProofs WITH
          step <- call, result <- outcome, alive <- processes, pipe <- pipes

LEMMA SameController ==
    /\ Ctl!ControllerAssumption => CtlP!ControllerAssumption
    /\ Ctl!Init => CtlP!Init
    /\ CtlP!LoopWakes => Ctl!LoopWakes
<1>1. Ctl!ControllerAssumption => CtlP!ControllerAssumption
  BY DEF Ctl!ControllerAssumption, CtlP!ControllerAssumption
<1>2. Ctl!Init => CtlP!Init
  BY DEF Ctl!Init, CtlP!Init
<1>3. CtlP!LoopWakes => Ctl!LoopWakes
  BY DEF Ctl!LoopWakes, CtlP!LoopWakes, Ctl!TypeOK, CtlP!TypeOK, Ctl!NoOversleep,
   CtlP!NoOversleep, Ctl!SpinnersEnd, CtlP!SpinnersEnd, Ctl!Running, CtlP!Running,
   Ctl!Waiting, CtlP!Waiting, Ctl!ToSet, CtlP!ToSet
<1> QED
  BY <1>1, <1>2, <1>3

LEMMA NextController == Ctl!Next => CtlP!Next
BY DEF Ctl!Next, CtlP!Next, Ctl!Tick, CtlP!Tick, Ctl!Request, CtlP!Request,
   Ctl!LoopStep, CtlP!LoopStep, Ctl!Collected, CtlP!Collected, Ctl!Receive,
   CtlP!Receive, Ctl!Controls, CtlP!Controls, Ctl!Invoke, CtlP!Invoke, Ctl!InvokeEmpty,
   CtlP!InvokeEmpty, Ctl!CommandEnds, CtlP!CommandEnds, Ctl!PublishAction,
   CtlP!PublishAction, Ctl!ReceiveAction, CtlP!ReceiveAction, Ctl!Close, CtlP!Close,
   Ctl!Waiting, CtlP!Waiting, Ctl!actions, CtlP!actions, Ctl!Requests, CtlP!Requests,
   Ctl!loop, CtlP!loop, Ctl!Sleep, CtlP!Sleep, Ctl!Awake, CtlP!Awake, Ctl!AwakeClosed,
   CtlP!AwakeClosed, Ctl!Publish, CtlP!Publish, Ctl!Turn, CtlP!Turn, Ctl!StartCard,
   CtlP!StartCard, Ctl!SkipCard, CtlP!SkipCard, Ctl!MarkedDone, CtlP!MarkedDone,
   Ctl!NewRun, CtlP!NewRun, Ctl!Released, CtlP!Released, Ctl!Running, CtlP!Running,
   Ctl!SoonestOf, CtlP!SoonestOf

LEMMA SameSubprocess ==
    /\ Cmd!SubprocessAssumption => CmdP!SubprocessAssumption
    /\ Cmd!Init => CmdP!Init
    /\ CmdP!CommandContained => Cmd!CommandContained
<1>1. Cmd!SubprocessAssumption => CmdP!SubprocessAssumption
  BY DEF Cmd!SubprocessAssumption, CmdP!SubprocessAssumption
<1>2. Cmd!Init => CmdP!Init
  BY DEF Cmd!Init, CmdP!Init, Cmd!NoPipes, CmdP!NoPipes, Cmd!Pipes, CmdP!Pipes
<1>3. CmdP!CommandContained => Cmd!CommandContained
  BY DEF Cmd!CommandContained, CmdP!CommandContained, Cmd!TypeOK, CmdP!TypeOK,
   Cmd!NoneLeftBehind, CmdP!NoneLeftBehind, Cmd!OutputWhole, CmdP!OutputWhole,
   Cmd!Child, CmdP!Child, Cmd!Pipes, CmdP!Pipes
<1> QED
  BY <1>1, <1>2, <1>3

LEMMA NextSubprocess == Cmd!Next => CmdP!Next
BY DEF Cmd!Next, CmdP!Next, Cmd!Fork, CmdP!Fork, Cmd!Pipes, CmdP!Pipes, Cmd!Write,
   CmdP!Write, Cmd!Exit, CmdP!Exit, Cmd!Begin, CmdP!Begin, Cmd!CallStep, CmdP!CallStep,
   Cmd!TimesOut, CmdP!TimesOut, Cmd!GivesUp, CmdP!GivesUp, Cmd!processes,
   CmdP!processes, Cmd!Refuse, CmdP!Refuse, Cmd!Spawn, CmdP!Spawn, Cmd!Read, CmdP!Read,
   Cmd!ReadEnds, CmdP!ReadEnds, Cmd!ChildEnds, CmdP!ChildEnds, Cmd!Completes,
   CmdP!Completes, Cmd!Kill, CmdP!Kill, Cmd!Reap, CmdP!Reap, Cmd!Terminate,
   CmdP!Terminate, Cmd!Child, CmdP!Child, Cmd!Readable, CmdP!Readable, Cmd!Reached,
   CmdP!Reached, Cmd!NoPipes, CmdP!NoPipes

-----------------------------------------------------------------------------
(* The page of ScrcpyForge follows its switch, for any number of daemons,  *)
(* of stop tasks at one time and of work levels.                           *)

\* The loop of the health has an answer to apply exactly when one came.
PageHealth ==
    /\ health \in [step : {"due", "resting", "asking", "answered"}, answer : BOOLEAN \cup {None}]
    /\ health.step = "answered" => health.answer \in BOOLEAN

\* While the daemon stops, its service is not available, whatever the user does.
PageStops == changing => ~available

\* While the user wants the page off, the health is asked for only if it was already.
PageRefused == refused = "yes" => health.step \in {"due", "resting"}

PagePipe == pipe \in {"idle", "fetching", "snapshot", "error", "decoding"}

PageInv ==
    /\ IsFiniteSet(DOMAIN stops) /\ PageHealth /\ PageStops /\ PageRefused /\ PagePipe
    /\ Pg!SwitchFollowed

LEMMA PageCount == \A S : Pg!Cardinality(S) = Cardinality(S)
BY DEF Pg!Cardinality, Cardinality

\* There is always a number for another stop task.
LEMMA StopTaskFree ==
    ASSUME IsFiniteSet(DOMAIN stops)
    PROVE  Pg!StopTask \notin DOMAIN stops
<1> DEFINE n == Cardinality(DOMAIN stops)
<1>1. n \in Nat
  BY FS_CardinalityType
<1>2. IsFiniteSet(1 .. n + 1) /\ Cardinality(1 .. n + 1) = n + 1
  BY <1>1, FS_Interval
<1>3. ~(1 .. n + 1 \subseteq DOMAIN stops)
  BY <1>1, <1>2, FS_Subset
<1>4. \E task \in 1 .. n + 1 : task \notin DOMAIN stops
  BY <1>3
<1> QED
  BY <1>4, PageCount DEF Pg!StopTask

LEMMA PageModes ==
    ASSUME NEW level, NEW paused \in BOOLEAN
    PROVE  Pg!PreviewMode(level, paused) \in Pg!Modes
BY DEF Pg!PreviewMode, Pg!Modes

LEMMA InitPage ==
    ASSUME Pg!ForgePageAssumption, Pg!Init
    PROVE  PageInv
<1>1. IsFiniteSet(DOMAIN stops)
  BY FS_EmptySet DEF Pg!Init
<1>2. mode \in Pg!Modes
  BY PageModes DEF Pg!Init
<1>3. PageHealth
  BY DEF Pg!Init, PageHealth
<1>4. Pg!TypeOK
  <2>1. /\ started = 0 /\ alive = {} /\ child = None /\ stopDone = 0
        /\ switch = FALSE /\ changing = FALSE /\ available = FALSE
        /\ gate = FALSE /\ mapped = FALSE /\ refused = "yes"
    BY DEF Pg!Init
  <2>2. started \in 0 .. MaxStarts /\ alive \subseteq 1 .. started /\ child \in {None} \cup 1 .. started
    BY <2>1 DEF Pg!ForgePageAssumption
  <2>3. {switch, changing, available, gate, mapped} \subseteq BOOLEAN
    BY <2>1
  <2> QED
    BY <1>2, <2>1, <2>2, <2>3 DEF Pg!TypeOK
<1> QED
  BY <1>1, <1>3, <1>4 DEF Pg!Init, PageInv, PageStops, PageRefused, PagePipe, Pg!SwitchFollowed,
     Pg!ServiceFollowsSwitch, Pg!GateOpens

LEMMA PageOnStep ==
    ASSUME Pg!ForgePageAssumption, PageInv, Pg!SwitchOn
    PROVE  PageInv'
<1>1. /\ ~switch /\ refused' = "no"
      /\ UNCHANGED <<stops, stopDone, changing, available, health, gate, pipe, mapped, mode>>
  BY DEF Pg!SwitchOn, Pg!page, PageInv, Pg!SwitchFollowed, Pg!ServiceFollowsSwitch
<1>2. /\ switch' \in BOOLEAN
      /\ \/ UNCHANGED <<started, alive, child>>
         \/ /\ ~Pg!Running
            /\ \/ /\ started < MaxStarts /\ started' = started + 1 /\ child' = started + 1
                  /\ alive' = alive \cup {started + 1}
               \/ child' = None /\ UNCHANGED <<started, alive>>
  BY DEF Pg!SwitchOn, Pg!StillRunning, Pg!Spawn, Pg!SpawnFails
<1>3. started \in Nat /\ alive \subseteq 1 .. started /\ child \in {None} \cup 1 .. started
  BY DEF Pg!ForgePageAssumption, PageInv, Pg!SwitchFollowed, Pg!TypeOK
<1>4. Pg!TypeOK'
  <2>1. started' \in 0 .. MaxStarts /\ alive' \subseteq 1 .. started' /\ child' \in {None} \cup 1 .. started'
    <3>1. started \in 0 .. MaxStarts /\ MaxStarts \in Nat
      BY DEF Pg!ForgePageAssumption, PageInv, Pg!SwitchFollowed, Pg!TypeOK
    <3>2. CASE UNCHANGED <<started, alive>> /\ child' \in {child, None}
      BY <1>3, <3>1, <3>2
    <3>3. CASE /\ started < MaxStarts /\ started' = started + 1 /\ child' = started + 1
               /\ alive' = alive \cup {started + 1}
      BY <1>3, <3>1, <3>3
    <3> QED
      BY <1>2, <3>2, <3>3
  <2> QED
    BY <1>1, <1>2, <2>1 DEF PageInv, Pg!SwitchFollowed, Pg!TypeOK
<1>5. Pg!ServiceFollowsSwitch'
  <2>1. \A d \in alive : ~Pg!Running => child # d
    BY <1>3 DEF Pg!ForgePageAssumption, Pg!Running
  <2> QED
    BY <1>1, <1>2, <2>1 DEF PageInv, Pg!SwitchFollowed, Pg!ServiceFollowsSwitch
<1> QED
  BY <1>1, <1>4, <1>5 DEF PageInv, PageHealth, PageStops, PageRefused, PagePipe, Pg!SwitchFollowed,
     Pg!GateOpens

LEMMA PageOffStep ==
    ASSUME Pg!ForgePageAssumption, PageInv, Pg!SwitchOff
    PROVE  PageInv'
<1>1. /\ switch' = FALSE /\ refused' \in {"asked", "yes"}
      /\ refused' = "yes" => health.step \notin {"asking", "answered"}
      /\ UNCHANGED <<started, alive, stopDone, health, gate, pipe, mapped, mode>>
  BY DEF Pg!SwitchOff, Pg!page
<1>2. CASE changing
  BY <1>1, <1>2 DEF Pg!SwitchOff, PageInv, PageHealth, PageStops, PageRefused, PagePipe, Pg!SwitchFollowed,
     Pg!TypeOK,
                    Pg!ServiceFollowsSwitch, Pg!GateOpens
<1>3. CASE ~changing
  <2>1. /\ changing' = TRUE /\ available' = FALSE /\ child' = None
        /\ DOMAIN stops' = DOMAIN stops \cup {Pg!StopTask}
        /\ stops'[Pg!StopTask].child = child
        /\ \A task \in DOMAIN stops : task # Pg!StopTask => stops'[task] = stops[task]
    BY <1>3 DEF Pg!SwitchOff
  <2>2. Pg!StopTask \notin DOMAIN stops
    BY StopTaskFree DEF PageInv
  <2>3. IsFiniteSet(DOMAIN stops')
    BY <2>1, FS_AddElement DEF PageInv
  <2>4. Pg!ServiceFollowsSwitch'
    <3> SUFFICES ASSUME NEW d \in alive
                 PROVE  \E task \in DOMAIN stops' : stops'[task].child = d
      BY <1>1, <2>1 DEF Pg!ServiceFollowsSwitch
    <3>1. child = d \/ \E task \in DOMAIN stops : stops[task].child = d
      BY DEF PageInv, Pg!SwitchFollowed, Pg!ServiceFollowsSwitch
    <3> QED
      BY <2>1, <2>2, <3>1
  <2> QED
    BY <1>1, <2>1, <2>3, <2>4 DEF PageInv, PageHealth, PageStops, PageRefused, PagePipe, Pg!SwitchFollowed,
       Pg!TypeOK, Pg!GateOpens
<1> QED
  BY <1>2, <1>3

LEMMA PageStopStep ==
    ASSUME PageInv, Pg!ShutdownAnswered \/ Pg!Reap \/ Pg!StopDone
    PROVE  PageInv'
<1>1. UNCHANGED <<started, child, switch, available, health, refused, gate, pipe, mapped, mode>>
  BY DEF Pg!ShutdownAnswered, Pg!Reap, Pg!StopDone, Pg!page
<1>2. /\ IsFiniteSet(DOMAIN stops') /\ alive' \subseteq alive
      /\ stopDone' \in {0, 1} /\ changing' \in {changing, FALSE}
      /\ \A d \in alive' :
           (\E task \in DOMAIN stops : stops[task].child = d)
           => \E task \in DOMAIN stops' : stops'[task].child = d
  <2>1. CASE Pg!ShutdownAnswered
    <3>1. PICK task \in DOMAIN stops : stops' = [stops EXCEPT ![task].step = "reap"]
      BY <2>1 DEF Pg!ShutdownAnswered
    <3>2. \A other \in DOMAIN stops : stops'[other].child = stops[other].child
      BY <3>1
    <3> QED
      BY <2>1, <3>1, <3>2 DEF Pg!ShutdownAnswered, PageInv, Pg!SwitchFollowed, Pg!TypeOK
  <2>2. CASE Pg!Reap
    <3>1. PICK task \in DOMAIN stops :
            /\ alive' = alive \ {stops[task].child}
            /\ stops' = [other \in DOMAIN stops \ {task} |-> stops[other]]
      BY <2>2 DEF Pg!Reap
    <3>2. IsFiniteSet(DOMAIN stops')
      BY <3>1, FS_Subset DEF PageInv
    <3> QED
      BY <2>2, <3>1, <3>2 DEF Pg!Reap
  <2>3. CASE Pg!StopDone
    BY <2>3 DEF Pg!StopDone, PageInv
  <2> QED
    BY <2>1, <2>2, <2>3
<1>3. PageHealth' /\ PageRefused' /\ PagePipe' /\ Pg!GateOpens'
  BY <1>1 DEF PageInv, PageHealth, PageRefused, PagePipe, Pg!SwitchFollowed, Pg!GateOpens
<1>4. Pg!TypeOK'
  BY <1>1, <1>2 DEF PageInv, Pg!SwitchFollowed, Pg!TypeOK
<1>5. Pg!ServiceFollowsSwitch'
  BY <1>1, <1>2 DEF PageInv, Pg!SwitchFollowed, Pg!ServiceFollowsSwitch
<1>6. PageStops'
  BY <1>1, <1>2 DEF PageInv, PageStops
<1> QED
  BY <1>2, <1>3, <1>4, <1>5, <1>6 DEF PageInv, Pg!SwitchFollowed

LEMMA PageDaemonStep ==
    ASSUME PageInv, Pg!DaemonExits
    PROVE  PageInv'
BY DEF Pg!DaemonExits, Pg!page, PageInv, PageHealth, PageStops, PageRefused, PagePipe, Pg!SwitchFollowed,
   Pg!TypeOK,
       Pg!ServiceFollowsSwitch, Pg!GateOpens

LEMMA PageHealthStep ==
    ASSUME Pg!ForgePageAssumption, PageInv,
           Pg!HealthTurn \/ Pg!HealthAnswers \/ Pg!HealthApplied \/ Pg!HealthWakes
    PROVE  PageInv'
<1>1. UNCHANGED <<started, alive, child, stops, stopDone, gate, pipe, mapped, mode>>
  BY DEF Pg!HealthTurn, Pg!HealthAnswers, Pg!HealthApplied, Pg!HealthWakes, Pg!daemon, Pg!page
<1>2. /\ PageHealth' /\ PageStops' /\ PageRefused' /\ {switch', changing', available'} \subseteq BOOLEAN
      /\ refused' \in {"no", "asked", "yes"}
      /\ refused' # "no" => ~switch' /\ ~available'
  <2> USE DEF PageInv, PageHealth, PageStops, PageRefused, Pg!SwitchFollowed, Pg!TypeOK,
              Pg!ServiceFollowsSwitch
  <2>1. CASE Pg!HealthTurn
    <3>1. /\ UNCHANGED <<switch, changing, refused>>
          /\ available' = available \/ available' = FALSE
          /\ \E step \in {"asking", "resting"} : health' = [health EXCEPT !.step = step]
          /\ switch \/ health'.step # "asking"
      BY <2>1 DEF Pg!HealthTurn
    <3>2. PageHealth' /\ PageStops' /\ PageRefused'
      BY <3>1
    <3>3. /\ {switch', changing', available'} \subseteq BOOLEAN
          /\ refused' \in {"no", "asked", "yes"}
          /\ refused' # "no" => ~switch' /\ ~available'
      <4>1. CASE UNCHANGED available
        BY <3>1, <4>1
      <4>2. CASE available' = FALSE
        BY <3>1, <4>2
      <4> QED
        BY <3>1, <4>1, <4>2
    <3> QED
      BY <3>2, <3>3
  <2>2. CASE Pg!HealthAnswers
    BY <2>2 DEF Pg!HealthAnswers
  <2>3. CASE Pg!HealthApplied
    BY <2>3 DEF Pg!HealthApplied
  <2>4. CASE Pg!HealthWakes
    BY <2>4 DEF Pg!HealthWakes
  <2> QED
    BY <2>1, <2>2, <2>3, <2>4
<1> QED
  BY <1>1, <1>2 DEF PageInv, PagePipe, Pg!SwitchFollowed, Pg!TypeOK, Pg!ServiceFollowsSwitch,
     Pg!GateOpens

LEMMA PageSnapshotStep ==
    ASSUME PageInv,
           \/ Pg!AskSnapshot \/ Pg!SnapshotAnswers \/ Pg!ReceiveSnapshot
           \/ Pg!Rendered \/ Pg!PageChanges
    PROVE  PageInv'
<1>1. UNCHANGED <<started, alive, child, stops, stopDone, switch, changing, available, health, refused>>
  BY DEF Pg!AskSnapshot, Pg!SnapshotAnswers, Pg!ReceiveSnapshot, Pg!Rendered, Pg!PageChanges,
     Pg!daemon
<1>2. PagePipe' /\ Pg!GateOpens' /\ gate' \in BOOLEAN /\ mapped' \in BOOLEAN /\ mode' \in Pg!Modes
  <2> USE DEF PageInv, PagePipe, Pg!SwitchFollowed, Pg!TypeOK, Pg!GateOpens
  <2>1. CASE Pg!AskSnapshot
    BY <2>1 DEF Pg!AskSnapshot
  <2>2. CASE Pg!SnapshotAnswers
    BY <2>2 DEF Pg!SnapshotAnswers
  <2>3. CASE Pg!ReceiveSnapshot
    BY <2>3 DEF Pg!ReceiveSnapshot
  <2>4. CASE Pg!Rendered
    BY <2>4 DEF Pg!Rendered
  <2>5. CASE Pg!PageChanges
    <3>1. /\ mapped' = ~mapped \/ mapped' = mapped
          /\ \/ mode' = mode
             \/ \E level \in WorkLevels, paused \in BOOLEAN : mode' = Pg!PreviewMode(level, paused)
          /\ UNCHANGED <<gate, pipe>>
      BY <2>5 DEF Pg!PageChanges
    <3> QED
      BY <3>1, PageModes
  <2> QED
    BY <2>1, <2>2, <2>3, <2>4, <2>5
<1> QED
  BY <1>1, <1>2 DEF PageInv, PageHealth, PageStops, PageRefused, Pg!SwitchFollowed, Pg!TypeOK,
     Pg!ServiceFollowsSwitch

LEMMA NextPage ==
    ASSUME Pg!ForgePageAssumption, PageInv, [Pg!Next]_(Pg!vars)
    PROVE  PageInv'
<1>1. CASE UNCHANGED Pg!vars
  BY <1>1 DEF Pg!vars, PageInv, PageHealth, PageStops, PageRefused, PagePipe, Pg!SwitchFollowed, Pg!TypeOK,
              Pg!ServiceFollowsSwitch, Pg!GateOpens
<1> QED
  BY <1>1, PageOnStep, PageOffStep, PageStopStep, PageDaemonStep, PageHealthStep,
     PageSnapshotStep DEF Pg!Next

-----------------------------------------------------------------------------
\* Each of them moves by itself, or rests.
LEMMA OneMoves ==
    [NextAll]_all => /\ Ctl!Next \/ UNCHANGED controller
                     /\ Pg!Next \/ UNCHANGED page
                     /\ Cmd!Next \/ UNCHANGED command
BY DEF NextAll, OfCollection, OfController, OfPage, OfCommand, all

LEMMA InitLoops == InitAll => CtlP!IInv /\ PageInv /\ CmdP!IInv
BY LoopsAssumption, SameController, SameSubprocess,
   CtlP!InitIInv, InitPage, CmdP!InitInv DEF InitAll

LEMMA ControllerStep == CtlP!IInv /\ [NextAll]_all => CtlP!IInv'
<1> SUFFICES ASSUME CtlP!IInv, [NextAll]_all
             PROVE  CtlP!IInv'
  OBVIOUS
<1>1. [CtlP!Next]_(CtlP!vars)
  BY OneMoves, NextController DEF controller, CtlP!vars
<1> QED
  BY <1>1, LoopsAssumption, SameController, CtlP!NextIInv

LEMMA PageStep == PageInv /\ [NextAll]_all => PageInv'
<1> SUFFICES ASSUME PageInv, [NextAll]_all
             PROVE  PageInv'
  OBVIOUS
<1>1. [Pg!Next]_(Pg!vars)
  BY OneMoves DEF page, Pg!vars
<1> QED
  BY <1>1, LoopsAssumption, NextPage

LEMMA CommandStep == CmdP!IInv /\ [NextAll]_all => CmdP!IInv'
<1> SUFFICES ASSUME CmdP!IInv, [NextAll]_all
             PROVE  CmdP!IInv'
  OBVIOUS
<1>1. [CmdP!Next]_(CmdP!vars)
  BY OneMoves, NextSubprocess DEF command, CmdP!vars
<1> QED
  BY <1>1, LoopsAssumption, SameSubprocess, CmdP!NextInv

\* The polling loop never sleeps past a card that is due, and a control that shows a
\* spinner has one run or one completion that clears it (start_scheduler_polling,
\* acquire_action, start_action_receiver).
THEOREM LoopAlwaysWakes == SpecAll => []LoopWakes
<1>1. CtlP!IInv => LoopWakes
  BY SameController DEF LoopWakes, CtlP!IInv, CtlP!Typed, CtlP!Leases, CtlP!Awaited,
     CtlP!LoopWakes, CtlP!SpinnersEnd
<1> QED
  BY InitLoops, ControllerStep, <1>1, PTL DEF SpecAll

\* Once the user has turned the switch off it stays off, and no snapshot is asked for, until he
\* turns it on or a question of the health that was already under way is answered well; a
\* daemon that was started is the one the next stop takes; and the gate of snapshots is closed
\* exactly while one is on its way (the switch, the health loop and the receiver of the ScrcpyForge page).
THEOREM SwitchAlwaysFollowed == SpecAll => []SwitchFollowed
<1>1. PageInv => SwitchFollowed
  BY DEF SwitchFollowed, PageInv
<1> QED
  BY InitLoops, PageStep, <1>1, PTL DEF SpecAll

\* A command that was given up leaves nobody of its group behind, no child stays a zombie,
\* and a completed one has all of its output up to the limit (run_command, terminate_child,
\* read_limited).
THEOREM CommandAlwaysContained == SpecAll => []CommandContained
<1>1. CmdP!IInv => CommandContained
  BY SameSubprocess, CmdP!InvContained DEF CommandContained
<1> QED
  BY InitLoops, CommandStep, <1>1, PTL DEF SpecAll
=============================================================================
