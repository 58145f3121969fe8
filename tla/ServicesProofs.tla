--------------------------- MODULE ServicesProofs ---------------------------
(***************************************************************************)
(* Theorems about the services: the runtime (for every configuration,      *)
(* length of a day, set of owners, consumers and events, and for a clock   *)
(* without bound), the sensors, the migration of the documents, the card   *)
(* with a fixed schedule, the client of ScrcpyForge, the pet card and the  *)
(* configuration on disk and in memory.                                    *)
(***************************************************************************)
EXTENDS MCServices, SharedLemmas, TLAPS

-----------------------------------------------------------------------------
(* Types.                                                                  *)

Agents == [event : Events \cup {"none"}, until : Instants, active : BOOLEAN]

\* The cells, with or without a first snapshot.
Cells ==
    [config : Configs, mapped : BOOLEAN, active : BOOLEAN, inactiveSince : Instants,
     lastActivity : Nat, idleCandidate : Instants, lease : Instants,
     interactions : UNION {[owners -> Nat] : owners \in SUBSET Owners},
     agent : Agents, thermal : Thermals, capacity : Capacities \cup {None}, stage : Stages,
     snapshot : Snapshots \cup {<<>>}, timer : Instants]

Durations(cfg) ==
    /\ {cfg.lease, cfg.idleTimeout, cfg.idleStability, cfg.grace, cfg.attention,
        cfg.quietStart, cfg.quietEnd} \subseteq Nat
    /\ cfg.quietEnabled \in BOOLEAN

Clock == now \in Nat /\ midnight \in 0 .. DaySeconds - 1

LEMMA ConfigDurations ==
    ASSUME NEW cfg \in Configs
    PROVE  Durations(cfg)
BY RuntimeAssumption DEF Durations

LEMMA LongestLease ==
    /\ Longest \in Nat
    /\ \A cfg \in Configs : cfg.lease <= Longest
<1>1. \E n \in {cfg.lease : cfg \in Configs} : \A cfg \in Configs : cfg.lease <= n
  BY RuntimeAssumption
<1>2. /\ Longest \in {cfg.lease : cfg \in Configs}
      /\ \A cfg \in Configs : cfg.lease <= Longest
  BY <1>1 DEF Longest
<1> QED
  BY <1>2, RuntimeAssumption

LEMMA NoInteractions == <<>> \in [{} -> Nat] /\ DOMAIN <<>> = {}
OBVIOUS

LEMMA InteractionsType ==
    ASSUME NEW m \in Cells
    PROVE  /\ DOMAIN m.interactions \subseteq Owners
           /\ m.interactions \in [DOMAIN m.interactions -> Nat]
<1>1. PICK owners \in SUBSET Owners : m.interactions \in [owners -> Nat]
  BY DEF Cells
<1> QED
  BY <1>1

LEMMA SomeInteractions ==
    ASSUME NEW owners \in SUBSET Owners, NEW f \in [owners -> Nat]
    PROVE  f \in UNION {[S -> Nat] : S \in SUBSET Owners}
OBVIOUS

LEMMA LevelType ==
    ASSUME NEW facts, facts.stage \in Stages
    PROVE  WorkLevel(facts) \in DOMAIN Strength
<1>1. DOMAIN Strength = {"suspended", "minimal", "reduced", "full"}
  BY DEF Strength
<1>2. StageCap(facts.stage) \in DOMAIN Strength /\ ThermalCap(facts.thermal) \in DOMAIN Strength
  BY <1>1 DEF StageCap, ThermalCap
<1> QED
  BY <1>1, <1>2 DEF WorkLevel, Lower

\* The types of what a snapshot is evaluated from.
AllFacts ==
    [mapped : BOOLEAN, active : BOOLEAN, graceOver : BOOLEAN, userIdle : BOOLEAN,
     interaction : BOOLEAN, quiet : BOOLEAN, thermal : Thermals, stage : Stages,
     agent : Events \cup {"none", "active"}]

LEMMA EvaluateType ==
    ASSUME NEW facts \in AllFacts, NEW cfg \in Configs
    PROVE  Evaluate(facts, cfg) \in Snapshots
<1>1. WorkLevel(facts) \in DOMAIN Strength
  BY LevelType DEF AllFacts
<1>2. Visibility(facts) \in Visibilities
  BY DEF Visibility, Visibilities
<1>3. VisualPolicy(facts) \in {"stopped", "frozen", "full"}
  BY DEF VisualPolicy
<1>4. Idle(facts) \in BOOLEAN
  BY DEF Idle
<1>5. {flag \in DOMAIN cfg.inhibit : Inhibits(cfg.inhibit[flag], facts)}
         \in SUBSET {"screen", "suspend"}
  BY RuntimeAssumption
<1> DEFINE flags == {flag \in DOMAIN cfg.inhibit : Inhibits(cfg.inhibit[flag], facts)}
<1>6. (facts.quiet /\ ~facts.interaction) \in BOOLEAN
      /\ (facts.graceOver /\ Visibility(facts) = "inactive") \in BOOLEAN
  OBVIOUS
<1>7. /\ facts.quiet \in BOOLEAN /\ facts.interaction \in BOOLEAN
      /\ facts.agent \in Events \cup {"none", "active"}
      /\ facts.stage \in Stages /\ facts.thermal \in Thermals
  BY DEF AllFacts
<1> HIDE DEF flags
<1> QED
  BY <1>1, <1>2, <1>3, <1>4, <1>5, <1>6, <1>7 DEF Evaluate, Snapshots, flags

LEMMA FactsType ==
    ASSUME NEW m \in Cells, Clock
    PROVE  Facts(m) \in AllFacts
<1>1. /\ m.mapped \in BOOLEAN /\ m.active \in BOOLEAN /\ m.thermal \in Thermals
      /\ m.stage \in Stages /\ m.agent \in Agents
  BY DEF Cells
<1>2. GraceElapsed(m) \in BOOLEAN
  BY <1>1 DEF GraceElapsed
<1>3. StableIdle(m) \in BOOLEAN
  BY DEF StableIdle
<1>4. InteractionActive(m) \in BOOLEAN
  BY DEF InteractionActive, Live
<1>5. QuietHoursActive(m.config, LocalSecond) \in BOOLEAN
  BY DEF QuietHoursActive
<1>6. AgentPhase(m) \in Events \cup {"none", "active"}
  BY <1>1 DEF AgentPhase, Agents, Live
<1> QED
  BY <1>1, <1>2, <1>3, <1>4, <1>5, <1>6 DEF Facts, AllFacts

-----------------------------------------------------------------------------
(* recompute.                                                              *)

\* The deadlines of the cells m have a first.
LEMMA FirstDeadline ==
    ASSUME NEW deadlines \in SUBSET Nat, deadlines # {}
    PROVE  \E first \in deadlines : \A other \in deadlines : first <= other
<1>1. \E first \in deadlines : \A other \in deadlines :
         <<other, first>> \notin {p \in Nat \X Nat : p[1] < p[2]}
  <2>1. IsWellFoundedOn({p \in Nat \X Nat : p[1] < p[2]}, Nat)
    BY NatLessThanWellFounded DEF OpToRel
  <2> QED
    BY <2>1, WFMin
<1>2. PICK first \in deadlines : \A other \in deadlines :
         <<other, first>> \notin {p \in Nat \X Nat : p[1] < p[2]}
  BY <1>1
<1>3. \A other \in deadlines : ~(other < first)
  BY <1>2
<1>4. \A other \in deadlines : first <= other
  <2>1. \A a, b \in Nat : ~(a < b) => b <= a
    OBVIOUS
  <2>2. \A other \in deadlines : other \in Nat /\ first \in Nat
    OBVIOUS
  <2> QED
    BY <1>3, <2>1, <2>2
<1> QED
  BY <1>4

\* The instants of which the deadlines are those ahead.
AllDeadlines(m) ==
    IdleDeadlines(m) \cup GraceDeadlines(m) \cup QuietDeadlines(m)
      \cup Range(m.interactions) \cup {m.lease, m.agent.until}

LEMMA SecondType ==
    ASSUME Clock
    PROVE  LocalSecond \in 0 .. DaySeconds - 1
<1> DEFINE D == DaySeconds
<1>1. D \in Nat \ {0}
  BY Day
<1> HIDE DEF D
<1>2. \A n \in Nat : n % D \in 0 .. D - 1
  BY <1>1
<1>3. midnight + now \in Nat
  BY <1>1 DEF Clock, D
<1> QED
  BY <1>2, <1>3 DEF LocalSecond, D

LEMMA DeadlinesType ==
    ASSUME NEW m \in Cells, Clock
    PROVE  /\ AllDeadlines(m) \subseteq Int
           /\ Deadlines(m) = {d \in AllDeadlines(m) : d > now}
           /\ Deadlines(m) \subseteq Nat
<1>1. /\ m.lastActivity \in Nat /\ m.idleCandidate \in Instants /\ m.inactiveSince \in Instants
      /\ m.lease \in Instants /\ m.agent.until \in Instants /\ m.config \in Configs
  BY DEF Cells, Agents
<1>2. Durations(m.config)
  BY <1>1, ConfigDurations
<1>3. IdleDeadlines(m) \subseteq Int
  BY <1>1, <1>2 DEF IdleDeadlines, Durations, Instants, None
<1>4. GraceDeadlines(m) \subseteq Int
  BY <1>1, <1>2 DEF GraceDeadlines, Durations, Instants, None
<1>5. QuietDeadlines(m) \subseteq Int
  <2>1. QuietWindow(m.config) => SecondsUntilQuietBoundary(m.config, LocalSecond) \in Nat
    BY <1>2, SecondType, Boundary DEF Durations
  <2> QED
    BY <2>1 DEF QuietDeadlines, Clock
<1>6. Range(m.interactions) \subseteq Int
  BY InteractionsType DEF Range
<1>7. AllDeadlines(m) \subseteq Int
  BY <1>1, <1>3, <1>4, <1>5, <1>6 DEF AllDeadlines, Instants, None
<1>8. Deadlines(m) = {d \in AllDeadlines(m) : d > now}
  BY DEF Deadlines, AllDeadlines
<1> QED
  BY <1>7, <1>8 DEF Clock

\* The timer is the first deadline.
LEMMA TimerFirst ==
    ASSUME NEW m \in Cells, Clock
    PROVE  /\ Timer(m) \in Instants
           /\ m.mapped => \A d \in Deadlines(m) : Timer(m) # None /\ Timer(m) <= d
           /\ ~m.mapped => Timer(m) = None
<1>1. CASE ~m.mapped \/ Deadlines(m) = {}
  BY <1>1 DEF Timer, Instants
<1>2. CASE m.mapped /\ Deadlines(m) # {}
  <2>1. Deadlines(m) \in SUBSET Nat
    BY DeadlinesType
  <2>2. \E first \in Deadlines(m) : \A other \in Deadlines(m) : first <= other
    BY <1>2, <2>1, FirstDeadline
  <2>3. /\ Timer(m) \in Deadlines(m)
        /\ \A other \in Deadlines(m) : Timer(m) <= other
    BY <1>2, <2>2 DEF Timer
  <2> QED
    BY <1>2, <2>1, <2>3 DEF Instants, None
<1> QED
  BY <1>1, <1>2

\* What a handler left in the cells, with what is over dropped from them.
Kept(m) ==
    [m EXCEPT !.lease = LeaseKept(m), !.interactions = InteractionsKept(m),
              !.idleCandidate = Candidate(m)]

LEMMA KeptFields ==
    ASSUME NEW m \in Cells, Clock
    PROVE  /\ Kept(m) \in Cells
           /\ Kept(m).lease = LeaseKept(m) /\ Kept(m).interactions = InteractionsKept(m)
           /\ Kept(m).idleCandidate = Candidate(m)
           /\ Kept(m).config = m.config /\ Kept(m).mapped = m.mapped /\ Kept(m).active = m.active
           /\ Kept(m).inactiveSince = m.inactiveSince /\ Kept(m).lastActivity = m.lastActivity
           /\ Kept(m).agent = m.agent /\ Kept(m).thermal = m.thermal /\ Kept(m).stage = m.stage
<1>1. LeaseKept(m) \in Instants
  <2>1. m.lease \in Instants /\ None \in Instants
    BY DEF Cells, Instants
  <2> QED
    BY <2>1 DEF LeaseKept
<1>2. Candidate(m) \in Instants
  BY DEF Candidate, Cells, Instants, Clock
<1>3. InteractionsKept(m) \in UNION {[S -> Nat] : S \in SUBSET Owners}
  <2> DEFINE live == {o \in DOMAIN m.interactions : Live(m.interactions[o])}
  <2>1. live \in SUBSET Owners /\ \A o \in live : m.interactions[o] \in Nat
    BY InteractionsType
  <2>2. InteractionsKept(m) = [o \in live |-> m.interactions[o]]
    BY DEF InteractionsKept
  <2> HIDE DEF live
  <2>3. InteractionsKept(m) \in [live -> Nat]
    BY <2>1, <2>2
  <2> QED
    BY <2>1, <2>3, SomeInteractions
<1> DEFINE lease == LeaseKept(m)
           interactions == InteractionsKept(m)
           candidate == Candidate(m)
<1>4. Kept(m) = [m EXCEPT !.lease = lease, !.interactions = interactions,
                          !.idleCandidate = candidate]
  BY DEF Kept
<1> HIDE DEF lease, interactions, candidate
<1> QED
  BY <1>1, <1>2, <1>3, <1>4 DEF Cells, lease, interactions, candidate

\* Facts, candidate and deadlines do not depend on the snapshot or the timer.
SameCells(m, n) ==
    /\ m.config = n.config /\ m.mapped = n.mapped /\ m.active = n.active
    /\ m.inactiveSince = n.inactiveSince /\ m.lastActivity = n.lastActivity
    /\ m.idleCandidate = n.idleCandidate /\ m.lease = n.lease
    /\ m.interactions = n.interactions /\ m.agent = n.agent /\ m.thermal = n.thermal
    /\ m.stage = n.stage

LEMMA SameFacts ==
    ASSUME NEW m, NEW n, SameCells(m, n)
    PROVE  Facts(m) = Facts(n) /\ Candidate(m) = Candidate(n) /\ Deadlines(m) = Deadlines(n)
<1>1. InteractionActive(m) = InteractionActive(n)
  BY DEF SameCells, InteractionActive
<1>2. EligibleIdle(m) = EligibleIdle(n)
  BY <1>1 DEF SameCells, EligibleIdle
<1>3. Candidate(m) = Candidate(n)
  BY <1>2 DEF SameCells, Candidate
<1>4. StableIdle(m) = StableIdle(n)
  BY <1>3 DEF SameCells, StableIdle
<1>5. GraceElapsed(m) = GraceElapsed(n) /\ AgentPhase(m) = AgentPhase(n)
  BY DEF SameCells, GraceElapsed, AgentPhase
<1>6. QuietHoursActive(m.config, LocalSecond) = QuietHoursActive(n.config, LocalSecond)
  BY DEF SameCells
<1>7. Facts(m) = Facts(n)
  BY <1>1, <1>4, <1>5, <1>6 DEF Facts, SameCells
<1>8. IdleDeadlines(m) = IdleDeadlines(n) /\ GraceDeadlines(m) = GraceDeadlines(n)
      /\ QuietDeadlines(m) = QuietDeadlines(n)
  BY DEF SameCells, IdleDeadlines, GraceDeadlines, QuietDeadlines
<1>9. Deadlines(m) = Deadlines(n)
  BY <1>8 DEF SameCells, Deadlines
<1> QED
  BY <1>3, <1>7, <1>9

\* Dropping what is over changes no fact.
LEMMA KeptFacts ==
    ASSUME NEW m \in Cells, Clock
    PROVE  /\ Facts(Kept(m)) = Facts(m)
           /\ Candidate(Kept(m)) = Candidate(m)
<1> DEFINE k == Kept(m)
<1>1. /\ k.lease = LeaseKept(m) /\ k.interactions = InteractionsKept(m)
      /\ k.idleCandidate = Candidate(m)
      /\ k.config = m.config /\ k.mapped = m.mapped /\ k.active = m.active
      /\ k.inactiveSince = m.inactiveSince /\ k.lastActivity = m.lastActivity
      /\ k.agent = m.agent /\ k.thermal = m.thermal /\ k.stage = m.stage
  BY KeptFields
<1> HIDE DEF k
<1>2. Live(k.lease) <=> Live(m.lease)
  BY <1>1 DEF LeaseKept, Live
<1>3. (\E o \in DOMAIN k.interactions : Live(k.interactions[o]))
        <=> (\E o \in DOMAIN m.interactions : Live(m.interactions[o]))
  BY <1>1 DEF InteractionsKept
<1>4. InteractionActive(k) = InteractionActive(m)
  BY <1>2, <1>3 DEF InteractionActive
<1>5. EligibleIdle(k) = EligibleIdle(m)
  BY <1>1, <1>4 DEF EligibleIdle
<1>6. now # None
  BY DEF Clock, None
<1>7. Candidate(k) = Candidate(m)
  BY <1>1, <1>5, <1>6 DEF Candidate
<1>8. StableIdle(k) = StableIdle(m)
  BY <1>1, <1>7 DEF StableIdle
<1>9. GraceElapsed(k) = GraceElapsed(m) /\ AgentPhase(k) = AgentPhase(m)
  BY <1>1 DEF GraceElapsed, AgentPhase
<1>10. Facts(k) = Facts(m)
  BY <1>1, <1>4, <1>8, <1>9 DEF Facts
<1> QED
  BY <1>7, <1>10 DEF k

\* A snapshot that is what its facts give, and a timer that no change of them precedes.
Covered(m) ==
    /\ m.snapshot = Evaluate(Facts(m), m.config)
    /\ m.idleCandidate = Candidate(m)
    /\ \A d \in Deadlines(m) : m.timer # None /\ m.timer <= d

\* What a hidden window has.
Withheld(m) ==
    /\ m.lease = None /\ DOMAIN m.interactions = {} /\ m.timer = None
    /\ m.snapshot.level = "suspended" /\ m.snapshot.inhibited = {} /\ ~m.snapshot.leased

LEMMA RecomputedFields ==
    ASSUME NEW m \in Cells, Clock
    PROVE  LET r == Recomputed(m)
           IN  /\ r \in Cells /\ r.snapshot \in Snapshots
               /\ SameCells(r, Kept(m))
               /\ r.snapshot = Evaluate(Facts(m), m.config) /\ r.timer = Timer(Kept(m))
               /\ r.mapped = m.mapped /\ r.config = m.config
               /\ r.lease = LeaseKept(m) /\ r.interactions = InteractionsKept(m)
<1> DEFINE k == Kept(m)
           s == Evaluate(Facts(m), m.config)
           t == Timer(k)
           r == Recomputed(m)
<1>1. r = [k EXCEPT !.snapshot = s, !.timer = t]
  BY DEF Recomputed, Kept
<1>2. k \in Cells /\ k.lease = LeaseKept(m) /\ k.interactions = InteractionsKept(m)
      /\ k.config = m.config /\ k.mapped = m.mapped
  BY KeptFields
<1>3. s \in Snapshots
  BY FactsType, EvaluateType DEF Cells
<1>4. t \in Instants
  BY <1>2, TimerFirst
<1> HIDE DEF k, s, t, r
<1>5. r \in Cells /\ r.snapshot = s /\ r.timer = t /\ SameCells(r, k)
  BY <1>1, <1>2, <1>3, <1>4 DEF Cells, SameCells
<1>6. r.lease = k.lease /\ r.interactions = k.interactions /\ r.config = k.config
      /\ r.mapped = k.mapped
  BY <1>5 DEF SameCells
<1> QED
  BY <1>2, <1>3, <1>5, <1>6 DEF k, s, t, r

LEMMA RecomputedCovered ==
    ASSUME NEW m \in Cells, Clock, m.mapped
    PROVE  Covered(Recomputed(m))
<1> DEFINE k == Kept(m)
           r == Recomputed(m)
<1>1. /\ SameCells(r, k) /\ r.snapshot = Evaluate(Facts(m), m.config) /\ r.timer = Timer(k)
      /\ r.config = m.config
  BY RecomputedFields
<1>2. k \in Cells /\ k.idleCandidate = Candidate(m) /\ k.mapped
  BY KeptFields
<1>3. Facts(r) = Facts(m) /\ Candidate(r) = Candidate(m) /\ Deadlines(r) = Deadlines(k)
  BY <1>1, SameFacts, KeptFacts
<1>4. r.idleCandidate = k.idleCandidate
  BY <1>1 DEF SameCells
<1>5. \A d \in Deadlines(k) : Timer(k) # None /\ Timer(k) <= d
  BY <1>2, TimerFirst
<1> HIDE DEF k, r
<1>6. Covered(r)
  BY <1>1, <1>2, <1>3, <1>4, <1>5 DEF Covered
<1> QED
  BY <1>6 DEF r

LEMMA RecomputedWithheld ==
    ASSUME NEW m \in Cells, Clock, ~m.mapped, m.lease = None, DOMAIN m.interactions = {}
    PROVE  Withheld(Recomputed(m))
<1> DEFINE r == Recomputed(m)
<1>1. /\ r.snapshot = Evaluate(Facts(m), m.config) /\ r.timer = Timer(Kept(m))
      /\ r.lease = LeaseKept(m) /\ r.interactions = InteractionsKept(m)
  BY RecomputedFields
<1>2. Kept(m) \in Cells /\ ~Kept(m).mapped
  BY KeptFields
<1>3. r.timer = None
  BY <1>1, <1>2, TimerFirst
<1>4. r.lease = None /\ DOMAIN r.interactions = {}
  BY <1>1 DEF LeaseKept, InteractionsKept
<1>5. ~InteractionActive(m)
  BY DEF InteractionActive, Live
<1>6. ~Facts(m).mapped /\ ~Facts(m).interaction /\ Facts(m).stage \in Stages
  BY <1>5 DEF Facts, Cells
<1> DEFINE f == Facts(m)
<1> HIDE DEF r, f
<1>7. WorkLevel(f) = "suspended"
  <2>1. StageCap(f.stage) \in {"minimal", "reduced", "full"}
        /\ ThermalCap(f.thermal) \in {"minimal", "reduced", "full"}
    BY DEF StageCap, ThermalCap
  <2>2. /\ Strength["suspended"] = 0 /\ Strength["minimal"] = 1
        /\ Strength["reduced"] = 2 /\ Strength["full"] = 3
    BY DEF Strength
  <2>3. ~f.mapped
    BY <1>6 DEF f
  <2> QED
    BY <2>1, <2>2, <2>3 DEF WorkLevel, Lower
<1>8. {flag \in DOMAIN m.config.inhibit : Inhibits(m.config.inhibit[flag], f)} = {}
  <2>1. m.config \in Configs
    BY DEF Cells
  <2>2. \A mode \in InhibitModes : ~Inhibits(mode, f)
    BY <1>6 DEF Inhibits, Visibility, InhibitModes, f
  <2> QED
    BY <2>1, <2>2, RuntimeAssumption
<1>9. /\ r.snapshot.level = WorkLevel(f) /\ r.snapshot.leased = f.interaction
      /\ r.snapshot.inhibited
           = {flag \in DOMAIN m.config.inhibit : Inhibits(m.config.inhibit[flag], f)}
  BY <1>1 DEF Evaluate, f
<1> QED
  BY <1>3, <1>4, <1>6, <1>7, <1>8, <1>9 DEF Withheld, r, f

-----------------------------------------------------------------------------
(* A second that passes before the timer changes no fact.                  *)

LEMMA NextRemainder ==
    ASSUME NEW D \in Nat \ {0}, NEW v \in Nat
    PROVE  (v + 1) % D = IF v % D = D - 1 THEN 0 ELSE (v % D) + 1
<1> DEFINE q == v \div D
           r == v % D
<1>1. q \in Int /\ r \in 0 .. D - 1 /\ v = D * q + r
  OBVIOUS
<1>2. v + 1 = D * q + (r + 1)
  <2> DEFINE p == D * q
  <2>1. p \in Int
    BY <1>1
  <2> HIDE DEF p, r
  <2> QED
    BY <1>1, <2>1 DEF p
<1>3. D * (q + 1) = D * q + D
  <2> HIDE DEF q
  <2> QED
    BY <1>1
<1>4. CASE r = D - 1
  <2>1. v + 1 = D * (q + 1) + 0
    <3> DEFINE p  == D * q
               up == D * (q + 1)
    <3>1. p \in Int /\ up \in Int
      BY <1>1
    <3> HIDE DEF p, r, up
    <3> QED
      BY <1>1, <3>1, <1>2, <1>3, <1>4 DEF p, up
  <2> HIDE DEF q, r
  <2> QED
    BY <2>1, <1>1, <1>4
<1>5. CASE r # D - 1
  <2> HIDE DEF q, r
  <2>1. r + 1 \in 0 .. D - 1
    BY <1>1, <1>5
  <2> QED
    BY <2>1, <1>1, <1>2, <1>5
<1> QED
  BY <1>4, <1>5

LEMMA SecondPasses ==
    ASSUME Clock, Tick
    PROVE  LocalSecond' = (LocalSecond + 1) % DaySeconds
<1> DEFINE D == DaySeconds
           v == midnight + now
<1>1. D \in Nat \ {0} /\ v \in Nat
  BY Day DEF Clock
<1>2. LocalSecond = v % D /\ LocalSecond' = (v + 1) % D
  BY DEF LocalSecond, Tick, Clock
<1> HIDE DEF D, v
<1>3. (v + 1) % D = IF v % D = D - 1 THEN 0 ELSE (v % D) + 1
  BY <1>1, NextRemainder
<1>4. v % D \in 0 .. D - 1
  BY <1>1
<1>5. \A n \in 0 .. D : n % D = IF n = D THEN 0 ELSE n
  BY <1>1
<1> QED
  BY <1>1, <1>2, <1>3, <1>4, <1>5 DEF D, v

LEMMA TickCovered ==
    ASSUME manager \in Cells, Clock, Tick, manager.mapped, Covered(manager), ~Due'
    PROVE  Covered(manager)'
<1> DEFINE m == manager
           later == now + 1
<1>1. now' = later /\ UNCHANGED <<midnight, manager>>
  BY DEF Tick
<1>2. /\ now \in Nat /\ m.lastActivity \in Nat /\ m.idleCandidate \in Instants
      /\ m.inactiveSince \in Instants /\ m.lease \in Instants /\ m.agent.until \in Instants
      /\ m.config \in Configs /\ m.timer \in Instants
  BY DEF Cells, Agents, Clock
<1>3. Durations(m.config)
  BY <1>2, ConfigDurations
<1>4. \A d \in Deadlines(m) : d > later /\ m.timer # None /\ m.timer <= d
  <2>1. m.timer = None \/ m.timer > later
    BY <1>1, <1>2 DEF Due, Instants, None
  <2>2. Deadlines(m) \subseteq Nat
    BY DeadlinesType
  <2> QED
    BY <1>2, <2>1, <2>2 DEF Covered, Instants, None
\* a lease, and every instant in m
<1>5. ASSUME NEW at \in Instants, at \in Range(m.interactions) \cup {m.lease, m.agent.until}
      PROVE  Live(at)' <=> Live(at)
  <2>1. at > now => at \in Deadlines(m)
    BY <1>5 DEF Deadlines
  <2>2. at > now => at > later
    BY <1>4, <2>1
  <2> QED
    BY <1>1, <1>2, <1>5, <2>2 DEF Live, Instants, None
<1>6. Live(m.lease)' <=> Live(m.lease)
  BY <1>1, <1>2, <1>5
<1>7. Live(m.agent.until)' <=> Live(m.agent.until)
  BY <1>1, <1>2, <1>5
<1>8. \A o \in DOMAIN m.interactions : Live(m.interactions[o])' <=> Live(m.interactions[o])
  <2> SUFFICES ASSUME NEW o \in DOMAIN m.interactions
               PROVE  Live(m.interactions[o])' <=> Live(m.interactions[o])
    BY <1>1
  <2>1. m.interactions[o] \in Instants /\ m.interactions[o] \in Range(m.interactions)
    BY InteractionsType DEF Range, Instants
  <2> QED
    BY <1>1, <1>5, <2>1
<1>9. InteractionActive(m)' <=> InteractionActive(m)
  BY <1>1, <1>6, <1>8 DEF InteractionActive
<1>10. ASSUME NEW at \in Instants, NEW wait \in Nat, at # None,
              at + wait > now => at + wait > later
       PROVE  now' - at >= wait <=> now - at >= wait
  BY <1>1, <1>2, <1>10 DEF Instants, None
<1>11. GraceElapsed(m)' <=> GraceElapsed(m)
  <2>1. CASE m.inactiveSince = None
    BY <1>1, <2>1 DEF GraceElapsed
  <2>2. CASE m.inactiveSince # None
    <3>1. m.inactiveSince + m.config.grace \in GraceDeadlines(m)
      BY <2>2 DEF GraceDeadlines
    <3>2. m.inactiveSince + m.config.grace > now => m.inactiveSince + m.config.grace > later
      BY <1>4, <3>1 DEF Deadlines
    <3>3. now' - m.inactiveSince >= m.config.grace <=> now - m.inactiveSince >= m.config.grace
      BY <1>2, <1>3, <1>10, <2>2, <3>2 DEF Durations
    <3> QED
      BY <1>1, <3>3 DEF GraceElapsed
  <2> QED
    BY <2>1, <2>2
<1> DEFINE idleAt == m.lastActivity + m.config.idleTimeout
<1>12. idleAt \in Nat /\ (idleAt > now => idleAt > later)
  <2>1. idleAt > now => idleAt \in IdleDeadlines(m)
    BY DEF IdleDeadlines
  <2>2. idleAt > now => idleAt > later
    BY <1>4, <2>1 DEF Deadlines
  <2> QED
    BY <1>2, <1>3, <2>2 DEF Durations
<1>13. EligibleIdle(m)' <=> EligibleIdle(m)
  <2>1. now' - m.lastActivity >= m.config.idleTimeout <=> now - m.lastActivity >= m.config.idleTimeout
    BY <1>1, <1>2, <1>3, <1>12 DEF Durations
  <2> QED
    BY <1>1, <1>9, <2>1 DEF EligibleIdle
<1>14. Candidate(m)' = Candidate(m)
  <2>1. m.idleCandidate = Candidate(m)
    BY DEF Covered
  <2>2. EligibleIdle(m) => m.idleCandidate # None
    BY <1>2, <2>1 DEF Candidate, None
  <2> QED
    BY <1>1, <1>13, <2>2 DEF Candidate
<1>15. StableIdle(m)' <=> StableIdle(m)
  <2>1. m.idleCandidate = Candidate(m)
    BY DEF Covered
  <2>2. CASE Candidate(m) = None
    BY <1>14, <2>2 DEF StableIdle
  <2>3. CASE Candidate(m) # None
    <3>1. EligibleIdle(m)
      BY <2>3 DEF Candidate
    <3>2. ~(idleAt > now)
      BY <1>2, <1>3, <3>1 DEF EligibleIdle, Durations
    <3>3. m.idleCandidate + m.config.idleStability \in IdleDeadlines(m)
      BY <2>1, <2>3, <3>2 DEF IdleDeadlines
    <3>4. m.idleCandidate + m.config.idleStability > now
            => m.idleCandidate + m.config.idleStability > later
      BY <1>4, <3>3 DEF Deadlines
    <3>5. now' - m.idleCandidate >= m.config.idleStability
            <=> now - m.idleCandidate >= m.config.idleStability
      BY <1>2, <1>3, <1>10, <2>1, <2>3, <3>4 DEF Durations
    <3> QED
      BY <1>1, <1>14, <2>1, <3>5 DEF StableIdle
  <2> QED
    BY <2>2, <2>3
<1>16. AgentPhase(m)' = AgentPhase(m)
  BY <1>1, <1>7 DEF AgentPhase
<1>17. QuietWindow(m.config) =>
         /\ QuietHoursActive(m.config, LocalSecond)' <=> QuietHoursActive(m.config, LocalSecond)
         /\ (now + SecondsUntilQuietBoundary(m.config, LocalSecond))'
              = now + SecondsUntilQuietBoundary(m.config, LocalSecond)
  <2> SUFFICES ASSUME QuietWindow(m.config)
               PROVE  /\ QuietHoursActive(m.config, LocalSecond)'
                           <=> QuietHoursActive(m.config, LocalSecond)
                      /\ (now + SecondsUntilQuietBoundary(m.config, LocalSecond))'
                           = now + SecondsUntilQuietBoundary(m.config, LocalSecond)
    OBVIOUS
  <2> DEFINE ahead == SecondsUntilQuietBoundary(m.config, LocalSecond)
             next  == (LocalSecond + 1) % DaySeconds
  <2>1. LocalSecond \in 0 .. DaySeconds - 1 /\ LocalSecond' = next
    BY SecondType, SecondPasses
  <2>2. m.config.quietStart \in Nat /\ m.config.quietEnd \in Nat
    BY <1>3 DEF Durations
  <2>3. /\ ahead \in Nat \ {0}
        /\ QuietHoursActive(m.config, LocalSecond) # QuietHoursActive(m.config, next) <=> ahead = 1
        /\ ahead # 1 => SecondsUntilQuietBoundary(m.config, next) = ahead - 1
    BY <2>1, <2>2, Boundary
  <2>4. now + ahead \in QuietDeadlines(m)
    BY DEF QuietDeadlines
  <2>5. ahead # 1
    <3> HIDE DEF ahead
    <3>1. now + ahead > now => now + ahead > later
      BY <1>4, <2>4 DEF Deadlines
    <3> QED
      BY <1>2, <2>3, <3>1
  <2>6. QuietHoursActive(m.config, LocalSecond)' = QuietHoursActive(m.config, next)
    BY <1>1, <2>1 DEF QuietHoursActive, QuietWindow
  <2>7. SecondsUntilQuietBoundary(m.config, LocalSecond)'
          = SecondsUntilQuietBoundary(m.config, next)
    BY <1>1, <2>1 DEF SecondsUntilQuietBoundary, SecondsUntil
  <2> HIDE DEF ahead, next
  <2>8. now' + (ahead - 1) = now + ahead
    BY <1>1, <1>2, <2>3
  <2> QED
    BY <2>3, <2>5, <2>6, <2>7, <2>8 DEF ahead
<1>18. QuietHoursActive(m.config, LocalSecond)' = QuietHoursActive(m.config, LocalSecond)
  <2>1. QuietHoursActive(m.config, LocalSecond) \in BOOLEAN
        /\ QuietHoursActive(m.config, LocalSecond)' \in BOOLEAN
    BY DEF QuietHoursActive
  <2>2. ~QuietWindow(m.config) => ~QuietHoursActive(m.config, LocalSecond)
                                  /\ ~QuietHoursActive(m.config, LocalSecond)'
    BY <1>1 DEF QuietHoursActive, QuietWindow
  <2> QED
    BY <1>17, <2>1, <2>2
<1>19. Facts(m)' = Facts(m)
  <2>1. /\ GraceElapsed(m)' = GraceElapsed(m) /\ StableIdle(m)' = StableIdle(m)
        /\ InteractionActive(m)' = InteractionActive(m)
    <3>1. /\ GraceElapsed(m) \in BOOLEAN /\ GraceElapsed(m)' \in BOOLEAN
          /\ StableIdle(m) \in BOOLEAN /\ StableIdle(m)' \in BOOLEAN
          /\ InteractionActive(m) \in BOOLEAN /\ InteractionActive(m)' \in BOOLEAN
      BY <1>1 DEF GraceElapsed, StableIdle, InteractionActive, Live, Cells
    <3> QED
      BY <1>9, <1>11, <1>15, <3>1
  <2> QED
    BY <1>1, <1>16, <1>18, <2>1 DEF Facts
<1>20. Deadlines(m)' \subseteq Deadlines(m)
  <2> SUFFICES ASSUME NEW d \in Deadlines(m)'
               PROVE  d \in Deadlines(m)
    OBVIOUS
  <2>1. d > later
    BY <1>1 DEF Deadlines
  <2>2. d \in IdleDeadlines(m)' => d \in AllDeadlines(m)
    <3>1. idleAt > later <=> idleAt > now
      BY <1>2, <1>12
    <3>2. IdleDeadlines(m)' = IdleDeadlines(m)
      BY <1>1, <3>1 DEF IdleDeadlines
    <3> QED
      BY <3>2 DEF AllDeadlines
  <2>3. d \in GraceDeadlines(m)' => d \in AllDeadlines(m)
    BY <1>1 DEF GraceDeadlines, AllDeadlines
  <2>4. d \in QuietDeadlines(m)' => d \in AllDeadlines(m)
    <3>1. QuietWindow(m.config)' <=> QuietWindow(m.config)
      BY <1>1 DEF QuietWindow
    <3> QED
      BY <1>17, <3>1 DEF QuietDeadlines, AllDeadlines
  <2>5. d \in (Range(m.interactions) \cup {m.lease, m.agent.until})' => d \in AllDeadlines(m)
    BY <1>1 DEF Range, AllDeadlines
  <2>6. d \in (IdleDeadlines(m) \cup GraceDeadlines(m) \cup QuietDeadlines(m)
                 \cup Range(m.interactions) \cup {m.lease, m.agent.until})'
    BY DEF Deadlines
  <2>7. d \in AllDeadlines(m)
    BY <2>2, <2>3, <2>4, <2>5, <2>6
  <2>8. d \in Int /\ d > now
    BY <1>2, <2>1, <2>7, DeadlinesType
  <2> QED
    BY <2>7, <2>8, DeadlinesType
<1> QED
  BY <1>1, <1>4, <1>14, <1>19, <1>20 DEF Covered

-----------------------------------------------------------------------------
(* The invariant.                                                          *)

\* The last grant, and what it may last, for the cells m.
Allowed(m, grant) ==
    /\ grant.at \in Instants /\ grant.at <= now
    /\ \A at \in Range(m.interactions) \cup {m.lease} :
          at # None => grant.at # None /\ at <= grant.at + Longest

Typed      == Clock /\ manager \in Cells /\ manager.snapshot \in Snapshots
Covering   == manager.mapped /\ ~down => Due \/ Covered(manager)
Hiding     == ~manager.mapped => Withheld(manager)
Granting   == Allowed(manager, granted)
Remembering == order \in Seq(Events) /\ IsInjective(order) /\ Len(order) <= MaxSeen

Queues  == {<<>>} \cup {<<s>> : s \in Snapshots}

Telling ==
    /\ channel \in [Consumers -> [open : BOOLEAN, pending : Queues, last : Queues]]
    /\ held \subseteq {"screen", "suspend"}
    /\ Delivered /\ InhibitorFollows

IInv == Typed /\ Covering /\ Hiding /\ Granting /\ Remembering /\ Telling

\* What holds of cells holds of them when the clock has not moved.
LEMMA CoveredNext ==
    ASSUME NEW m, Covered(m), manager' = m, now' = now, midnight' = midnight
    PROVE  Covered(manager)'
<1>1. LocalSecond' = LocalSecond
  BY DEF LocalSecond
<1>2. \A at : Live(at)' <=> Live(at)
  BY DEF Live
<1>3. InteractionActive(manager)' = InteractionActive(m)
  BY <1>2 DEF InteractionActive
<1>4. EligibleIdle(manager)' = EligibleIdle(m)
  BY <1>3 DEF EligibleIdle
<1>5. Candidate(manager)' = Candidate(m)
  BY <1>4 DEF Candidate
<1>6. StableIdle(manager)' = StableIdle(m)
  BY <1>5 DEF StableIdle
<1>7. GraceElapsed(manager)' = GraceElapsed(m)
  BY DEF GraceElapsed
<1>8. AgentPhase(manager)' = AgentPhase(m)
  BY <1>2 DEF AgentPhase
<1>9. QuietHoursActive(manager.config, LocalSecond)' = QuietHoursActive(m.config, LocalSecond)
  BY <1>1 DEF QuietHoursActive, QuietWindow
<1>10. Facts(manager)' = Facts(m)
  BY <1>3, <1>6, <1>7, <1>8, <1>9 DEF Facts
<1>11. IdleDeadlines(manager)' = IdleDeadlines(m) /\ GraceDeadlines(manager)' = GraceDeadlines(m)
  BY DEF IdleDeadlines, GraceDeadlines
<1>12. QuietDeadlines(manager)' = QuietDeadlines(m)
  BY <1>1 DEF QuietDeadlines, QuietWindow, SecondsUntilQuietBoundary, SecondsUntil
<1>13. Deadlines(manager)' = Deadlines(m)
  BY <1>11, <1>12 DEF Deadlines, Range
<1> QED
  BY <1>5, <1>10, <1>13 DEF Covered

\* Subscribers are told of the cells that recompute left.
LEMMA RecomputeTells ==
    ASSUME Telling, manager.snapshot \in Snapshots, NEW m \in Cells, Clock, Recompute(m)
    PROVE  Telling'
<1> DEFINE next == Recomputed(m)
<1>1. next.snapshot \in Snapshots
  BY RecomputedFields
<1>2. /\ manager' = next /\ UNCHANGED <<held, inhibitors>>
      /\ channel' = IF next.snapshot = manager.snapshot THEN channel ELSE Broadcast(next.snapshot)
  BY DEF Recompute
<1> HIDE DEF next
<1>3. CASE next.snapshot = manager.snapshot
  BY <1>2, <1>3 DEF Telling, Delivered, InhibitorFollows
<1>4. CASE next.snapshot # manager.snapshot
  <2>1. \A c \in Consumers :
           /\ channel[c].open => channel'[c] = [channel[c] EXCEPT !.pending = <<next.snapshot>>,
                                                                 !.last = <<>>]
           /\ ~channel[c].open => channel'[c] = channel[c]
    BY <1>2, <1>4 DEF Broadcast
  <2>2. channel' = [c \in Consumers |-> channel'[c]]
    BY <1>2, <1>4 DEF Broadcast
  <2>3. <<next.snapshot>> \in Queues /\ <<>> \in Queues /\ <<next.snapshot>> # <<>>
    BY <1>1 DEF Queues
  <2>4. \A c \in Consumers : channel[c] \in [open : BOOLEAN, pending : Queues, last : Queues]
    BY DEF Telling
  <2>5. \A c \in Consumers :
           /\ channel'[c] \in [open : BOOLEAN, pending : Queues, last : Queues]
           /\ channel'[c].open = channel[c].open
           /\ channel'[c].open => channel'[c].pending = <<next.snapshot>>
    <3> SUFFICES ASSUME NEW c \in Consumers
                 PROVE  /\ channel'[c] \in [open : BOOLEAN, pending : Queues, last : Queues]
                        /\ channel'[c].open = channel[c].open
                        /\ channel'[c].open => channel'[c].pending = <<next.snapshot>>
      OBVIOUS
    <3> DEFINE old == channel[c]
               new == channel'[c]
               queue == <<next.snapshot>>
    <3>1. old \in [open : BOOLEAN, pending : Queues, last : Queues] /\ queue \in Queues
          /\ <<>> \in Queues
      BY <2>3, <2>4
    <3>2. (old.open => new = [old EXCEPT !.pending = queue, !.last = <<>>])
          /\ (~old.open => new = old)
      BY <2>1
    <3> HIDE DEF old, new, queue
    <3>3. new \in [open : BOOLEAN, pending : Queues, last : Queues] /\ new.open = old.open
          /\ (new.open => new.pending = queue)
      BY <3>1, <3>2
    <3> QED
      BY <3>3 DEF old, new, queue
  <2>6. channel' \in [Consumers -> [open : BOOLEAN, pending : Queues, last : Queues]]
    BY <2>2, <2>5
  <2>7. Delivered'
    BY <1>2, <2>3, <2>5 DEF Delivered
  <2>8. InhibitorFollows'
    BY <1>2, <2>3, <2>5, RuntimeAssumption DEF InhibitorFollows, Telling
  <2> QED
    BY <1>2, <2>6, <2>7, <2>8 DEF Telling
<1> QED
  BY <1>3, <1>4

\* A handler that leaves m in the cells keeps the invariant.
LEMMA HandlerStep ==
    ASSUME IInv, ~down, NEW m \in Cells, Recompute(m),
           ~m.mapped => m.lease = None /\ DOMAIN m.interactions = {},
           Allowed(m, granted'), Remembering'
    PROVE  IInv'
<1> DEFINE next == Recomputed(m)
<1>1. Clock
  BY DEF IInv, Typed
<1>2. /\ next \in Cells /\ next.snapshot \in Snapshots
      /\ next.mapped = m.mapped /\ next.lease = LeaseKept(m)
      /\ next.interactions = InteractionsKept(m)
  BY <1>1, RecomputedFields
<1>3. manager' = next /\ UNCHANGED <<now, midnight, down>>
  BY DEF Recompute
<1>4. m.mapped => Covered(next)
  BY <1>1, RecomputedCovered
<1>5. ~m.mapped => Withheld(next)
  BY <1>1, RecomputedWithheld
<1>6. Telling'
  BY <1>1, RecomputeTells DEF IInv, Typed
<1> HIDE DEF next
<1>7. Typed'
  BY <1>1, <1>2, <1>3 DEF Typed, Clock
<1>8. Covering'
  BY <1>2, <1>3, <1>4, CoveredNext DEF Covering
<1>9. Hiding'
  BY <1>2, <1>3, <1>5 DEF Hiding, Withheld
<1>10. Granting'
  <2>1. next.lease \in {None, m.lease}
    BY <1>2 DEF LeaseKept
  <2>2. Range(next.interactions) \subseteq Range(m.interactions)
    BY <1>2 DEF InteractionsKept, Range
  <2>3. Range(next.interactions) \cup {next.lease} \subseteq Range(m.interactions) \cup {m.lease, None}
    BY <2>1, <2>2
  <2>4. Allowed(next, granted')
    BY <2>3 DEF Allowed
  <2> QED
    BY <1>3, <2>4 DEF Granting, Allowed, Range
<1> QED
  BY <1>6, <1>7, <1>8, <1>9, <1>10 DEF IInv

\* A handler that grants nothing, and takes nothing longer into the cells.
LEMMA GrantKept ==
    ASSUME IInv, UNCHANGED granted, NEW m,
           Range(m.interactions) \cup {m.lease}
             \subseteq Range(manager.interactions) \cup {manager.lease, None}
    PROVE  Allowed(m, granted')
BY DEF IInv, Granting, Allowed

-----------------------------------------------------------------------------
(* The handlers.                                                           *)

\* What every handler finds.
LEMMA Found ==
    ASSUME IInv
    PROVE  /\ Clock /\ manager \in Cells /\ manager.config \in Configs
           /\ ~manager.mapped => manager.lease = None /\ DOMAIN manager.interactions = {}
           /\ DOMAIN manager.interactions \subseteq Owners
           /\ manager.interactions \in [DOMAIN manager.interactions -> Nat]
           /\ granted.at \in Instants /\ granted.at <= now
           /\ now \in Instants /\ None \in Instants
BY InteractionsType DEF IInv, Typed, Hiding, Withheld, Granting, Allowed, Cells, Clock, Instants

\* Activity of a visible window grants its lease.
LEMMA ActivityStep ==
    ASSUME IInv, ~down, Recompute(Active(manager)), UNCHANGED order,
           granted'.at = IF manager.mapped THEN now ELSE granted.at
    PROVE  IInv'
<1> DEFINE m    == Active(manager)
           until == now + manager.config.lease
<1>1. until \in Nat /\ until <= now + Longest
  BY Found, LongestLease, ConfigDurations DEF Durations, Clock
<1>2. m = [manager EXCEPT !.lastActivity = now, !.idleCandidate = None,
                          !.lease = IF manager.mapped THEN until ELSE manager.lease]
  BY DEF Active
<1> HIDE DEF m, until
<1>3. until \in Instants /\ now \in Nat
  BY <1>1, Found DEF Instants, Clock
<1>4. /\ m \in Cells /\ m.interactions = manager.interactions /\ m.mapped = manager.mapped
      /\ m.lease = IF manager.mapped THEN until ELSE manager.lease
  BY <1>2, <1>3, Found DEF Cells
<1>5. Allowed(m, granted')
  <2>1. CASE manager.mapped
    <3>1. granted'.at = now /\ now # None
      BY <2>1, <1>3 DEF None
    <3>2. ASSUME NEW at \in Range(m.interactions) \cup {m.lease}, at # None
          PROVE  at <= now + Longest
      <4>1. CASE at = m.lease
        BY <1>1, <1>4, <2>1, <4>1
      <4>2. CASE at \in Range(manager.interactions)
        <5>1. granted.at # None /\ at <= granted.at + Longest
          BY <3>2, <4>2 DEF IInv, Granting, Allowed
        <5>2. at \in Nat /\ granted.at \in Instants /\ granted.at <= now
          BY <4>2, Found DEF Range
        <5> QED
          BY <5>1, <5>2, <1>3, LongestLease DEF Instants, None
      <4> QED
        BY <3>2, <1>4, <4>1, <4>2
    <3> QED
      BY <3>1, <3>2, <1>3, Found DEF Allowed
  <2>2. CASE ~manager.mapped
    <3>1. granted'.at = granted.at /\ m.lease = None /\ DOMAIN m.interactions = {}
      BY <2>2, <1>4, Found
    <3>2. Range(m.interactions) = {}
      BY <3>1 DEF Range
    <3> QED
      BY <3>1, <3>2, Found DEF Allowed
  <2> QED
    BY <2>1, <2>2
<1>6. Recompute(m) /\ Remembering'
  BY DEF m, IInv, Remembering
<1> QED
  BY <1>4, <1>5, <1>6, Found, HandlerStep

LEMMA ReportActivityStep == ASSUME IInv, ~down, ReportActivity PROVE IInv'
<1>1. granted'.at = IF manager.mapped THEN now ELSE granted.at
  BY DEF ReportActivity
<1> QED
  BY <1>1, ActivityStep DEF ReportActivity

LEMMA RebuildPagesStep == ASSUME IInv, ~down, RebuildPages PROVE IInv'
<1>1. granted'.at = IF manager.mapped THEN now ELSE granted.at
  BY DEF RebuildPages
<1> QED
  BY <1>1, ActivityStep DEF RebuildPages

\* A handler that keeps the leases and the window.
LEMMA LeasesKeptStep ==
    ASSUME IInv, ~down, NEW m \in Cells, Recompute(m), UNCHANGED granted, Remembering',
           m.lease = manager.lease, m.interactions = manager.interactions,
           m.mapped = manager.mapped
    PROVE  IInv'
<1>1. Allowed(m, granted')
  BY GrantKept
<1> QED
  BY <1>1, Found, HandlerStep

LEMMA SetMappedStep == ASSUME IInv, ~down, SetMapped PROVE IInv'
<1>1. Remembering' /\ UNCHANGED granted
  BY DEF SetMapped, IInv, Remembering
<1>2. CASE manager.mapped
  <2> DEFINE m == Hidden(manager)
             none == <<>>
  <2>1. m = [manager EXCEPT !.mapped = FALSE, !.lease = None, !.interactions = none]
    BY DEF Hidden
  <2>2. none \in UNION {[S -> Nat] : S \in SUBSET Owners} /\ DOMAIN none = {}
    <3>1. none \in [{} -> Nat] /\ {} \in SUBSET Owners
      BY NoInteractions
    <3> QED
      BY <3>1, NoInteractions, SomeInteractions
  <2> HIDE DEF m, none
  <2>3. m \in Cells /\ ~m.mapped /\ m.lease = None /\ m.interactions = none
    BY <2>1, <2>2, Found DEF Cells
  <2>4. Range(m.interactions) = {}
    BY <2>2, <2>3 DEF Range
  <2>5. Allowed(m, granted')
    BY <1>1, <2>3, <2>4, Found DEF Allowed
  <2>6. Recompute(m)
    BY <1>2 DEF SetMapped, m
  <2> QED
    BY <1>1, <2>2, <2>3, <2>5, <2>6, HandlerStep
<1>3. CASE ~manager.mapped
  <2> DEFINE m == [manager EXCEPT !.mapped = TRUE]
  <2>1. m \in Cells /\ m.mapped /\ m.lease = manager.lease /\ m.interactions = manager.interactions
    BY Found DEF Cells
  <2>2. Recompute(m)
    BY <1>3 DEF SetMapped
  <2> HIDE DEF m
  <2>3. Allowed(m, granted')
    BY <1>1, <2>1, GrantKept
  <2> QED
    BY <1>1, <2>1, <2>2, <2>3, HandlerStep
<1> QED
  BY <1>2, <1>3

LEMMA SetActiveStep == ASSUME IInv, ~down, SetActive PROVE IInv'
<1> DEFINE left == IF manager.active THEN now ELSE None
           m == [manager EXCEPT !.active = ~@, !.inactiveSince = left]
<1>1. left \in Instants
  BY Found
<1>2. Recompute(m) /\ UNCHANGED granted /\ Remembering'
  BY DEF SetActive, IInv, Remembering
<1> HIDE DEF left
<1>3. m \in Cells /\ m.lease = manager.lease /\ m.interactions = manager.interactions
      /\ m.mapped = manager.mapped
  BY <1>1, Found DEF Cells
<1> HIDE DEF m
<1> QED
  BY <1>2, <1>3, LeasesKeptStep

LEMMA SetThermalStep ==
    ASSUME IInv, ~down, NEW thermal \in Temperatures, SetThermal(thermal) PROVE IInv'
<1> DEFINE m == [manager EXCEPT !.thermal = thermal]
<1>1. Recompute(m) /\ UNCHANGED granted /\ Remembering'
  BY DEF SetThermal, IInv, Remembering
<1>2. thermal \in Thermals
  BY RuntimeAssumption
<1>3. m \in Cells /\ m.lease = manager.lease /\ m.interactions = manager.interactions
      /\ m.mapped = manager.mapped
  BY <1>2, Found DEF Cells
<1> HIDE DEF m
<1> QED
  BY <1>1, <1>3, LeasesKeptStep

LEMMA SetPowerSourceStep == ASSUME IInv, ~down, SetPowerSource PROVE IInv'
<1>1. Recompute(manager) /\ UNCHANGED granted /\ Remembering'
  BY DEF SetPowerSource, IInv, Remembering
<1> QED
  BY <1>1, Found, LeasesKeptStep

LEMMA StageType ==
    ASSUME NEW reading, NEW stage \in Stages, NEW t
    PROVE  BatteryStageFor(reading, stage, t) \in Stages
BY DEF BatteryStageFor, Stages

LEMMA SetBatteryCapacityStep ==
    ASSUME IInv, ~down, NEW reading \in Capacities, SetBatteryCapacity(reading) PROVE IInv'
<1> DEFINE stage == BatteryStageFor(reading, manager.stage, manager.config.thresholds)
           m == [manager EXCEPT !.capacity = reading, !.stage = stage]
<1>1. Recompute(m) /\ UNCHANGED granted /\ Remembering'
  BY DEF SetBatteryCapacity, IInv, Remembering
<1>2. stage \in Stages
  BY Found, StageType DEF Cells
<1> HIDE DEF stage
<1>3. m \in Cells /\ m.lease = manager.lease /\ m.interactions = manager.interactions
      /\ m.mapped = manager.mapped
  BY <1>2, Found DEF Cells
<1> HIDE DEF m
<1> QED
  BY <1>1, <1>3, LeasesKeptStep

\* A lease that is running becomes no longer by a configuration.
LEMMA UpdateConfigStep ==
    ASSUME IInv, ~down, NEW cfg \in Configs, UpdateConfig(cfg) PROVE IInv'
<1> DEFINE m       == Reconfigured(manager, cfg)
           maximum == now + cfg.lease
           stage   == IF manager.capacity = None THEN manager.stage
                      ELSE BatteryStageFor(manager.capacity, manager.stage, cfg.thresholds)
           lease   == IF Live(manager.lease) THEN Sooner(manager.lease, maximum) ELSE manager.lease
           live    == {o \in DOMAIN manager.interactions : Live(manager.interactions[o])}
           rest    == [o \in live |-> Sooner(manager.interactions[o], maximum)]
<1>1. maximum \in Nat
  BY Found, ConfigDurations DEF Durations, Clock
<1>2. m = [manager EXCEPT !.config = cfg, !.stage = stage, !.lease = lease, !.interactions = rest]
  BY DEF Reconfigured
<1>3. stage \in Stages
  BY Found, StageType DEF Cells
<1>4. manager.lease \in Instants
  BY Found DEF Cells
<1>5. lease \in Instants /\ (manager.lease = None => lease = None)
      /\ (lease # None => manager.lease # None /\ lease <= manager.lease)
  <2> HIDE DEF maximum
  <2> QED
    BY <1>1, <1>4 DEF Sooner, Live, Instants, None
<1>6. live \in SUBSET Owners /\ \A o \in live : manager.interactions[o] \in Nat
  BY Found
<1>7. /\ rest \in [live -> Nat] /\ DOMAIN rest = live
      /\ \A o \in live : rest[o] <= manager.interactions[o]
  <2> HIDE DEF maximum, live
  <2> QED
    BY <1>1, <1>6 DEF Sooner
<1>8. rest \in UNION {[S -> Nat] : S \in SUBSET Owners}
  <2> HIDE DEF rest, live
  <2> QED
    BY <1>6, <1>7, SomeInteractions
<1>9. Recompute(m) /\ UNCHANGED granted /\ Remembering'
  BY DEF UpdateConfig, IInv, Remembering
<1>10. live \subseteq DOMAIN manager.interactions
  OBVIOUS
<1> HIDE DEF m, maximum, stage, lease, live, rest
<1>11. m \in Cells /\ m.lease = lease /\ m.interactions = rest /\ m.mapped = manager.mapped
  BY <1>2, <1>3, <1>5, <1>8, Found DEF Cells
<1>12. ~m.mapped => m.lease = None /\ DOMAIN m.interactions = {}
  BY <1>5, <1>7, <1>10, <1>11, Found
<1>13. Allowed(m, granted')
  <2> SUFFICES ASSUME NEW at \in Range(m.interactions) \cup {m.lease}, at # None
               PROVE  granted.at # None /\ at <= granted.at + Longest
    BY <1>9, Found DEF Allowed
  <2>1. PICK old \in Range(manager.interactions) \cup {manager.lease} :
           old # None /\ old \in Instants /\ at <= old /\ at \in Instants
    <3>1. CASE at = m.lease
      BY <1>4, <1>5, <1>11, <3>1
    <3>2. CASE at \in Range(m.interactions)
      <4>1. PICK o \in live : at = rest[o]
        BY <1>7, <1>11, <3>2 DEF Range
      <4>2. manager.interactions[o] \in Range(manager.interactions)
            /\ manager.interactions[o] \in Nat
        BY <1>6, <1>10, <4>1 DEF Range
      <4>3. at <= manager.interactions[o] /\ at \in Nat
        BY <1>7, <4>1
      <4> QED
        BY <4>2, <4>3 DEF Instants, None
    <3> QED
      BY <3>1, <3>2
  <2>2. granted.at # None /\ old <= granted.at + Longest
    BY <2>1 DEF IInv, Granting, Allowed
  <2> QED
    BY <2>1, <2>2, Found, LongestLease DEF Instants, None
<1> QED
  BY <1>9, <1>11, <1>12, <1>13, HandlerStep

LEMMA BeginInteractionStep ==
    ASSUME IInv, ~down, NEW o \in Owners, NEW duration \in Desired, BeginInteraction(o, duration)
    PROVE  IInv'
<1> DEFINE left     == DOMAIN manager.interactions \ {o}
           others   == [p \in left |-> manager.interactions[p]]
           deadline == now + Sooner(duration, manager.config.lease)
           both     == [p \in left \cup {o} |-> IF p = o THEN deadline ELSE others[p]]
           after    == IF manager.mapped THEN both ELSE others
           m        == [manager EXCEPT !.interactions = after]
<1>1. deadline \in Nat /\ deadline <= now + Longest
  <2>1. duration \in Nat /\ manager.config.lease \in Nat /\ manager.config.lease <= Longest
    BY RuntimeAssumption, Found, LongestLease, ConfigDurations DEF Durations
  <2>2. Sooner(duration, manager.config.lease) \in Nat
        /\ Sooner(duration, manager.config.lease) <= Longest
    BY <2>1, LongestLease DEF Sooner
  <2> QED
    BY <2>2, Found, LongestLease DEF Clock
<1>2. Recompute(m) /\ Remembering'
      /\ granted' = IF manager.mapped THEN [at |-> now, input |-> TRUE] ELSE granted
  <2>1. DOMAIN others = left
    OBVIOUS
  <2> QED
    BY <2>1 DEF BeginInteraction, IInv, Remembering
<1>3. left \subseteq DOMAIN manager.interactions /\ left \in SUBSET Owners
      /\ \A p \in left : manager.interactions[p] \in Nat
  BY Found
<1> HIDE DEF left, deadline
<1>4. others \in [left -> Nat] /\ both \in [left \cup {o} -> Nat] /\ left \cup {o} \in SUBSET Owners
  BY <1>1, <1>3
<1>5. after \in UNION {[S -> Nat] : S \in SUBSET Owners}
  <2>1. others \in UNION {[S -> Nat] : S \in SUBSET Owners}
    BY <1>3, <1>4
  <2>2. both \in UNION {[S -> Nat] : S \in SUBSET Owners}
    BY <1>4
  <2> HIDE DEF others, both
  <2> QED
    BY <2>1, <2>2
<1>6. Range(after) \subseteq Range(manager.interactions) \cup (IF manager.mapped THEN {deadline} ELSE {})
  <2>1. Range(others) \subseteq Range(manager.interactions)
    BY <1>3 DEF Range
  <2>2. Range(both) \subseteq Range(manager.interactions) \cup {deadline}
    BY <1>3 DEF Range
  <2> HIDE DEF others, both
  <2> QED
    BY <2>1, <2>2
<1>7. ~manager.mapped => DOMAIN after = {}
  BY <1>3, Found
<1> HIDE DEF after
<1>8. m \in Cells /\ m.interactions = after /\ m.lease = manager.lease /\ m.mapped = manager.mapped
  BY <1>5, Found DEF Cells
<1> HIDE DEF m
<1>9. Allowed(m, granted')
  <2>1. CASE manager.mapped
    <3>1. granted'.at = now /\ now # None /\ now \in Nat
      BY <1>2, <2>1, Found DEF None, Clock
    <3>2. ASSUME NEW at \in Range(m.interactions) \cup {m.lease}, at # None
          PROVE  at <= now + Longest
      <4>1. CASE at = deadline
        BY <1>1, <4>1
      <4>2. CASE at \in Range(manager.interactions) \cup {manager.lease}
        <5>1. granted.at # None /\ at <= granted.at + Longest
          BY <3>2, <4>2 DEF IInv, Granting, Allowed
        <5>2. at \in Int /\ granted.at \in Instants /\ granted.at <= now
          <6>1. manager.lease \in Instants
            BY Found DEF Cells
          <6> QED
            BY <4>2, <6>1, Found DEF Range, Instants, None
        <5> QED
          BY <5>1, <5>2, <3>1, LongestLease DEF Instants, None
      <4> QED
        BY <3>2, <1>6, <1>8, <2>1, <4>1, <4>2
    <3> QED
      BY <3>1, <3>2, Found DEF Allowed
  <2>2. CASE ~manager.mapped
    BY <1>2, <1>6, <1>8, <2>2, GrantKept
  <2> QED
    BY <2>1, <2>2
<1>10. ~m.mapped => m.lease = None /\ DOMAIN m.interactions = {}
  BY <1>7, <1>8, Found
<1> QED
  BY <1>2, <1>8, <1>9, <1>10, HandlerStep

LEMMA DropInteractionStep ==
    ASSUME IInv, ~down, NEW o \in Owners, DropInteraction(o) PROVE IInv'
<1> DEFINE left   == DOMAIN manager.interactions \ {o}
           others == [p \in left |-> manager.interactions[p]]
           m      == [manager EXCEPT !.interactions = others]
<1>1. Recompute(m) /\ UNCHANGED granted /\ Remembering'
  BY DEF DropInteraction, IInv, Remembering
<1>2. left \subseteq DOMAIN manager.interactions /\ left \in SUBSET Owners
      /\ \A p \in left : manager.interactions[p] \in Nat
  BY Found
<1> HIDE DEF left
<1>3. others \in [left -> Nat] /\ DOMAIN others = left
  BY <1>2
<1>4. Range(others) \subseteq Range(manager.interactions)
  BY <1>2 DEF Range
<1> HIDE DEF others
<1>5. others \in UNION {[S -> Nat] : S \in SUBSET Owners}
  BY <1>2, <1>3, SomeInteractions
<1>6. m \in Cells /\ m.interactions = others /\ m.lease = manager.lease /\ m.mapped = manager.mapped
  BY <1>5, Found DEF Cells
<1> HIDE DEF m
<1>7. Allowed(m, granted')
  BY <1>1, <1>4, <1>6, GrantKept
<1>8. ~m.mapped => m.lease = None /\ DOMAIN m.interactions = {}
  BY <1>2, <1>3, <1>6, Found
<1> QED
  BY <1>1, <1>6, <1>7, <1>8, HandlerStep

LEMMA AgentStep ==
    ASSUME IInv, ~down, NEW entry \in Agents, Recompute([manager EXCEPT !.agent = entry]),
           UNCHANGED granted, Remembering'
    PROVE  IInv'
<1> DEFINE m == [manager EXCEPT !.agent = entry]
<1>1. m \in Cells /\ m.lease = manager.lease /\ m.interactions = manager.interactions
      /\ m.mapped = manager.mapped
  BY Found DEF Cells
<1>2. Recompute(m)
  OBVIOUS
<1> HIDE DEF m
<1> QED
  BY <1>1, <1>2, LeasesKeptStep

LEMMA AgentTypes ==
    NoAgent \in Agents /\ [NoAgent EXCEPT !.active = TRUE] \in Agents
BY DEF NoAgent, Agents, Instants

LEMMA AgentStartedStep == ASSUME IInv, ~down, AgentStarted PROVE IInv'
<1>1. Remembering'
  BY DEF AgentStarted, IInv, Remembering
<1> QED
  BY <1>1, AgentTypes, AgentStep DEF AgentStarted

LEMMA ClearAgentStep == ASSUME IInv, ~down, ClearAgent PROVE IInv'
<1>1. Remembering'
  BY DEF ClearAgent, IInv, Remembering
<1> QED
  BY <1>1, AgentTypes, AgentStep DEF ClearAgent

\* An event that is not remembered is remembered once.
LEMMA RememberedOnce ==
    ASSUME Remembering, NEW event \in Events, ~Seen(event)
    PROVE  /\ Remembered(event) \in Seq(Events) /\ IsInjective(Remembered(event))
           /\ Len(Remembered(event)) <= MaxSeen
<1> DEFINE longer == Append(order, event)
<1>1. order \in Seq(Events) /\ Len(order) \in Nat /\ Len(order) <= MaxSeen
  BY DEF Remembering
<1>2. /\ longer \in Seq(Events) /\ Len(longer) = Len(order) + 1
      /\ \A i \in 1 .. Len(order) : longer[i] = order[i]
      /\ longer[Len(order) + 1] = event
  BY <1>1
<1>3. \A i \in 1 .. Len(order) : order[i] # event
  BY <1>1 DEF Seen, Contains
<1>4. \A i, j \in 1 .. Len(order) : order[i] = order[j] => i = j
  BY <1>1 DEF Remembering, IsInjective
<1> HIDE DEF longer
<1>5. \A i, j \in 1 .. Len(longer) : longer[i] = longer[j] => i = j
  BY <1>1, <1>2, <1>3, <1>4
<1>6. IsInjective(longer)
  BY <1>2, <1>5 DEF IsInjective
<1>7. CASE Len(longer) > MaxSeen
  <2>1. Remembered(event) = Tail(longer)
    BY <1>7 DEF Remembered, longer
  <2>2. /\ Tail(longer) \in Seq(Events) /\ Len(Tail(longer)) = Len(longer) - 1
        /\ \A i \in 1 .. Len(Tail(longer)) : Tail(longer)[i] = longer[i + 1]
    BY <1>1, <1>2
  <2> DEFINE tail == Tail(longer)
  <2> HIDE DEF tail
  <2>3. \A i, j \in 1 .. Len(tail) : tail[i] = tail[j] => i = j
    <3> SUFFICES ASSUME NEW i \in 1 .. Len(tail), NEW j \in 1 .. Len(tail), tail[i] = tail[j]
                 PROVE  i = j
      OBVIOUS
    <3>1. i + 1 \in 1 .. Len(longer) /\ j + 1 \in 1 .. Len(longer)
      BY <1>1, <1>2, <2>2 DEF tail
    <3>2. longer[i + 1] = longer[j + 1]
      BY <2>2 DEF tail
    <3>3. i + 1 = j + 1
      BY <1>5, <3>1, <3>2
    <3>4. i \in Int /\ j \in Int
      OBVIOUS
    <3> QED
      BY <3>3, <3>4
  <2>4. tail \in Seq(Events) /\ Len(tail) = Len(order)
    BY <1>1, <1>2, <2>2 DEF tail
  <2>5. IsInjective(tail)
    BY <2>3, <2>4 DEF IsInjective
  <2> QED
    BY <1>1, <2>1, <2>4, <2>5 DEF tail
<1>8. CASE ~(Len(longer) > MaxSeen)
  BY <1>1, <1>2, <1>6, <1>8, RuntimeAssumption DEF Remembered, longer
<1> QED
  BY <1>7, <1>8

LEMMA AgentEventStep ==
    ASSUME IInv, ~down, NEW event \in Events, NEW waiting \in BOOLEAN, AgentEvent(event, waiting)
    PROVE  IInv'
<1> DEFINE entry == [event |-> event, until |-> now + manager.config.attention, active |-> waiting]
<1>1. now + manager.config.attention \in Instants
  BY Found, ConfigDurations DEF Durations, Clock, Instants
<1>2. entry \in Agents
  BY <1>1 DEF Agents
<1>3. Remembering'
  BY RememberedOnce DEF AgentEvent, IInv, Remembering
<1>4. Recompute([manager EXCEPT !.agent = entry]) /\ UNCHANGED granted
  BY DEF AgentEvent
<1> HIDE DEF entry
<1> QED
  BY <1>2, <1>3, <1>4, AgentStep

LEMMA DeadlineReachedStep == ASSUME IInv, ~down, DeadlineReached PROVE IInv'
<1> DEFINE m == [manager EXCEPT !.timer = None]
<1>1. Recompute(m) /\ UNCHANGED granted /\ Remembering'
  BY DEF DeadlineReached, IInv, Remembering
<1>2. m \in Cells /\ m.lease = manager.lease /\ m.interactions = manager.interactions
      /\ m.mapped = manager.mapped
  BY Found DEF Cells
<1> HIDE DEF m
<1> QED
  BY <1>1, <1>2, LeasesKeptStep

-----------------------------------------------------------------------------
(* Time, consumers and the end.                                            *)

LEMMA TickStep == ASSUME IInv, ~down, Tick PROVE IInv'
<1>1. now' = now + 1
      /\ UNCHANGED <<midnight, manager, order, channel, held, inhibitors, down, granted>>
  BY DEF Tick
<1>2. Typed'
  BY <1>1 DEF IInv, Typed, Clock
<1>3. Covering'
  <2> SUFFICES ASSUME manager.mapped, ~Due'
               PROVE  Covered(manager)'
    BY <1>1 DEF Covering
  <2>1. ~Due
    BY <1>1, Found DEF Due, Cells, Instants, None, Clock
  <2> QED
    BY <2>1, TickCovered, Found DEF IInv, Covering
<1>4. Hiding'
  BY <1>1 DEF IInv, Hiding, Withheld
<1>5. Granting'
  BY <1>1, Found DEF IInv, Granting, Allowed, Range, Clock, Instants, None
<1>6. Remembering'
  BY <1>1 DEF IInv, Remembering
<1>7. Telling'
  BY <1>1 DEF IInv, Telling, Delivered, InhibitorFollows
<1> QED
  BY <1>2, <1>3, <1>4, <1>5, <1>6, <1>7 DEF IInv

\* What is not about the channels or the session.
Inner == Typed /\ Covering /\ Hiding /\ Granting /\ Remembering

LEMMA InnerKept ==
    ASSUME IInv, UNCHANGED <<now, midnight, manager, order, down, granted>>
    PROVE  Inner'
<1>1. Typed' /\ Hiding' /\ Remembering'
  BY DEF IInv, Typed, Clock, Hiding, Withheld, Remembering
<1>2. Granting'
  BY DEF IInv, Granting, Allowed, Range
<1>3. Covering'
  <2>1. Due' <=> Due
    BY DEF Due
  <2>2. Covered(manager) => Covered(manager)'
    BY CoveredNext
  <2> QED
    BY <2>1, <2>2 DEF IInv, Covering
<1> QED
  BY <1>1, <1>2, <1>3 DEF Inner

Channel == [open : BOOLEAN, pending : Queues, last : Queues]

LEMMA ChannelTypes ==
    ASSUME IInv
    PROVE  /\ Opened \in Channel /\ Closed \in Channel
           /\ \A c \in Consumers : channel[c] \in Channel
           /\ \A c \in Consumers : [open |-> channel[c].open, pending |-> <<>>,
                                    last |-> channel[c].pending] \in Channel
<1>1. <<manager.snapshot>> \in Queues /\ <<>> \in Queues
  BY DEF IInv, Typed, Queues
<1>2. \A c \in Consumers : channel[c] \in Channel
  BY DEF IInv, Telling, Channel
<1>3. Opened \in Channel /\ Closed \in Channel
  <2> DEFINE queue == <<manager.snapshot>>
             none  == <<>>
  <2>1. Opened = [open |-> TRUE, pending |-> queue, last |-> none]
        /\ Closed = [open |-> FALSE, pending |-> none, last |-> none]
    BY DEF Opened, Closed
  <2>2. queue \in Queues /\ none \in Queues
    BY <1>1
  <2> HIDE DEF queue, none
  <2> QED
    BY <2>1, <2>2 DEF Channel
<1>4. \A c \in Consumers : [open |-> channel[c].open, pending |-> <<>>,
                            last |-> channel[c].pending] \in Channel
  <2> DEFINE none == <<>>
  <2>1. none \in Queues
    BY <1>1
  <2> HIDE DEF none
  <2>2. \A c \in Consumers : [open |-> channel[c].open, pending |-> none,
                              last |-> channel[c].pending] \in Channel
    BY <1>2, <2>1 DEF Channel
  <2> QED
    BY <2>2 DEF none
<1> QED
  BY <1>2, <1>3, <1>4

\* One channel is given a new value that agrees with the snapshot; not the desktop's.
LEMMA ChannelStep ==
    ASSUME IInv, NEW c \in Consumers, NEW new \in Channel,
           channel' = [channel EXCEPT ![c] = new],
           UNCHANGED <<manager, held, inhibitors>>,
           new.open => (IF new.pending = <<>> THEN new.last ELSE new.pending) = <<manager.snapshot>>,
           c = Desktop => ~(new.open /\ new.pending = <<>>)
    PROVE  Telling'
<1>1. channel \in [Consumers -> Channel] /\ Delivered /\ InhibitorFollows
      /\ held \subseteq {"screen", "suspend"}
  BY DEF IInv, Telling, Channel
<1>2. channel' \in [Consumers -> Channel]
  BY <1>1
<1>3. \A d \in Consumers : channel'[d] = IF d = c THEN new ELSE channel[d]
  BY <1>1
<1>4. Delivered'
  BY <1>1, <1>3 DEF Delivered
<1>5. InhibitorFollows'
  BY <1>1, <1>3, RuntimeAssumption DEF InhibitorFollows
<1> QED
  BY <1>1, <1>2, <1>4, <1>5 DEF Telling, Channel

LEMMA SubscribeStep == ASSUME IInv, NEW c \in Consumers, Subscribe(c) PROVE IInv'
<1>1. Inner'
  BY InnerKept DEF Subscribe
<1>2. Opened.open /\ Opened.pending # <<>> /\ Opened.pending = <<manager.snapshot>>
  BY DEF Opened
<1>3. Telling'
  BY <1>2, ChannelTypes, ChannelStep DEF Subscribe
<1> QED
  BY <1>1, <1>3 DEF Inner, IInv

LEMMA UnsubscribeStep == ASSUME IInv, NEW c \in Consumers, Unsubscribe(c) PROVE IInv'
<1>1. Inner'
  BY InnerKept DEF Unsubscribe
<1>2. ~Closed.open
  BY DEF Closed
<1>3. Telling'
  BY <1>2, ChannelTypes, ChannelStep DEF Unsubscribe
<1> QED
  BY <1>1, <1>3 DEF Inner, IInv

LEMMA ReceiveStep == ASSUME IInv, NEW c \in Consumers, Receive(c) PROVE IInv'
<1> DEFINE new == [open |-> channel[c].open, pending |-> <<>>, last |-> channel[c].pending]
<1>1. Inner'
  BY InnerKept DEF Receive
<1>2. new \in Channel /\ new.open = channel[c].open /\ new.pending = <<>>
      /\ new.last = channel[c].pending
  BY ChannelTypes
<1>3. channel' = [channel EXCEPT ![c] = new]
  BY DEF Receive, Taken
<1>4. channel[c].open => channel[c].pending = <<manager.snapshot>>
  BY DEF Receive, IInv, Telling, Delivered
<1> HIDE DEF new
<1>5. Telling'
  BY <1>2, <1>3, <1>4, ChannelStep DEF Receive
<1> QED
  BY <1>1, <1>5 DEF Inner, IInv

LEMMA FollowSnapshotStep == ASSUME IInv, FollowSnapshot PROVE IInv'
<1> DEFINE old   == channel[Desktop]
           new   == [open |-> old.open, pending |-> <<>>, last |-> old.pending]
           flags == old.pending[1].inhibited
<1>1. Inner'
  BY InnerKept DEF FollowSnapshot
<1>2. Desktop \in Consumers
  BY RuntimeAssumption
<1>3. channel \in [Consumers -> Channel] /\ Delivered /\ InhibitorFollows
      /\ held \subseteq {"screen", "suspend"}
  BY DEF IInv, Telling, Channel
<1>4. new \in Channel /\ new.open = old.open /\ new.pending = <<>> /\ new.last = old.pending
  BY <1>2, ChannelTypes
<1>5. /\ channel' = [channel EXCEPT ![Desktop] = new] /\ old.pending # <<>>
      /\ UNCHANGED manager
  BY DEF FollowSnapshot, Taken
<1>6. PICK latest \in Snapshots : old.pending = <<latest>>
  BY <1>2, <1>3, <1>5 DEF Channel, Queues
<1>7. flags = latest.inhibited /\ flags \subseteq {"screen", "suspend"}
  BY <1>6 DEF Snapshots
<1>8. old.open => latest = manager.snapshot
  <2>1. old.open => old.pending = <<manager.snapshot>>
    BY <1>2, <1>3, <1>5 DEF Delivered
  <2>2. \A a, b : <<a>> = <<b>> => a = b
    OBVIOUS
  <2> QED
    BY <1>6, <2>1, <2>2
<1>9. /\ held' \in {{}, flags}
      /\ inhibitors' = (IF held' = {} THEN 0 ELSE 1)
  <2>1. inhibitors = (IF held = {} THEN 0 ELSE 1) /\ \A any : Withdrawn(any) = 0
    BY <1>3 DEF InhibitorFollows, Withdrawn
  <2>2. \/ flags = held /\ UNCHANGED <<held, inhibitors>>
        \/ flags # {} /\ held' = flags /\ inhibitors' = Withdrawn(flags) + 1
        \/ held' = {} /\ inhibitors' = Withdrawn(flags)
    BY DEF FollowSnapshot
  <2> HIDE DEF flags
  <2> QED
    BY <2>1, <2>2
<1>10. channel' \in [Consumers -> Channel]
       /\ \A c \in Consumers : channel'[c] = IF c = Desktop THEN new ELSE channel[c]
  <2> HIDE DEF new
  <2> QED
    BY <1>3, <1>4, <1>5
<1> HIDE DEF new, flags, old
<1>11. Delivered'
  <2> SUFFICES ASSUME NEW c \in Consumers, channel'[c].open
               PROVE  (IF channel'[c].pending = <<>> THEN channel'[c].last ELSE channel'[c].pending)
                        = <<manager.snapshot>>
    BY <1>5 DEF Delivered
  <2>1. CASE c = Desktop
    BY <1>4, <1>6, <1>8, <1>10, <2>1
  <2>2. CASE c # Desktop
    BY <1>3, <1>10, <2>2 DEF Delivered
  <2> QED
    BY <2>1, <2>2
<1>12. InhibitorFollows'
  <2>1. channel'[Desktop].open => flags = manager.snapshot.inhibited
    BY <1>2, <1>4, <1>7, <1>8, <1>10
  <2> QED
    BY <1>5, <1>9, <2>1 DEF InhibitorFollows
<1>13. held' \subseteq {"screen", "suspend"}
  BY <1>7, <1>9
<1> QED
  BY <1>1, <1>10, <1>11, <1>12, <1>13 DEF Inner, IInv, Telling, Channel

LEMMA ShutdownStep == ASSUME IInv, Shutdown PROVE IInv'
<1>1. /\ manager' = [manager EXCEPT !.timer = None] /\ down'
      /\ UNCHANGED <<now, midnight, order, held, inhibitors, granted>>
  BY DEF Shutdown
<1>2. /\ manager' \in Cells /\ manager'.mapped = manager.mapped /\ manager'.timer = None
      /\ manager'.snapshot = manager.snapshot /\ manager'.lease = manager.lease
      /\ manager'.interactions = manager.interactions
  BY <1>1, Found DEF Cells
<1>3. Typed' /\ Covering' /\ Hiding' /\ Remembering'
  BY <1>1, <1>2 DEF IInv, Typed, Clock, Covering, Hiding, Withheld, Remembering
<1>4. Granting'
  BY <1>1, <1>2 DEF IInv, Granting, Allowed, Range
<1>5. channel' \in [Consumers -> Channel] /\ \A c \in Consumers : ~channel'[c].open
  <2>1. \A c \in Consumers : [channel[c] EXCEPT !.open = FALSE] \in Channel
                             /\ ~[channel[c] EXCEPT !.open = FALSE].open
    BY ChannelTypes DEF Channel
  <2>2. channel' = [c \in Consumers |-> [channel[c] EXCEPT !.open = FALSE]]
    BY DEF Shutdown
  <2> QED
    BY <2>1, <2>2
<1>6. Telling'
  BY <1>1, <1>5, RuntimeAssumption DEF IInv, Telling, Delivered, InhibitorFollows, Channel
<1> QED
  BY <1>3, <1>4, <1>6 DEF IInv

LEMMA DesktopEndsStep == ASSUME IInv, DesktopEnds PROVE IInv'
<1>1. Inner'
  BY InnerKept DEF DesktopEnds
<1>2. held' = {} /\ inhibitors' = inhibitors - 1 /\ inhibitors = 1
      /\ UNCHANGED <<manager, channel>>
  BY DEF DesktopEnds, Withdrawn, IInv, Telling, InhibitorFollows
<1>3. Telling'
  BY <1>2 DEF IInv, Telling, Delivered, InhibitorFollows
<1> QED
  BY <1>1, <1>3 DEF Inner, IInv

LEMMA InitInv == Init => IInv
<1> SUFFICES ASSUME Init
             PROVE  IInv
  OBVIOUS
<1>1. PICK cfg \in Configs : manager = Recomputed(NewManager(cfg))
  BY DEF Init
<1> DEFINE m == NewManager(cfg)
<1>2. Clock
  BY DEF Init, Clock
<1>3. m \in Cells /\ m.mapped /\ m.lease = None /\ DOMAIN m.interactions = {}
  <2> DEFINE none == <<>>
  <2>1. none \in UNION {[S -> Nat] : S \in SUBSET Owners} /\ DOMAIN none = {}
    <3>1. none \in [{} -> Nat] /\ {} \in SUBSET Owners
      BY NoInteractions
    <3> QED
      BY <3>1, NoInteractions, SomeInteractions
  <2>2. NoAgent \in Agents /\ None \in Instants /\ now \in Nat /\ "unknown" \in Thermals
        /\ "unknown" \in Stages /\ none \in Snapshots \cup {<<>>} /\ None \in Capacities \cup {None}
    BY <1>2, AgentTypes DEF Instants, Clock, Thermals, Stages
  <2>3. m = [config |-> cfg, mapped |-> TRUE, active |-> TRUE, inactiveSince |-> None,
             lastActivity |-> now, idleCandidate |-> None, lease |-> None, interactions |-> none,
             agent |-> NoAgent, thermal |-> "unknown", capacity |-> None, stage |-> "unknown",
             snapshot |-> none, timer |-> None]
    BY DEF NewManager
  <2> HIDE DEF m, none
  <2> QED
    BY <2>1, <2>2, <2>3 DEF Cells
<1> HIDE DEF m
<1>4. /\ manager \in Cells /\ manager.snapshot \in Snapshots /\ manager.mapped
      /\ manager.lease = LeaseKept(m) /\ manager.interactions = InteractionsKept(m)
  BY <1>1, <1>2, <1>3, RecomputedFields DEF m
<1>5. Covered(manager)
  BY <1>1, <1>2, <1>3, RecomputedCovered DEF m
<1>6. Granting
  <2>1. manager.lease = None /\ DOMAIN manager.interactions = {}
    BY <1>3, <1>4 DEF LeaseKept, InteractionsKept
  <2>2. granted.at = None /\ now = 0
    BY DEF Init
  <2> QED
    BY <2>1, <2>2 DEF Granting, Allowed, Range, Instants, None
<1>7. Remembering
  BY RuntimeAssumption DEF Init, Remembering, IsInjective
<1>8. Telling
  <2> DEFINE queue == <<manager.snapshot>>
             none  == <<>>
  <2>1. queue \in Queues /\ none \in Queues /\ queue # none
    BY <1>4 DEF Queues
  <2>2. channel = [c \in Consumers |-> IF c = Desktop
                                         THEN [open |-> TRUE, pending |-> queue, last |-> none]
                                         ELSE [open |-> FALSE, pending |-> none, last |-> none]]
        /\ held = {} /\ inhibitors = 0
    BY DEF Init, Opened, Closed
  <2> HIDE DEF queue, none
  <2>3. channel \in [Consumers -> Channel]
        /\ \A c \in Consumers : channel[c].open => channel[c].pending = queue
    BY <2>1, <2>2 DEF Channel
  <2>4. Delivered
    BY <2>1, <2>3 DEF Delivered, queue, none
  <2>5. InhibitorFollows
    BY <2>1, <2>2, <2>3, RuntimeAssumption DEF InhibitorFollows, none
  <2> QED
    BY <2>2, <2>3, <2>4, <2>5 DEF Telling, Channel
<1> QED
  BY <1>2, <1>4, <1>5, <1>6, <1>7, <1>8 DEF IInv, Typed, Covering, Hiding

LEMMA NextInv == IInv /\ [Next]_vars => IInv'
<1> SUFFICES ASSUME IInv, [Next]_vars
             PROVE  IInv'
  OBVIOUS
<1>1. ASSUME ~down, User PROVE IInv'
  <2>1. \/ ReportActivity \/ SetMapped \/ SetActive
        \/ \E o \in Owners : DropInteraction(o)
        \/ \E o \in Owners, duration \in Desired : BeginInteraction(o, duration)
        \/ \E cfg \in Configs : UpdateConfig(cfg)
        \/ RebuildPages
    BY <1>1 DEF User
  <2> QED
    BY <1>1, <2>1, ReportActivityStep, SetMappedStep, SetActiveStep, DropInteractionStep,
       BeginInteractionStep, UpdateConfigStep, RebuildPagesStep
<1>2. ASSUME ~down, Signals PROVE IInv'
  BY <1>2, SetThermalStep, SetPowerSourceStep, SetBatteryCapacityStep, AgentStartedStep,
     ClearAgentStep, AgentEventStep DEF Signals
<1>3. ASSUME ~down, DeadlineReached \/ Tick \/ Shutdown PROVE IInv'
  BY <1>3, DeadlineReachedStep, TickStep, ShutdownStep
<1>4. ASSUME NEW c \in Consumers, Subscribe(c) \/ Unsubscribe(c) \/ Receive(c) PROVE IInv'
  BY <1>4, SubscribeStep, UnsubscribeStep, ReceiveStep
<1>5. ASSUME FollowSnapshot \/ DesktopEnds PROVE IInv'
  BY <1>5, FollowSnapshotStep, DesktopEndsStep
<1>6. CASE UNCHANGED vars
  <2>1. Inner'
    BY <1>6, InnerKept DEF vars
  <2>2. Telling'
    BY <1>6 DEF vars, IInv, Telling, Delivered, InhibitorFollows
  <2> QED
    BY <2>1, <2>2 DEF Inner, IInv
<1> QED
  BY <1>1, <1>2, <1>3, <1>4, <1>5, <1>6 DEF Next

-----------------------------------------------------------------------------
(* What the invariant says of the snapshot.                                *)

LEMMA SnapshotOfFacts ==
    ASSUME IInv, Covered(manager)
    PROVE  /\ manager.snapshot.leased = InteractionActive(manager)
           /\ manager.snapshot.quiet => (manager.snapshot.paused \/ manager.snapshot.leased)
<1> DEFINE f == Facts(manager)
<1>1. f.interaction = InteractionActive(manager)
  BY DEF Facts
<1>2. f \in AllFacts
  BY FactsType DEF IInv, Typed, Cells
<1> HIDE DEF f
<1>3. manager.snapshot = Evaluate(f, manager.config)
  BY DEF Covered, f
<1>4. /\ manager.snapshot.leased = f.interaction
      /\ manager.snapshot.quiet = f.quiet
      /\ manager.snapshot.paused = (f.quiet /\ ~f.interaction)
  BY <1>3 DEF Evaluate
<1> QED
  BY <1>1, <1>2, <1>4 DEF AllFacts

\* Nothing that was granted outlives the longest lease.
LEMMA GrantsEnd ==
    ASSUME IInv, granted.at = None \/ granted.at + Longest <= now
    PROVE  ~InteractionActive(manager)
<1>1. ASSUME NEW at \in Range(manager.interactions) \cup {manager.lease}
      PROVE  ~Live(at)
  <2>1. at # None => granted.at # None /\ at <= granted.at + Longest
    BY <1>1 DEF IInv, Granting, Allowed
  <2>2. at \in Instants /\ granted.at \in Instants /\ now \in Nat /\ Longest \in Nat
    BY <1>1, InteractionsType, LongestLease
       DEF IInv, Typed, Clock, Cells, Granting, Allowed, Range, Instants
  <2> QED
    BY <2>1, <2>2 DEF Live, Instants, None
<1>2. \A o \in DOMAIN manager.interactions :
         manager.interactions[o] \in Range(manager.interactions)
  BY DEF Range
<1> QED
  BY <1>1, <1>2 DEF InteractionActive

LEMMA Meets == IInv => TypeOK /\ TimerCovers /\ LeaseBounded /\ HiddenGrantsNothing
<1> SUFFICES ASSUME IInv
             PROVE  TypeOK /\ TimerCovers /\ LeaseBounded /\ HiddenGrantsNothing
  OBVIOUS
<1>1. TypeOK
  <2>1. DOMAIN manager.interactions \subseteq Owners
    BY InteractionsType DEF IInv, Typed
  <2>2. inhibitors \in Nat /\ held \subseteq {"screen", "suspend"}
    BY DEF IInv, Telling, InhibitorFollows
  <2> QED
    BY <2>1, <2>2 DEF IInv, Typed, Clock, Cells, Agents, Remembering, TypeOK
<1>2. TimerCovers
  BY DEF IInv, Covering, Covered, TimerCovers
<1>3. LeaseBounded
  <2> SUFFICES ASSUME manager.mapped, ~down, granted.at = None \/ granted.at + Longest <= now,
                      ~Due
               PROVE  /\ ~manager.snapshot.leased
                      /\ manager.snapshot.quiet => manager.snapshot.paused
    BY DEF LeaseBounded
  <2>1. Covered(manager)
    BY DEF IInv, Covering
  <2> QED
    BY <2>1, SnapshotOfFacts, GrantsEnd
<1>4. ASSUME ~manager.mapped
      PROVE  /\ manager.snapshot.level = "suspended" /\ manager.snapshot.inhibited = {}
             /\ ~manager.snapshot.leased /\ ~InteractionActive(manager)
             /\ manager.timer = None
  BY <1>4 DEF IInv, Hiding, Withheld, InteractionActive, Live
<1>5. ASSUME ~down, manager.snapshot.leased, ~Due
      PROVE  InteractionActive(manager)
  <2>1. manager.mapped
    BY <1>4, <1>5
  <2>2. Covered(manager)
    BY <1>5, <2>1 DEF IInv, Covering
  <2> QED
    BY <1>5, <2>2, SnapshotOfFacts
<1> QED
  BY <1>1, <1>2, <1>3, <1>4, <1>5 DEF HiddenGrantsNothing

-----------------------------------------------------------------------------
(* The behaviours of the runtime among those of the services.              *)

\* While the runtime moves, its invariant holds.
RuntimeInv == OfRuntime(IInv)

LEMMA InitRuntime == InitAll => RuntimeInv
BY InitInv DEF InitAll, RuntimeInv, OfRuntime

LEMMA NextRuntime == RuntimeInv /\ [NextAll]_all => RuntimeInv'
<1> SUFFICES ASSUME RuntimeInv, [NextAll]_all, machine' = "runtime"
             PROVE  IInv'
  BY DEF RuntimeInv, OfRuntime
<1>1. machine = "runtime" /\ [Next]_vars
  BY DEF NextAll, all
<1> QED
  BY <1>1, NextInv DEF RuntimeInv, OfRuntime

\* The timer of the runtime is armed for every instant at which time alone changes what is
\* granted, a hidden window grants nothing, and nobody is taken to watch for longer than
\* the longest lease after it was granted (recompute and schedule_deadline of
\* RuntimeManager), whatever the handlers that ran since, and however long it runs.
THEOREM DeadlinesAlwaysMet == SpecAll => []DeadlinesMet
<1>1. RuntimeInv => DeadlinesMet
  BY Meets DEF RuntimeInv, DeadlinesMet, OfRuntime
<1> QED
  BY InitRuntime, NextRuntime, <1>1, PTL DEF SpecAll

\* Every open channel ends with the snapshot of the manager, in it or just taken from it,
\* and the session keeps one request while the desktop consumer holds flags, those of the
\* snapshot once the channel is read (recompute, subscribe, the inhibitor of the window).
THEOREM SnapshotsAlwaysFollowed == SpecAll => []SnapshotsFollowed
<1>1. RuntimeInv => SnapshotsFollowed
  BY DEF RuntimeInv, SnapshotsFollowed, OfRuntime, IInv, Telling
<1> QED
  BY InitRuntime, NextRuntime, <1>1, PTL DEF SpecAll

-----------------------------------------------------------------------------
(* The sampler of power: an edge is served by the debounce and a change without one by   *)
(* the fallback, for what has passed and what is left of a timer make up its length.     *)

SupplyInv ==
    /\ supply \in [changes : Nat, readable : BOOLEAN] /\ period \in Nat
    /\ fallback \in Nat /\ warmth \in Nat /\ behind \in Nat /\ cold \in Nat
    /\ verdict \in 0 .. supply.changes /\ capacity \in 0 .. supply.changes
    /\ battery = Nil \/ battery \in [value : Nat, age : Nat]
    /\ battery # Nil => battery.value >= verdict
    /\ \/ queued = Nil /\ awaited = Nil
       \/ queued \in Nat /\ awaited \in Nat /\ awaited + queued = Debounce
    /\ behind + fallback <= MaxPeriod
    /\ cold + warmth < MaxThermalPeriod + Ttl

LEMMA SupplyPeriods ==
    ASSUME period \in Nat
    PROVE  /\ Supply!power_fallback_seconds \in MinPeriod .. MaxPeriod
           /\ Supply!thermal_fallback_seconds \in MinPeriod .. MaxThermalPeriod
  BY SensorsAssumption
  DEF Supply!power_fallback_seconds, Supply!thermal_fallback_seconds, Supply!Clamp

LEMMA InitSupply == Supply!Init => SupplyInv
  <1> SUFFICES ASSUME Supply!Init PROVE SupplyInv
    OBVIOUS
  <1>1. period \in Nat
    BY SensorsAssumption DEF Supply!Init
  <1> QED BY <1>1, SupplyPeriods, SensorsAssumption DEF Supply!Init, SupplyInv

LEMMA NextSupply == SupplyInv /\ Supply!Next => SupplyInv'
  <1> SUFFICES ASSUME SupplyInv, Supply!Next PROVE SupplyInv'
    OBVIOUS
  <1> USE SensorsAssumption
  <1>0. /\ Supply!power_fallback_seconds \in MinPeriod .. MaxPeriod
        /\ Supply!thermal_fallback_seconds \in MinPeriod .. MaxThermalPeriod
    BY SupplyPeriods DEF SupplyInv
  <1>1. CASE Supply!Collect
    BY <1>1 DEF SupplyInv, Supply!Collect, Supply!Refreshed, Supply!Cached
  <1>2. CASE Supply!Change
    BY <1>2 DEF SupplyInv, Supply!Change
  <1>3. CASE Supply!Notify
    BY <1>3 DEF SupplyInv, Supply!Notify
  <1>4. CASE Supply!SamplePower
    BY <1>4, <1>0 DEF SupplyInv, Supply!SamplePower
  <1>5. CASE Supply!SampleThermal
    BY <1>5, <1>0 DEF SupplyInv, Supply!SampleThermal, Supply!Refreshed, Supply!Cached
  <1>6. CASE Supply!Configure
    BY <1>6 DEF SupplyInv, Supply!Configure
  <1>7. CASE Supply!Tick
    BY <1>7 DEF SupplyInv, Supply!Tick, Supply!Sooner, Supply!Later, Supply!Cached
  <1> QED BY <1>1, <1>2, <1>3, <1>4, <1>5, <1>6, <1>7 DEF Supply!Next

LEMMA SupplyFollowed == SupplyInv => Supply!TypeOK /\ Supply!ToldInTime /\ Supply!CardsAgree
  BY SensorsAssumption
  DEF SupplyInv, Supply!TypeOK, Supply!ToldInTime, Supply!CardsAgree, Supply!Cached

-----------------------------------------------------------------------------
(* The signals of the network.  While no event waits the watchdog will queue one.        *)

NetworkInv ==
    /\ network \in [changes : 0 .. MaxChanges, bus : BOOLEAN]
    /\ watchdog \in 0 .. Watchdog /\ behind \in Nat
    /\ source \in [snapshot : {Nil, -1} \cup 0 .. network.changes, age : 0 .. SnapshotLife,
                   invalidated : BOOLEAN]
    /\ published \in 0 .. network.changes
    /\ \/ queued = Nil /\ awaited = Nil /\ behind + watchdog <= Watchdog
       \/ /\ queued \in Nat /\ awaited \in Nat /\ awaited + queued = Debounce
          /\ behind + queued <= Watchdog + Debounce
    /\ Network!NoStaleSnapshot

LEMMA InitNetwork == Network!Init => NetworkInv
  BY SensorsAssumption DEF Network!Init, NetworkInv, Network!NoStaleSnapshot, Network!Current

LEMMA NextNetwork == NetworkInv /\ Network!Next => NetworkInv'
  <1> SUFFICES ASSUME NetworkInv, Network!Next PROVE NetworkInv'
    OBVIOUS
  <1> USE SensorsAssumption DEF NetworkInv, Network!NoStaleSnapshot, Network!Current,
                                Network!Fallback
  <1>1. CASE Network!Change
    BY <1>1 DEF Network!Change
  <1>2. CASE Network!Signal
    BY <1>2 DEF Network!Signal, Network!Queue
  <1>3. CASE Network!WatchdogFires
    BY <1>3 DEF Network!WatchdogFires, Network!Queue
  <1>4. CASE Network!Publish
    <2>1. /\ queued' = Nil /\ awaited' = Nil /\ published' = network.changes /\ behind' = 0
          /\ UNCHANGED <<network, watchdog>>
      BY <1>4 DEF Network!Publish
    <2>2. /\ source'.invalidated
          /\ source' \in [snapshot : {Nil, -1} \cup 0 .. network.changes,
                          age : 0 .. SnapshotLife, invalidated : BOOLEAN]
      BY <1>4 DEF Network!Publish
    <2> QED BY <2>1, <2>2
  <1>5. CASE Network!Snapshot
    BY <1>5 DEF Network!Snapshot
  <1>6. CASE Network!Tick
    BY <1>6 DEF Network!Tick
  <1> QED BY <1>1, <1>2, <1>3, <1>4, <1>5, <1>6 DEF Network!Next

LEMMA NetworkFollowed ==
    NetworkInv => Network!TypeOK /\ Network!CardsAsked /\ Network!NoStaleSnapshot
  BY SensorsAssumption DEF NetworkInv, Network!TypeOK, Network!CardsAsked, Network!Fallback

-----------------------------------------------------------------------------
(* The average of the power: ages fall from the front of the deque to its end, and what  *)
(* is left of it starts within the window of the sample that was added last.             *)

Oldest == Window + SuspendGap + 1

SampleType == [age : 0 .. Oldest, status : Average!Statuses]

\* A deque of one stretch of one status.
Stretch(deque, mark) ==
    /\ deque \in Seq(SampleType)
    /\ \A i \in 1 .. Len(deque) : deque[i].status = mark
    /\ \A i, j \in 1 .. Len(deque) : i < j => deque[i].age >= deque[j].age
    /\ \A i \in 1 .. Len(deque) - 1 : deque[i].age - deque[i + 1].age <= SuspendGap

Spread(deque) == Len(deque) > 1 => deque[1].age - deque[Len(deque)].age <= Window

AverageInv ==
    /\ Stretch(samples, status) /\ Spread(samples)
    /\ Len(samples) <= MaxSamples
    /\ status \in Average!Statuses \cup {Nil} /\ (status = Nil => samples = <<>>)
    /\ since \in 0 .. Oldest \cup {Nil}
    /\ samples # <<>> => since \in 0 .. Oldest /\ samples[Len(samples)].age = since
    /\ result \in {"none", "error", "unavailable", "zero", "cached", "sampling", "average"}

LEMMA InitAverage == Average!Init => AverageInv
  BY SensorsAssumption DEF Average!Init, AverageInv, Stretch, Spread

\* What is left of a sequence from n on.
LEMMA Suffix ==
    ASSUME NEW S, NEW s \in Seq(S), NEW n \in 1 .. Len(s)
    PROVE  /\ SubSeq(s, n, Len(s)) \in Seq(S)
           /\ Len(SubSeq(s, n, Len(s))) = Len(s) - n + 1
           /\ \A i \in 1 .. Len(SubSeq(s, n, Len(s))) : SubSeq(s, n, Len(s))[i] = s[n + i - 1]
  OBVIOUS

LEMMA TrimmedStretch ==
    ASSUME NEW mark \in Average!Statuses, NEW deque,
           Stretch(deque, mark), deque # <<>>, deque[Len(deque)].age = 0
    PROVE  LET kept == Average!Trimmed(deque)
           IN  /\ Stretch(kept, mark) /\ Spread(kept)
               /\ Len(kept) \in 1 .. MaxSamples /\ kept[Len(kept)].age = 0
  <1> USE SensorsAssumption
  <1> DEFINE fits == {n \in DOMAIN deque : /\ Len(deque) - n < MaxSamples
                                           /\ n = Len(deque) \/ deque[n].age <= Window}
             front == CHOOSE n \in fits : \A m \in fits : n <= m
             kept == SubSeq(deque, front, Len(deque))
  <1>0. deque \in Seq(SampleType) /\ Len(deque) \in Nat \ {0}
    BY DEF Stretch
  <1>01. DOMAIN deque = 1 .. Len(deque)
    BY <1>0
  <1>1. fits \subseteq Nat /\ Len(deque) \in fits
    BY <1>0, <1>01
  <1>2. \E n \in fits : \A m \in fits : n <= m
    <2> HIDE DEF fits
    <2> QED BY <1>1, FirstDeadline
  <1>3. front \in fits
    BY <1>2
  <1>4. front \in 1 .. Len(deque) /\ Len(deque) - front < MaxSamples
    BY <1>3, <1>01
  <1>40. front = Len(deque) \/ deque[front].age <= Window
    BY <1>3, <1>01
  <1> HIDE DEF front, fits
  <1>5. /\ kept \in Seq(SampleType) /\ Len(kept) = Len(deque) - front + 1
        /\ \A i \in 1 .. Len(kept) : kept[i] = deque[front + i - 1]
    BY <1>0, <1>4, Suffix
  <1>50. Len(kept) = Len(deque) - front + 1
    BY <1>5
  <1> HIDE DEF kept
  <1>6. /\ Len(kept) \in 1 .. MaxSamples
        /\ kept[Len(kept)] = deque[Len(deque)] /\ kept[1] = deque[front]
    <2>1. Len(kept) \in 1 .. MaxSamples
      BY <1>0, <1>4, <1>5
    <2>2. 1 \in 1 .. Len(kept) /\ Len(kept) \in 1 .. Len(kept)
      BY <2>1
    <2>3. front + Len(kept) - 1 = Len(deque) /\ front + 1 - 1 = front
      BY <1>0, <1>4, <1>5
    <2> QED BY <1>5, <2>1, <2>2, <2>3
  <1>7. Stretch(kept, mark)
    <2>1. ASSUME NEW i \in 1 .. Len(kept) PROVE kept[i].status = mark
      <3> DEFINE a == front + i - 1
      <3>1. a \in 1 .. Len(deque)
        BY <1>0, <1>4, <1>5
      <3>2. kept[i] = deque[a]
        BY <1>5
      <3> HIDE DEF a
      <3> QED BY <3>1, <3>2 DEF Stretch
    <2>2. ASSUME NEW i \in 1 .. Len(kept), NEW j \in 1 .. Len(kept), i < j
          PROVE  kept[i].age >= kept[j].age
      <3> DEFINE a == front + i - 1  b == front + j - 1
      <3>1. a \in 1 .. Len(deque) /\ b \in 1 .. Len(deque) /\ a < b
        BY <1>0, <1>4, <1>5, <2>2
      <3>2. kept[i] = deque[a] /\ kept[j] = deque[b]
        BY <1>5
      <3> HIDE DEF a, b
      <3> QED BY <3>1, <3>2 DEF Stretch
    <2>3. ASSUME NEW i \in 1 .. Len(kept) - 1
          PROVE  kept[i].age - kept[i + 1].age <= SuspendGap
      <3> DEFINE a == front + i - 1
      <3>1. a \in 1 .. Len(deque) - 1
        BY <1>0, <1>4, <1>50
      <3>2. i \in 1 .. Len(kept) /\ i + 1 \in 1 .. Len(kept) /\ front + (i + 1) - 1 = a + 1
        BY <1>0, <1>4, <1>50
      <3>3. kept[i] = deque[a] /\ kept[i + 1] = deque[front + (i + 1) - 1]
        BY <1>5, <3>2
      <3>4. kept[i + 1] = deque[a + 1]
        BY <3>2, <3>3
      <3> HIDE DEF a
      <3> QED BY <3>1, <3>3, <3>4 DEF Stretch
    <2> QED BY <2>1, <2>2, <2>3, <1>5 DEF Stretch
  <1>8. Spread(kept)
    <2> SUFFICES ASSUME Len(kept) > 1 PROVE kept[1].age - kept[Len(kept)].age <= Window
      BY DEF Spread
    <2>1. front # Len(deque)
      BY <1>0, <1>5, <1>4
    <2>2. deque[front].age <= Window /\ deque[front].age \in Nat
      <3>1. deque[front] \in SampleType
        BY <1>0, <1>4
      <3>2. deque[front].age \in Nat
        BY <3>1 DEF SampleType, Oldest
      <3> QED BY <3>2, <1>40, <2>1
    <2> QED BY <2>2, <1>6
  <1>9. kept = Average!Trimmed(deque)
    BY DEF kept, front, fits, Average!Trimmed
  <1> QED BY <1>5, <1>6, <1>7, <1>8, <1>9

\* What is no further apart than something within a gap is within it.
LEMMA Closer ==
    ASSUME NEW a \in Int, NEW b \in Int, NEW x \in Int, NEW y \in Int, NEW gap \in Int,
           x - y <= a - b, a - b <= gap
    PROVE  x - y <= gap
  OBVIOUS

LEMMA NextAverage == AverageInv /\ Average!Next => AverageInv'
  <1> SUFFICES ASSUME AverageInv, Average!Next PROVE AverageInv'
    OBVIOUS
  <1> USE SensorsAssumption
  <1>1. ASSUME NEW mark0 \in Average!Statuses, NEW mark, Average!Restart(mark0, mark),
               mark \in {"unavailable", "zero"}
        PROVE  AverageInv'
    BY <1>1 DEF AverageInv, Stretch, Spread, Average!Restart, Oldest
  <1>2. CASE Average!Implausible \/ Average!Unread
    BY <1>2 DEF AverageInv, Stretch, Spread, Average!Implausible, Average!Unread
  <1>3. ASSUME NEW mark0 \in Average!Statuses, Average!Sample(mark0)
        PROVE  AverageInv'
    <2> DEFINE kept == Average!Kept(mark0)
               added == [age |-> 0, status |-> mark0]
               deque == Append(kept, added)
    <2>1. /\ kept \in Seq(SampleType) /\ Stretch(kept, mark0)
          /\ kept # <<>> => kept[Len(kept)].age <= SuspendGap
      <3>1. CASE kept = <<>>
        BY <3>1 DEF Stretch
      <3>2. CASE kept # <<>>
        <4>1. kept = samples /\ status \in {Nil, mark0} /\ (since = Nil \/ ~(since > SuspendGap))
          BY <3>2 DEF Average!Kept
        <4>2. status = mark0 /\ since \in 0 .. Oldest /\ samples[Len(samples)].age = since
          BY <4>1, <3>2 DEF AverageInv
        <4> QED BY <4>1, <4>2 DEF AverageInv, Stretch, Oldest
      <3> QED BY <3>1, <3>2
    <2>2. added \in SampleType
      BY DEF SampleType, Oldest
    <2> HIDE DEF kept, added
    <2>3. /\ deque \in Seq(SampleType) /\ Len(deque) = Len(kept) + 1
          /\ \A i \in 1 .. Len(kept) : deque[i] = kept[i]
          /\ deque[Len(deque)] = added
      BY <2>1, <2>2
    <2>4. added.age = 0 /\ added.status = mark0
      BY DEF added
    <2> HIDE DEF deque
    <2>5. Stretch(deque, mark0)
      <3>0. Len(kept) \in Nat
        BY <2>1
      <3>1. Len(kept) \in Nat /\ \A i \in 1 .. Len(kept) : kept[i].age \in Nat
        <4>1. ASSUME NEW i \in 1 .. Len(kept) PROVE kept[i] \in SampleType
          BY <2>1
        <4>2. \A sample \in SampleType : sample.age \in Nat
          BY DEF SampleType, Oldest
        <4> QED BY <3>0, <4>1, <4>2
      <3>2. ASSUME NEW i \in 1 .. Len(deque) PROVE deque[i].status = mark0
        <4>1. CASE i = Len(deque)
          BY <4>1, <2>3, <2>4
        <4>2. CASE i # Len(deque)
          <5>1. i \in 1 .. Len(kept)
            BY <4>2, <2>3, <3>0
          <5> QED BY <5>1, <2>1, <2>3 DEF Stretch
        <4> QED BY <4>1, <4>2
      <3>3. ASSUME NEW i \in 1 .. Len(deque), NEW j \in 1 .. Len(deque), i < j
            PROVE  deque[i].age >= deque[j].age
        <4>1. CASE j = Len(deque)
          BY <4>1, <2>3, <2>4, <3>1, <3>3
        <4>2. CASE j # Len(deque)
          <5>1. i \in 1 .. Len(kept) /\ j \in 1 .. Len(kept)
            BY <4>2, <2>3, <3>1, <3>3
          <5> QED BY <5>1, <3>3, <2>1, <2>3 DEF Stretch
        <4> QED BY <4>1, <4>2
      <3>4. ASSUME NEW i \in 1 .. Len(deque) - 1
            PROVE  deque[i].age - deque[i + 1].age <= SuspendGap
        <4>1. CASE i = Len(kept)
          <5>1. kept # <<>> /\ deque[i] = kept[Len(kept)] /\ deque[i + 1] = added
            BY <4>1, <2>3, <3>1
          <5>2. deque[i].age \in Nat /\ deque[i].age <= SuspendGap
            BY <5>1, <2>1, <3>1, <4>1, <2>3
          <5> QED BY <5>1, <5>2, <2>4
        <4>2. CASE i # Len(kept)
          <5>1. i \in 1 .. Len(kept) - 1 /\ i + 1 \in 1 .. Len(kept)
            BY <4>2, <2>3, <3>0
          <5>2. kept[i].age - kept[i + 1].age <= SuspendGap
            BY <5>1, <2>1 DEF Stretch
          <5>3. deque[i] = kept[i] /\ deque[i + 1] = kept[i + 1]
            BY <5>1, <2>3, <3>0
          <5> QED BY <5>2, <5>3
        <4> QED BY <4>1, <4>2
      <3> QED BY <2>3, <3>2, <3>3, <3>4 DEF Stretch
    <2>6. samples' = Average!Trimmed(deque) /\ status' = mark0 /\ since' = 0
          /\ result' \in {"sampling", "average"}
      BY <1>3 DEF Average!Sample, deque, kept, added
    <2>7. /\ Stretch(samples', mark0) /\ Spread(samples')
          /\ Len(samples') \in 1 .. MaxSamples /\ samples'[Len(samples')].age = 0
      BY <2>3, <2>4, <2>5, <2>6, TrimmedStretch
    <2>8. /\ samples' # <<>> /\ Len(samples') <= MaxSamples /\ since' \in 0 .. Oldest
          /\ samples'[Len(samples')].age = since'
          /\ status' \in Average!Statuses /\ status' # Nil
      BY <2>6, <2>7 DEF Oldest
    <2>9. Stretch(samples', status') /\ Spread(samples')
      BY <2>6, <2>7
    <2>10. result' \in {"none", "error", "unavailable", "zero", "cached", "sampling", "average"}
      BY <2>6
    <2> QED BY <2>8, <2>9, <2>10 DEF AverageInv
  <1>4. CASE Average!Tick
    <2>1. ASSUME NEW a \in 0 .. Oldest
          PROVE  Average!Older(a) \in 0 .. Oldest /\ Average!Older(a) \in Int /\ a \in Int
      BY DEF Oldest, Average!Older
    <2>2. ASSUME NEW a \in 0 .. Oldest, NEW b \in 0 .. Oldest, b <= a
          PROVE  /\ Average!Older(b) <= Average!Older(a)
                 /\ Average!Older(a) - Average!Older(b) <= a - b
      BY <2>2 DEF Oldest, Average!Older
    <2>3. /\ DOMAIN samples' = DOMAIN samples /\ Len(samples') = Len(samples)
          /\ samples' \in Seq(SampleType)
          /\ \A i \in 1 .. Len(samples) :
               samples'[i] = [samples[i] EXCEPT !.age = Average!Older(samples[i].age)]
      <3>1. samples \in Seq(SampleType) /\ DOMAIN samples = 1 .. Len(samples) /\ Len(samples) \in Nat
        BY DEF AverageInv, Stretch
      <3>2. samples' = [i \in 1 .. Len(samples) |->
                          [samples[i] EXCEPT !.age = Average!Older(samples[i].age)]]
        BY <1>4, <3>1 DEF Average!Tick
      <3>3. \A i \in 1 .. Len(samples) :
              [samples[i] EXCEPT !.age = Average!Older(samples[i].age)] \in SampleType
        <4>1. ASSUME NEW sample \in SampleType
              PROVE  [sample EXCEPT !.age = Average!Older(sample.age)] \in SampleType
          BY <2>1 DEF SampleType
        <4> QED BY <3>1, <4>1
      <3> QED BY <3>1, <3>2, <3>3
    <2>4. \A i \in 1 .. Len(samples) :
            /\ samples[i].age \in 0 .. Oldest
            /\ samples'[i].age = Average!Older(samples[i].age)
            /\ samples'[i].status = samples[i].status
      <3>1. ASSUME NEW i \in 1 .. Len(samples) PROVE samples[i] \in SampleType
        BY DEF AverageInv, Stretch
      <3> QED BY <2>3, <3>1 DEF SampleType
    <2>5. status' = status /\ result' = result
          /\ since' = IF since = Nil THEN Nil ELSE Average!Older(since)
      BY <1>4 DEF Average!Tick
    <2>6. Stretch(samples', status')
      <3>0. Len(samples) \in Nat
        BY DEF AverageInv, Stretch
      <3>1. \A i \in 1 .. Len(samples) : samples'[i].status = status'
        BY <2>4, <2>5 DEF AverageInv, Stretch
      <3>2. ASSUME NEW i \in 1 .. Len(samples), NEW j \in 1 .. Len(samples), i < j
            PROVE  samples'[i].age >= samples'[j].age
        <4>1. samples[i].age >= samples[j].age
          BY <3>2 DEF AverageInv, Stretch
        <4>2. Average!Older(samples[j].age) <= Average!Older(samples[i].age)
          BY <4>1, <2>2, <2>4 DEF Oldest
        <4>3. Average!Older(samples[j].age) \in Int /\ Average!Older(samples[i].age) \in Int
          BY <2>1, <2>4
        <4> QED BY <4>2, <4>3, <2>4
      <3>3. ASSUME NEW i \in 1 .. Len(samples) - 1
            PROVE  samples'[i].age - samples'[i + 1].age <= SuspendGap
        <4> DEFINE a == samples[i].age
                   b == samples[i + 1].age
        <4>0. i \in 1 .. Len(samples) /\ i + 1 \in 1 .. Len(samples) /\ i < i + 1
          BY <3>0
        <4>1. a \in 0 .. Oldest /\ b \in 0 .. Oldest
          BY <4>0, <2>4
        <4>2. b <= a /\ a - b <= SuspendGap
          BY <4>0, <4>1 DEF AverageInv, Stretch
        <4>3. samples'[i].age = Average!Older(a) /\ samples'[i + 1].age = Average!Older(b)
          BY <4>0, <2>4
        <4> HIDE DEF a, b
        <4>4. Average!Older(a) - Average!Older(b) <= a - b
          BY <4>1, <4>2, <2>2
        <4>5. Average!Older(a) - Average!Older(b) <= SuspendGap
          BY <4>1, <4>2, <4>4, <2>1, Closer
        <4> QED BY <4>3, <4>5
      <3> QED BY <2>3, <3>1, <3>2, <3>3 DEF Stretch
    <2>7. Spread(samples')
      <3> SUFFICES ASSUME Len(samples) > 1
                   PROVE  samples'[1].age - samples'[Len(samples)].age <= Window
        BY <2>3 DEF Spread
      <3> DEFINE a == samples[1].age
                 b == samples[Len(samples)].age
      <3>0. 1 \in 1 .. Len(samples) /\ Len(samples) \in 1 .. Len(samples) /\ 1 < Len(samples)
        BY DEF AverageInv, Stretch
      <3>1. a \in 0 .. Oldest /\ b \in 0 .. Oldest
        BY <3>0, <2>4
      <3>2. b <= a /\ a - b <= Window
        BY <3>0, <3>1 DEF AverageInv, Stretch, Spread
      <3>3. samples'[1].age = Average!Older(a) /\ samples'[Len(samples)].age = Average!Older(b)
        BY <3>0, <2>4
      <3> HIDE DEF a, b
      <3>4. Average!Older(a) - Average!Older(b) <= a - b
        BY <3>1, <3>2, <2>2
      <3>5. Average!Older(a) - Average!Older(b) <= Window
        BY <3>1, <3>2, <3>4, <2>1, Closer
      <3> QED BY <3>3, <3>5
    <2>8. samples' # <<>> =>
            since' \in 0 .. Oldest /\ samples'[Len(samples')].age = since'
      <3> SUFFICES ASSUME samples' # <<>>
                   PROVE  since' \in 0 .. Oldest /\ samples'[Len(samples')].age = since'
        OBVIOUS
      <3>1. samples # <<>> /\ Len(samples) \in 1 .. Len(samples)
        BY <2>3 DEF AverageInv, Stretch
      <3>2. since \in 0 .. Oldest /\ samples[Len(samples)].age = since
        BY <3>1 DEF AverageInv
      <3> QED BY <3>1, <3>2, <2>1, <2>3, <2>4, <2>5 DEF Oldest
    <2>9. since' \in 0 .. Oldest \cup {Nil}
      BY <2>1, <2>5 DEF AverageInv
    <2>10. samples = <<>> => samples' = <<>>
      BY <2>3 DEF AverageInv, Stretch
    <2> QED BY <2>3, <2>5, <2>6, <2>7, <2>8, <2>9, <2>10 DEF AverageInv
  <1> QED BY <1>1, <1>2, <1>3, <1>4
    DEF Average!Next, Average!Collect, Average!Unavailable, Average!Rest

LEMMA AverageFollowed == AverageInv => Average!TypeOK /\ Average!OneStretch
  BY SensorsAssumption
  DEF AverageInv, Stretch, Spread, Average!TypeOK, Average!OneStretch

-----------------------------------------------------------------------------
(* The behaviours of the sensors among those of the services.                            *)

SensorsInv ==
    /\ machine = "power" => SupplyInv
    /\ machine = "network" => NetworkInv
    /\ machine = "average" => AverageInv

LEMMA InitSensors == InitAll => SensorsInv
  BY InitSupply, InitNetwork, InitAverage DEF InitAll, SensorsInv

LEMMA NextSensors == SensorsInv /\ [NextAll]_all => SensorsInv'
  <1> SUFFICES ASSUME SensorsInv, [NextAll]_all PROVE SensorsInv'
    OBVIOUS
  <1>1. machine' = machine
    BY DEF NextAll, all
  <1>2. ASSUME machine = "power" PROVE SupplyInv'
    <2>1. SupplyInv
      BY <1>2 DEF SensorsInv
    <2>2. CASE NextAll
      <3>1. Supply!Next
        BY <1>2, <2>2, MachinesAssumption DEF NextAll, Others
      <3> QED BY <2>1, <3>1, NextSupply
    <2>3. CASE UNCHANGED all
      BY <2>1, <2>3 DEF SupplyInv, all, sensors, edge, power
    <2> QED BY <2>2, <2>3
  <1>3. ASSUME machine = "network" PROVE NetworkInv'
    <2>1. NetworkInv
      BY <1>3 DEF SensorsInv
    <2>2. CASE NextAll
      <3>1. Network!Next
        BY <1>3, <2>2, MachinesAssumption DEF NextAll, Others
      <3> QED BY <2>1, <3>1, NextNetwork
    <2>3. CASE UNCHANGED all
      BY <2>1, <2>3
      DEF NetworkInv, Network!NoStaleSnapshot, Network!Current, all, sensors, edge, link
    <2> QED BY <2>2, <2>3
  <1>4. ASSUME machine = "average" PROVE AverageInv'
    <2>1. AverageInv
      BY <1>4 DEF SensorsInv
    <2>2. CASE NextAll
      <3>1. Average!Next
        BY <1>4, <2>2, MachinesAssumption DEF NextAll, Others
      <3> QED BY <2>1, <3>1, NextAverage
    <2>3. CASE UNCHANGED all
      BY <2>1, <2>3 DEF AverageInv, Stretch, Spread, all, sensors, average
    <2> QED BY <2>2, <2>3
  <1> QED BY <1>1, <1>2, <1>3, <1>4 DEF SensorsInv

\* Whatever edges are lost and whatever is configured in between, the policy learns of a
\* change of the supply or of the network within the bounds of their timers, no card reads
\* a battery or a network from before what the policy knows, and an average of the power is
\* of one stretch of one status (sample_power_and_schedule, setup_network_monitor,
\* PowerMetric::collect): for all periods, lives of a reading and sizes of a window.
THEOREM SensorsAlwaysFollowed == SpecAll => []SensorsFollowed
  <1>1. SensorsInv => SensorsFollowed
    BY SupplyFollowed, NetworkFollowed, AverageFollowed DEF SensorsInv, SensorsFollowed
  <1> QED BY InitSensors, NextSensors, <1>1, PTL DEF SpecAll

-----------------------------------------------------------------------------
(* The migration of the documents.  A document of the run under way is a v3 one without  *)
(* a backup of its own; what the phase has done tells where its text is.                 *)

\* A phase goes to a document it has still to do.
LEMMA InTurn ==
    ASSUME NEW docs \in SUBSET Move!Paths, docs # {}
    PROVE  Move!FirstOf(docs) \in docs /\ Move!LastOf(docs) \in docs
  <1>1. Len(Documents) \in Nat /\ DOMAIN Documents = 1 .. Len(Documents)
    BY MoveAssumption
  <1>2. \A d \in docs : Move!Rank(d) \in 1 .. Len(Documents)
    <2> SUFFICES ASSUME NEW d \in docs PROVE Move!Rank(d) \in 1 .. Len(Documents)
      OBVIOUS
    <2>1. \E n \in DOMAIN Documents : Documents[n] = d
      BY DEF Move!Paths, Move!ToSet
    <2> QED BY <2>1, <1>1 DEF Move!Rank
  <1>3. \E d \in docs : \A other \in docs : Move!Rank(d) <= Move!Rank(other)
    <2> DEFINE ranks == {Move!Rank(d) : d \in docs}
    <2>1. ranks \subseteq Nat /\ ranks # {}
      BY <1>1, <1>2
    <2>2. PICK first \in ranks : \A other \in ranks : first <= other
      <3> HIDE DEF ranks
      <3> QED BY <2>1, FirstDeadline
    <2> QED BY <2>2
  <1>4. \E d \in docs : \A other \in docs : Move!Rank(other) <= Move!Rank(d)
    <2> DEFINE ranks == {Len(Documents) - Move!Rank(d) : d \in docs}
    <2>1. ranks \subseteq Nat /\ ranks # {}
      BY <1>1, <1>2
    <2>2. PICK first \in ranks : \A other \in ranks : first <= other
      <3> HIDE DEF ranks
      <3> QED BY <2>1, FirstDeadline
    <2>3. PICK d \in docs : first = Len(Documents) - Move!Rank(d)
      BY <2>2
    <2>4. \A other \in docs : Len(Documents) - Move!Rank(d) <= Len(Documents) - Move!Rank(other)
      BY <2>2, <2>3
    <2> QED BY <1>1, <1>2, <2>4
  <1> QED BY <1>3, <1>4 DEF Move!FirstOf, Move!LastOf

MoveTyped ==
    /\ origin \in [file   : [Move!Paths -> {"v3", "v4", "strange", Nil}],
                   backup : [Move!Paths -> {Nil, "older"}]]
    /\ files  \in [Move!Paths -> Move!Texts \cup {Nil}]
    /\ backup \in [Move!Paths -> Move!Texts \cup {Nil}]
    /\ temp   \in [Move!Paths -> Move!Texts \cup {Nil}]
    /\ pc \in {"idle", "write", "backup", "install", "validate", "unlink", "restore"}
    /\ todo \subseteq converted /\ converted \subseteq Move!Paths
    /\ pc # "idle" => todo # {}
    /\ report \in {"none", "refused", "current", "migrated", "restored", "incomplete"}

Untouched(d) == files[d] = "v3" /\ backup[d] = Nil

\* Nothing becomes a v3 document that was not one.
Preserved ==
    \A d \in Move!Paths :
        /\ origin.file[d] # Nil => origin.file[d] \in {files[d], backup[d]}
        /\ origin.backup[d] # Nil => backup[d] = origin.backup[d]
        /\ files[d] = "v3" => origin.file[d] = "v3"

\* Where the phase has brought the document d of the run.
Progress(d) ==
    /\ origin.file[d] = "v3" /\ origin.backup[d] = Nil
    /\ pc = "write" => Untouched(d) /\ (d \notin todo => temp[d] = "v4")
    /\ pc = "backup" =>
         /\ temp[d] = "v4"
         /\ d \in todo => Untouched(d)
         /\ d \notin todo => backup[d] = "v3"
    /\ pc = "install" =>
         /\ backup[d] = "v3"
         /\ d \in todo => temp[d] = "v4"
         /\ d \notin todo => files[d] = "v4"
    /\ pc = "validate" => files[d] = "v4" /\ backup[d] = "v3"
    /\ pc \in {"unlink", "restore"} =>
         /\ d \in todo => backup[d] = "v3"
         /\ d \notin todo /\ report = "restored" => Untouched(d)

MoveInv ==
    /\ MoveTyped /\ Preserved
    /\ pc # "idle" => \A d \in converted : Progress(d)
    /\ pc \in {"unlink", "restore"} => report \in {"restored", "incomplete"}
    /\ Move!ReportTrue

LEMMA InitMove == Move!Init => MoveInv
  BY MoveAssumption
  DEF Move!Init, MoveInv, MoveTyped, Preserved, Move!ReportTrue, Move!Texts

LEMMA NextMove == MoveInv /\ Move!Next => MoveInv'
  <1> SUFFICES ASSUME MoveInv, Move!Next PROVE MoveInv'
    OBVIOUS
  <1> USE MoveAssumption
  <1>0. pc # "idle" => /\ Move!FirstOf(todo) \in todo /\ Move!LastOf(todo) \in todo
                       /\ todo \subseteq Move!Paths
    BY InTurn DEF MoveInv, MoveTyped
  <1>1. CASE Move!Migrate
    BY <1>1 DEF Move!Migrate, Move!Refused, Move!ToConvert, Move!Present, MoveInv, MoveTyped,
                Preserved, Progress, Untouched, Move!ReportTrue, Move!Texts
  <1>2. CASE Move!WriteTemporary
    BY <1>2, <1>0
    DEF Move!WriteTemporary, Move!Advance, Move!Abort, Move!NoTemps, MoveInv, MoveTyped,
        Preserved, Progress, Untouched, Move!ReportTrue, Move!Texts
  <1>3. CASE Move!Backup
    BY <1>3, <1>0
    DEF Move!Backup, Move!Advance, Move!Abort, Move!BackedUp, Move!NoTemps, MoveInv, MoveTyped,
        Preserved, Progress, Untouched, Move!ReportTrue, Move!Texts
  <1>4. CASE Move!Install
    <2> DEFINE d == Move!FirstOf(todo)
    <2>0. pc = "install" /\ UNCHANGED <<backup, origin, merges, converted, runs>>
      BY <1>4 DEF Move!Install
    <2>01. d \in todo /\ d \in converted /\ d \in Move!Paths
      BY <2>0, <1>0 DEF MoveInv, MoveTyped
    <2>02. \A other \in converted : Progress(other)
      BY <2>0 DEF MoveInv
    <2>03. temp[d] = "v4"
      <3> HIDE DEF d
      <3> QED BY <2>0, <2>01, <2>02 DEF Progress
    <2>04. \A other \in converted :
             backup[other] = "v3" /\ origin.file[other] = "v3" /\ origin.backup[other] = Nil
      BY <2>0, <2>02 DEF Progress
    <2>1. CASE /\ Move!Fails /\ temp' = Move!NoTemps /\ Move!Abort(converted)
               /\ UNCHANGED files
      <3>1. todo' = converted /\ report' = "restored" /\ pc' = "unlink"
        BY <2>01, <2>1 DEF Move!Abort
      <3>2. MoveTyped'
        BY <2>0, <2>01, <2>1, <3>1 DEF Move!NoTemps, MoveInv, MoveTyped
      <3>3. Preserved'
        BY <2>0, <2>1 DEF MoveInv, Preserved
      <3>4. ASSUME NEW other \in converted PROVE Progress(other)'
        BY <2>0, <2>04, <2>1, <3>1 DEF Progress
      <3> QED BY <2>0, <3>1, <3>2, <3>3, <3>4 DEF MoveInv, Move!ReportTrue
    <2>2. CASE /\ files' = [files EXCEPT ![d] = temp[d]]
               /\ temp' = [temp EXCEPT ![d] = Nil]
               /\ Move!Advance("validate") /\ UNCHANGED <<failures, report>>
      <3>1. MoveTyped'
        BY <2>0, <2>01, <2>02, <2>03, <2>04, <2>2 DEF Move!Advance, MoveInv, MoveTyped, Move!Texts
      <3>2. Preserved'
        BY <2>0, <2>01, <2>02, <2>03, <2>04, <2>2 DEF MoveInv, MoveTyped, Preserved
      <3>3. ASSUME NEW other \in converted PROVE Progress(other)'
        BY <2>0, <2>01, <2>02, <2>03, <2>04, <2>2 DEF Move!Advance, MoveInv, MoveTyped, Progress
      <3>4. pc' \in {"install", "validate"}
        BY <2>0, <2>01, <2>02, <2>03, <2>04, <2>2 DEF Move!Advance
      <3> QED BY <2>0, <2>01, <2>02, <2>03, <2>04, <3>1, <3>2, <3>3, <3>4 DEF MoveInv, Move!ReportTrue
    <2> QED BY <1>4, <2>1, <2>2 DEF Move!Install
  <1>5. CASE Move!Validate
    BY <1>5, <1>0
    DEF Move!Validate, Move!Abort, MoveInv, MoveTyped,
        Preserved, Progress, Untouched, Move!ReportTrue, Move!Texts
  <1>6. CASE Move!Unlink
    BY <1>6, <1>0
    DEF Move!Unlink, Move!RollNext, MoveInv, MoveTyped,
        Preserved, Progress, Untouched, Move!ReportTrue, Move!Texts
  <1>7. CASE Move!Restore
    BY <1>7, <1>0
    DEF Move!Restore, Move!RollNext, MoveInv, MoveTyped,
        Preserved, Progress, Untouched, Move!ReportTrue, Move!Texts
  <1>8. CASE Move!Crash
    BY <1>8, <1>0
    DEF Move!Crash, MoveInv, MoveTyped,
        Preserved, Progress, Untouched, Move!ReportTrue, Move!Texts
  <1>9. CASE Move!StartApplication
    <2> DEFINE d == Move!RootPath
    <2>0. /\ files[d] = Nil /\ files' = [files EXCEPT ![d] = "shipped"]
          /\ UNCHANGED <<backup, temp, origin, merges, pc, todo, converted, report>>
      BY <1>9 DEF Move!StartApplication
    <2>1. d \in Move!Paths /\ \A other \in Move!Paths : files'[other] # files[other] => other = d
      BY <2>0 DEF Move!RootPath, Move!Paths, Move!ToSet, MoveInv, MoveTyped
    <2> HIDE DEF d
    <2>2. MoveTyped'
      BY <2>0, <2>1 DEF MoveInv, MoveTyped, Move!Texts
    <2>3. Preserved'
      BY <2>0, <2>1 DEF MoveInv, MoveTyped, Preserved, Move!Texts
    <2>4. ASSUME NEW other \in converted, Progress(other) PROVE Progress(other)'
      BY <2>0, <2>1, <2>4 DEF MoveInv, MoveTyped, Progress, Untouched, Move!Texts
    <2>5. Move!ReportTrue'
      BY <2>0, <2>1 DEF MoveInv, MoveTyped, Move!ReportTrue, Move!Texts
    <2> QED BY <2>0, <2>2, <2>3, <2>4, <2>5 DEF MoveInv
  <1> QED BY <1>1, <1>2, <1>3, <1>4, <1>5, <1>6, <1>7, <1>8, <1>9 DEF Move!Next

LEMMA MoveFollowed == MoveInv => Move!TypeOK /\ Move!NoDocumentLost /\ Move!ReportTrue
  BY DEF MoveInv, MoveTyped, Preserved, Move!TypeOK, Move!NoDocumentLost

LEMMA NextMoves == (machine = "move" => MoveInv) /\ [NextAll]_all => (machine = "move" => MoveInv)'
  <1> SUFFICES ASSUME machine = "move" => MoveInv, [NextAll]_all, (machine = "move")'
               PROVE  MoveInv'
    OBVIOUS
  <1>1. machine = "move" /\ MoveInv
    BY DEF NextAll, all
  <1>2. CASE NextAll
    <2>1. Move!Next
      BY <1>1, <1>2, MachinesAssumption DEF NextAll, Others
    <2> QED BY <1>1, <2>1, NextMove
  <1>3. CASE UNCHANGED all
    BY <1>1, <1>3
    DEF MoveInv, MoveTyped, Preserved, Progress, Untouched, Move!ReportTrue, all, moves
  <1> QED BY <1>2, <1>3

\* Wherever a migration or its rollback fails or dies, the text of every document is at its
\* path or in its backup, no older backup is overwritten, and what the run reports is so
\* (migrate, rollback_documents): for any documents and any number of runs, failures and
\* crashes.
THEOREM DocumentsAlwaysKept == SpecAll => []NoDocumentLost
  <1>1. InitAll => (machine = "move" => MoveInv)
    BY InitMove DEF InitAll
  <1>2. (machine = "move" => MoveInv) => NoDocumentLost
    BY MoveFollowed DEF NoDocumentLost
  <1> QED BY <1>1, NextMoves, <1>2, PTL DEF SpecAll

-----------------------------------------------------------------------------
(* The card with a fixed schedule: between two slots nothing is due, and the deadline of *)
(* an evaluation is at most a second behind the slot it waits for.                        *)

\* The first of a set of slots, and the last of one that has an end.
LEMMA FirstSlot ==
    ASSUME NEW set \in SUBSET Nat, set # {}
    PROVE  Slots!Min(set) \in set /\ \A s \in set : Slots!Min(set) <= s
  BY FirstDeadline DEF Slots!Min

LEMMA LastSlot ==
    ASSUME NEW end \in Nat, NEW set \in SUBSET (0 .. end), set # {}
    PROVE  Slots!Max(set) \in set /\ \A s \in set : s <= Slots!Max(set)
  <1> DEFINE left == {end - s : s \in set}
  <1>1. PICK first \in left : \A other \in left : first <= other
    <2>0. \A s \in set : end - s \in Nat
      BY set \subseteq 0 .. end
    <2>1. left \in SUBSET Nat /\ left # {}
      BY <2>0

    <2> HIDE DEF left
    <2> QED BY <2>1, FirstDeadline
  <1>2. PICK last \in set : first = end - last
    OBVIOUS
  <1>3. \A s \in set : end - last <= end - s
    BY <1>1, <1>2
  <1>4. \A s \in set : s <= last
    BY <1>3
  <1>6. \E x \in set : \A y \in set : x >= y
    BY <1>4
  <1>7. \A x, y \in set : x >= y => y <= x
    OBVIOUS
  <1> QED BY <1>6, <1>7 DEF Slots!Max

\* A day is as long as any other, and its slots lie in it.
LEMMA InDay ==
    ASSUME NEW instant \in Nat
    PROVE  /\ Slots!Day(instant) \in Nat
           /\ Slots!Day(instant) * DayLength \in Nat
           /\ Slots!Day(instant) * DayLength <= instant
           /\ instant < (Slots!Day(instant) + 1) * DayLength
  <1>0. DayLength \in Nat \ {0}
    <2>1. PICK t \in SlotTimes : t \in 0 .. DayLength - 1
      BY ScheduleAssumption
    <2> QED BY <2>1, ScheduleAssumption
  <1> DEFINE q
 == instant \div DayLength
             r == instant % DayLength
  <1>1. q \in Nat /\ r \in 0 .. DayLength - 1 /\ instant = DayLength * q + r
    BY <1>0
  <1> HIDE DEF q, r
  <1>2. q * DayLength = DayLength * q /\ (q + 1) * DayLength = DayLength * q + DayLength
    BY <1>0, <1>1
  <1>3. DayLength * q \in Nat
    BY <1>0, <1>1
  <1>4. q * DayLength \in Nat /\ q * DayLength <= instant /\ instant < (q + 1) * DayLength
    <2> DEFINE start == DayLength * q
    <2>1. start \in Nat /\ instant = start + r /\ r >= 0 /\ r < DayLength /\ r \in Int
      BY <1>0, <1>1, <1>3
    <2>2. q * DayLength = start /\ (q + 1) * DayLength = start + DayLength
      BY <1>2
    <2> HIDE DEF start
    <2> QED BY <1>0, <2>1, <2>2
  <1> QED BY <1>1, <1>4 DEF q, Slots!Day


LEMMA DaysInOrder ==
    \A a, b \in Nat : a < b =>
        /\ a * DayLength \in Nat /\ b * DayLength \in Nat
        /\ (a + 1) * DayLength <= b * DayLength
        /\ (a + 1) * DayLength = a * DayLength + DayLength
  <1>1. \A a, b, c \in Nat : a <= b => a * c <= b * c
    OBVIOUS
  <1>2. \A a, c \in Nat : (a + 1) * c = a * c + c /\ a * c \in Nat
    OBVIOUS
  <1>3. \A a, b \in Nat : a < b => a + 1 \in Nat /\ a + 1 <= b
    OBVIOUS
  <1> QED BY <1>1, <1>2, <1>3, ScheduleAssumption

LEMMA SlotsInDay ==
    ASSUME NEW day \in Nat
    PROVE  /\ Slots!SlotsOn(day) # {}
           /\ \A s \in Slots!SlotsOn(day) :
                s \in Nat /\ day * DayLength <= s /\ s < (day + 1) * DayLength
  <1>1. day * DayLength \in Nat /\ (day + 1) * DayLength = day * DayLength + DayLength
    BY ScheduleAssumption
  <1> DEFINE start == day * DayLength
  <1>2. \A t \in SlotTimes : t \in Nat /\ t < DayLength
    BY ScheduleAssumption
  <1>3. Slots!SlotsOn(day) = {start + t : t \in SlotTimes}
    BY DEF Slots!SlotsOn
  <1>4. start \in Nat /\ (day + 1) * DayLength = start + DayLength
    BY <1>1
  <1> HIDE DEF start
  <1>5. \A t \in SlotTimes : start + t \in Nat /\ start <= start + t /\ start + t < start + DayLength
    BY <1>2, <1>4, ScheduleAssumption
  <1>6. SlotTimes # {}
    BY ScheduleAssumption
  <1> QED BY <1>3, <1>4, <1>5, <1>6 DEF start

\* No slot lies between an instant and the next one.
LEMMA NextIsFirst ==
    ASSUME NEW instant \in Nat
    PROVE  /\ Slots!NextSlot(instant) \in Nat /\ Slots!NextSlot(instant) > instant
           /\ \A day \in Nat : \A s \in Slots!SlotsOn(day) :
                s > instant => Slots!NextSlot(instant) <= s
  <1> DEFINE today == Slots!Day(instant)
             later == {s \in Slots!SlotsOn(today) : s > instant}
  <1>1. today \in Nat /\ today + 1 \in Nat
    BY InDay
  <1>2. instant < (today + 1) * DayLength /\ today * DayLength <= instant
    BY InDay
  <1> HIDE DEF today
  <1>3. \A s \in Slots!SlotsOn(today) : s \in Nat /\ s < (today + 1) * DayLength
    BY <1>1, SlotsInDay
  <1>4. \A s \in Slots!SlotsOn(today + 1) : s \in Nat /\ (today + 1) * DayLength <= s
                                             /\ s < (today + 1 + 1) * DayLength
    BY <1>1, SlotsInDay
  <1>4a. Slots!SlotsOn(today + 1) # {}
    BY <1>1, SlotsInDay
  <1>5. Slots!NextSlot(instant) = Slots!Min(IF later # {} THEN later ELSE Slots!SlotsOn(today + 1))
    BY DEF Slots!NextSlot, today
  <1>6. later \in SUBSET Nat /\ Slots!SlotsOn(today + 1) \in SUBSET Nat
    BY <1>3, <1>4
  <1>7. (today + 1) * DayLength \in Nat
    BY <1>1, ScheduleAssumption
  <1>8. ASSUME NEW day \in Nat, NEW s \in Slots!SlotsOn(day), s > instant
        PROVE  s \in Nat /\ day * DayLength <= s /\ ~(day < today)
    <2>1. s \in Nat /\ day * DayLength <= s /\ s < (day + 1) * DayLength
      BY SlotsInDay
    <2>2. ASSUME day < today PROVE FALSE
      <3>1. (day + 1) * DayLength <= today * DayLength
        BY <1>1, <2>2, DaysInOrder
      <3>2. (day + 1) * DayLength \in Nat /\ today * DayLength \in Nat
        BY <1>1, ScheduleAssumption
      <3> QED BY <1>2, <1>8, <2>1, <3>1, <3>2
    <2> QED BY <2>1, <2>2
  <1>9. CASE later # {}
    <2>1. Slots!NextSlot(instant) = Slots!Min(later)
      BY <1>5, <1>9
    <2>2. Slots!Min(later) \in later /\ \A s \in later : Slots!Min(later) <= s
      BY <1>6, <1>9, FirstSlot
    <2>3. ASSUME NEW day \in Nat, NEW s \in Slots!SlotsOn(day), s > instant
          PROVE  Slots!NextSlot(instant) <= s
      <3>1. CASE day = today
        <4>1. s \in later
          BY <2>3, <3>1
        <4> QED BY <2>1, <2>2, <4>1
      <3>2. CASE today < day
        <4>1. (today + 1) * DayLength <= day * DayLength /\ day * DayLength \in Nat
          BY <1>1, <3>2, DaysInOrder
        <4>2. Slots!Min(later) \in Nat /\ Slots!Min(later) < (today + 1) * DayLength
          BY <1>3, <2>2
        <4>3. s \in Nat /\ day * DayLength <= s
          BY <1>8, <2>3
        <4> QED BY <1>7, <2>1, <4>1, <4>2, <4>3
      <3>3. ~(day < today)
        BY <1>8, <2>3
      <3> QED BY <1>1, <3>1, <3>2, <3>3
    <2>4. Slots!NextSlot(instant) \in Nat /\ Slots!NextSlot(instant) > instant
      BY <1>3, <2>1, <2>2
    <2> QED BY <2>3, <2>4
  <1>10. CASE later = {}
    <2> DEFINE tomorrow == Slots!SlotsOn(today + 1)
    <2>1. Slots!NextSlot(instant) = Slots!Min(tomorrow)
      BY <1>5, <1>10
    <2>2. Slots!Min(tomorrow) \in tomorrow /\ \A s \in tomorrow : Slots!Min(tomorrow) <= s
      BY <1>4a, <1>6, FirstSlot
    <2>3. ASSUME NEW day \in Nat, NEW s \in Slots!SlotsOn(day), s > instant
          PROVE  Slots!NextSlot(instant) <= s
      <3>0. day # today
        BY <1>10, <2>3
      <3>1. CASE day = today + 1
        BY <2>1, <2>2, <3>1
      <3>2. CASE today + 1 < day
        <4>1. (today + 1 + 1) * DayLength <= day * DayLength /\ day * DayLength \in Nat
          BY <1>1, <3>2, DaysInOrder
        <4>2. Slots!Min(tomorrow) \in Nat /\ Slots!Min(tomorrow) < (today + 1 + 1) * DayLength
          BY <1>4, <2>2
        <4>3. s \in Nat /\ day * DayLength <= s
          BY <1>8, <2>3
        <4>4. (today + 1 + 1) * DayLength \in Nat
          BY <1>1, ScheduleAssumption
        <4> QED BY <2>1, <4>1, <4>2, <4>3, <4>4
      <3>3. ~(day < today)
        BY <1>8, <2>3
      <3> QED BY <1>1, <3>0, <3>1, <3>2, <3>3
    <2>4. Slots!NextSlot(instant) \in Nat /\ Slots!NextSlot(instant) > instant
      BY <1>2, <1>4, <1>7, <2>1, <2>2
    <2> QED BY <2>3, <2>4
  <1> QED BY <1>9, <1>10

\* The slot an instant is in is the last that has come.
LEMMA PeriodIsLast ==
    ASSUME NEW instant \in Nat, Slots!Earlier(instant) # {}
    PROVE  /\ Slots!Period(instant) \in Slots!SlotsOn(Slots!Day(instant))
           /\ Slots!Period(instant) \in Nat /\ Slots!Period(instant) <= instant
           /\ Slots!Period(instant) # Nil
           /\ \A day \in Nat : \A s \in Slots!SlotsOn(day) :
                s <= instant => s <= Slots!Period(instant)
  <1> DEFINE today == Slots!Day(instant)
             earlier == Slots!Earlier(instant)
             last == Slots!Max(earlier)
  <1>1. today \in Nat /\ today + 1 \in Nat /\ today * DayLength \in Nat
        /\ today * DayLength <= instant /\ instant < (today + 1) * DayLength
    BY InDay
  <1>2. earlier = {s \in Slots!SlotsOn(today) : s <= instant}
    BY DEF Slots!Earlier
  <1>3. Slots!Period(instant) = last
    BY DEF Slots!Period
  <1> HIDE DEF today
  <1>4. \A s \in Slots!SlotsOn(today) : s \in Nat /\ today * DayLength <= s
    BY <1>1, SlotsInDay
  <1>5. earlier \in SUBSET (0 .. instant) /\ earlier # {}
    BY <1>2, <1>4
  <1> HIDE DEF earlier
  <1>6. last \in earlier /\ \A s \in earlier : s <= last
    BY <1>5, LastSlot
  <1>7. last \in Slots!SlotsOn(today) /\ last \in Nat /\ last <= instant /\ today * DayLength <= last
    BY <1>2, <1>4, <1>6
  <1> HIDE DEF last
  <1>8. ASSUME NEW day \in Nat, NEW s \in Slots!SlotsOn(day), s <= instant
        PROVE  s <= last
    <2>1. s \in Nat /\ day * DayLength <= s /\ s < (day + 1) * DayLength
      BY SlotsInDay
    <2>2. CASE day = today
      BY <1>2, <1>6, <1>8, <2>2
    <2>3. CASE day < today
      <3>1. (day + 1) * DayLength <= today * DayLength /\ (day + 1) * DayLength \in Nat
        BY <1>1, <2>3, DaysInOrder, ScheduleAssumption
      <3> QED BY <1>1, <1>7, <2>1, <3>1
    <2>4. CASE today < day
      <3>1. (today + 1) * DayLength <= day * DayLength /\ day * DayLength \in Nat
            /\ (today + 1) * DayLength \in Nat
        <4>1. CASE today + 1 = day
          BY <1>1, <4>1, ScheduleAssumption
        <4>2. CASE today + 1 < day
          BY <1>1, <2>4, DaysInOrder, ScheduleAssumption
        <4> QED BY <1>1, <2>4, <4>1, <4>2
      <3> QED BY <1>1, <1>8, <2>1, <3>1
    <2> QED BY <1>1, <2>2, <2>3, <2>4
  <1>9. last # Nil
    BY <1>7, ScheduleAssumption
  <1> QED BY <1>3, <1>7, <1>8, <1>9 DEF today

LEMMA NoPeriod ==
    ASSUME NEW instant \in Nat
    PROVE  Slots!Period(instant) = Nil <=> Slots!Earlier(instant) = {}
  BY PeriodIsLast DEF Slots!Period

\* next_deadline: a second at least, and less than one behind the slot.
LEMMA DeadlineBound ==
    ASSUME NEW instant \in Nat
    PROVE  /\ Slots!Deadline(instant) \in Nat
           /\ Slots!Deadline(instant) <= Slots!NextSlot(instant) + 1
  <1> DEFINE next == Slots!NextSlot(instant)
             whole == (next - instant) \div 2
  <1>1. next \in Nat /\ next > instant
    BY NextIsFirst
  <1> HIDE DEF next
  <1>2. whole \in Nat /\ 2 * whole <= next - instant
    BY <1>1
  <1> HIDE DEF whole
  <1>3. Slots!Max({1, whole}) = IF whole >= 1 THEN whole ELSE 1
    <2> DEFINE most == IF whole >= 1 THEN whole ELSE 1
    <2>1. most \in {1, whole} /\ \A y \in {1, whole} : most >= y
      BY <1>2
    <2>2. \A x \in {1, whole} : (\A y \in {1, whole} : x >= y) => x = most
      BY <1>2
    <2> HIDE DEF most
    <2>3. Slots!Max({1, whole}) \in {1, whole} /\ \A y \in {1, whole} : Slots!Max({1, whole}) >= y
      BY <2>1 DEF Slots!Max
    <2> QED BY <2>2, <2>3 DEF most
  <1>4. Slots!Deadline(instant) = instant + 2 * (IF whole >= 1 THEN whole ELSE 1)
    BY <1>3 DEF Slots!Deadline, Slots!NextDelay, whole, next
  <1>5. Slots!Deadline(instant) \in Nat /\ Slots!Deadline(instant) <= next + 1
    BY <1>1, <1>2, <1>4
  <1> QED BY <1>5 DEF next

\* The days of the application are those of its slots.
LEMMA InHorizon ==
    ASSUME NEW instant \in 0 .. Slots!Horizon
    PROVE  Slots!Day(instant) \in 0 .. Days
  <1>1. Slots!Day(instant) \in Nat /\ Slots!Day(instant) * DayLength <= instant
        /\ Slots!Day(instant) * DayLength \in Nat
    BY InDay
  <1>2. Days \in Nat /\ Days * DayLength \in Nat
    BY ScheduleAssumption
  <1>3. instant <= Days * DayLength - 1 /\ instant \in Nat
    BY <1>2 DEF Slots!Horizon
  <1> DEFINE today == Slots!Day(instant)
  <1> HIDE DEF today
  <1>4. today \in Nat /\ today * DayLength <= instant /\ today * DayLength \in Nat
    BY <1>1 DEF today
  <1>5. ASSUME Days < today PROVE FALSE
    <2>1. Days * DayLength + DayLength <= today * DayLength
      BY <1>2, <1>4, <1>5, DaysInOrder
    <2> QED BY <1>2, <1>3, <1>4, <2>1, ScheduleAssumption
  <1>6. today <= Days
    BY <1>2, <1>4, <1>5
  <1> QED BY <1>2, <1>4, <1>6 DEF today

LEMMA SlotsAreInstants ==
    /\ Slots!Slots \subseteq Nat
    /\ \A day \in 0 .. Days : Slots!SlotsOn(day) \subseteq Slots!Slots
    /\ \A s \in Slots!Slots : \E day \in Nat : s \in Slots!SlotsOn(day)
  <1>1. \A day \in 0 .. Days : day \in Nat
    BY ScheduleAssumption
  <1> QED BY <1>1, SlotsInDay DEF Slots!Slots

SlotsTyped ==
    /\ clock \in 0 .. Slots!Horizon /\ unclear \subseteq Slots!Slots /\ waits \in BOOLEAN
    /\ due \in Nat \cup {Nil} /\ (waits => due \in Nat)
    /\ cached \in Slots!Slots \cup {Nil}
    /\ flight = Nil \/ flight \in [slot : Slots!Slots, deadline : Nat]
    /\ shown \in {"nothing", "waiting", "error", "failed", "value"}
    /\ slot \in Slots!Slots \cup {Nil}
    /\ shown = "value" => slot # Nil
    /\ stored \in [Slots!Slots -> Nat]

\* What is on disk is of the last slot collected, and that one was collected once.
KeptOnce ==
    /\ cached # Nil => cached <= clock
    /\ \A s \in Slots!Slots : stored[s] # 0 => stored[s] = 1 /\ cached # Nil /\ s <= cached

\* A collection is for a slot behind the one on disk, and it is waited for no longer than
\* the evaluation it started from says.
Collecting ==
    flight # Nil =>
        /\ waits
        /\ cached # Nil => cached < flight.slot
        /\ \E i \in 0 .. clock : /\ Slots!Earlier(i) # {}
                                 /\ flight.slot = Slots!Period(i)
                                 /\ flight.deadline = Slots!Deadline(i)

Showing ==
    /\ waits /\ shown = "value" =>
         \E i \in 0 .. clock : /\ Slots!Earlier(i) # {}
                               /\ slot = Slots!Period(i) /\ due = Slots!Deadline(i)
    /\ waits /\ shown = "waiting" =>
         \E i \in 0 .. clock : Slots!Earlier(i) = {} /\ due = Slots!Deadline(i)

SlotsInv == SlotsTyped /\ KeptOnce /\ Collecting /\ Showing

LEMMA InitSlots == Slots!Init => SlotsInv
  <1> SUFFICES ASSUME Slots!Init PROVE SlotsInv
    OBVIOUS
  <1>1. 0 \in 0 .. Slots!Horizon
    <2>1. 0 \in Nat /\ DayLength \in Nat \ {0}
      <3>1. PICK t \in SlotTimes : t \in 0 .. DayLength - 1
        BY ScheduleAssumption
      <3> QED BY <3>1, ScheduleAssumption
    <2>2. 0 < Days /\ 0 \in Nat /\ Days \in Nat
      BY ScheduleAssumption
    <2>3. 0 * DayLength + DayLength <= Days * DayLength
      BY <2>2, DaysInOrder
    <2>4. 0 * DayLength = 0
      BY <2>1
    <2> DEFINE all0 == Days * DayLength
    <2>5. all0 \in Nat /\ DayLength <= all0
      BY <2>1, <2>2, <2>3, <2>4
    <2> HIDE DEF all0
    <2>6. Slots!Horizon = all0 - 1
      BY DEF Slots!Horizon, all0
    <2> QED BY <2>1, <2>5, <2>6
  <1>2. unclear \subseteq Slots!Slots
    BY DEF Slots!Init
  <1> QED BY <1>1, <1>2
    DEF Slots!Init, SlotsInv, SlotsTyped, KeptOnce, Collecting, Showing

LEMMA NextSlots == SlotsInv /\ Slots!Next => SlotsInv'
  <1> SUFFICES ASSUME SlotsInv, Slots!Next PROVE SlotsInv'
    OBVIOUS
  <1> USE DEF SlotsInv
  <1>0. clock \in Nat /\ clock \in 0 .. Slots!Horizon
    BY DEF SlotsTyped
  <1>n. Nil \notin Int
    BY ScheduleAssumption
  <1>d. Slots!Deadline(clock) \in Nat
    BY <1>0, DeadlineBound
  <1>p. ASSUME Slots!Period(clock) # Nil
        PROVE  /\ Slots!Earlier(clock) # {} /\ Slots!Period(clock) \in Slots!Slots
               /\ Slots!Period(clock) \in Nat /\ Slots!Period(clock) <= clock
               /\ \A s \in Slots!Slots : s <= clock => s <= Slots!Period(clock)
    <2>1. Slots!Earlier(clock) # {}
      BY <1>0, <1>p, NoPeriod
    <2>2. Slots!Period(clock) \in Slots!SlotsOn(Slots!Day(clock))
      BY <1>0, <2>1, PeriodIsLast
    <2>3. Slots!Day(clock) \in 0 .. Days
      BY <1>0, InHorizon
    <2>4. Slots!Period(clock) \in Nat /\ Slots!Period(clock) <= clock
      BY <1>0, <2>1, PeriodIsLast
    <2>5. \A s \in Slots!Slots : s <= clock => s <= Slots!Period(clock)
      BY <1>0, <2>1, PeriodIsLast, SlotsAreInstants
    <2> QED BY <2>1, <2>2, <2>3, <2>4, <2>5, SlotsAreInstants
  <1>1. CASE Slots!StartApplication
    BY <1>1, <1>0 DEF Slots!StartApplication, SlotsTyped, KeptOnce, Collecting, Showing
  <1>2. CASE Slots!Quit
    BY <1>2, <1>0 DEF Slots!Quit, SlotsTyped, KeptOnce, Collecting, Showing
  <1>3. CASE Slots!Tick
    <2>1. clock' = clock + 1 /\ clock < Slots!Horizon
          /\ UNCHANGED <<unclear, waits, due, flight, cached, stored, shown, slot, starts>>
      BY <1>3 DEF Slots!Tick
    <2>2. Slots!Horizon \in Int
      BY ScheduleAssumption DEF Slots!Horizon
    <2>3. clock' \in 0 .. Slots!Horizon /\ \A i \in 0 .. clock : i \in 0 .. clock'
      BY <1>0, <2>1, <2>2
    <2>4. SlotsTyped'
      BY <2>1, <2>3 DEF SlotsTyped
    <2>5. cached # Nil => cached \in Nat
      BY SlotsAreInstants DEF SlotsTyped
    <2>6. KeptOnce'
      BY <1>0, <2>1, <2>5 DEF KeptOnce
    <2>7. Collecting'
      BY <2>1, <2>3 DEF Collecting
    <2>8. Showing'
      BY <2>1, <2>3 DEF Showing
    <2> QED BY <2>4, <2>6, <2>7, <2>8
  <1>4. CASE Slots!PollUnevaluable
    <2>1. PICK factor \in {1, 2} : due' = clock + 2 * RetrySeconds * factor
      BY <1>4 DEF Slots!PollUnevaluable
    <2>2. due' \in Nat
      BY <1>0, <2>1, ScheduleAssumption
    <2> QED BY <1>4, <2>2
      DEF Slots!PollUnevaluable, Slots!Polled, Slots!PollUnchanged, SlotsTyped, KeptOnce, Collecting, Showing
  <1>5. CASE Slots!PollWaiting
    <2>1. Slots!Earlier(clock) = {}
      BY <1>0, <1>5, NoPeriod DEF Slots!PollWaiting
    <2>2. clock \in 0 .. clock
      BY <1>0
    <2> QED BY <1>5, <1>d, <2>1, <2>2
      DEF Slots!PollWaiting, Slots!Polled, Slots!PollUnchanged, SlotsTyped, KeptOnce, Collecting, Showing
  <1>6. CASE Slots!PollCached
    <2>1. Slots!Period(clock) # Nil
      BY <1>6 DEF Slots!PollCached
    <2>2. clock \in 0 .. clock
      BY <1>0
    <2> QED BY <1>6, <1>d, <1>p, <2>1, <2>2
      DEF Slots!PollCached, Slots!Polled, Slots!PollUnchanged, SlotsTyped, KeptOnce, Collecting, Showing
  <1>7. CASE Slots!PollCollect
    <2>1. Slots!Period(clock) # Nil /\ cached # Slots!Period(clock)
      BY <1>7 DEF Slots!PollCollect
    <2>2. clock \in 0 .. clock
      BY <1>0
    <2>3. cached # Nil => cached < Slots!Period(clock)
      <3>1. cached # Nil => cached \in Slots!Slots /\ cached \in Nat /\ cached <= clock
        BY SlotsAreInstants DEF SlotsTyped, KeptOnce
      <3>2. cached # Nil => cached <= Slots!Period(clock)
        BY <1>p, <2>1, <3>1
      <3> QED BY <1>p, <2>1, <3>1, <3>2
    <2>4. flight' = [slot |-> Slots!Period(clock), deadline |-> Slots!Deadline(clock)]
          /\ waits /\ UNCHANGED <<shown, slot, due, clock, unclear, waits, cached, stored>>
      BY <1>7 DEF Slots!PollCollect, Slots!Polled, Slots!PollUnchanged
    <2>5. flight'.slot = Slots!Period(clock) /\ flight'.deadline = Slots!Deadline(clock)
      BY <2>4
    <2>6. SlotsTyped'
      BY <1>d, <1>p, <2>1, <2>4 DEF SlotsTyped
    <2>7. KeptOnce' /\ Showing'
      BY <2>4 DEF KeptOnce, Showing
    <2>8. Collecting'
      BY <1>p, <2>1, <2>2, <2>3, <2>4, <2>5 DEF Collecting
    <2> QED BY <2>6, <2>7, <2>8
  <1>8. CASE Slots!Collected
    <2>1. flight # Nil /\ flight \in [slot : Slots!Slots, deadline : Nat]
      BY <1>8 DEF Slots!Collected, SlotsTyped
    <2>2. PICK i \in 0 .. clock : /\ Slots!Earlier(i) # {}
                                  /\ flight.slot = Slots!Period(i)
                                  /\ flight.deadline = Slots!Deadline(i)
      BY <2>1 DEF Collecting
    <2>3. flight.slot \in Slots!Slots /\ flight.slot \in Nat /\ flight.slot <= clock
          /\ flight.slot # Nil /\ flight.deadline \in Nat
      <3>1. i \in Nat /\ i <= clock
        BY <1>0, <2>2
      <3>2. flight.slot \in Nat /\ flight.slot <= i
        BY <2>2, <3>1, PeriodIsLast
      <3>3. flight.slot <= clock
        BY <1>0, <3>1, <3>2
      <3> QED BY <1>n, <2>1, <3>2, <3>3
    <2> DEFINE new == flight.slot
    <2>4. /\ cached' = new /\ shown' = "value" /\ slot' = new /\ flight' = Nil
          /\ stored' = [stored EXCEPT ![new] = @ + 1]
          /\ due' = flight.deadline
          /\ UNCHANGED <<clock, unclear, waits, starts>>
      BY <1>8 DEF Slots!Collected
    <2>5. cached # Nil => cached < new
      BY <2>1 DEF Collecting
    <2>6. stored[new] = 0
      <3>1. stored[new] # 0 => cached # Nil /\ new <= cached
        BY <2>3 DEF KeptOnce
      <3>2. cached # Nil => cached \in Nat
        BY SlotsAreInstants DEF SlotsTyped
      <3> QED BY <2>3, <2>5, <3>1, <3>2
    <2>7. SlotsTyped'
      BY <2>3, <2>4 DEF SlotsTyped
    <2>8. KeptOnce'
      <3>1. cached' # Nil /\ cached' <= clock'
        BY <2>3, <2>4
      <3>2. \A s \in Slots!Slots : s # new => stored'[s] = stored[s]
        BY <2>4 DEF SlotsTyped
      <3>3. stored'[new] = 1
        BY <2>3, <2>4, <2>6 DEF SlotsTyped
      <3>4. ASSUME NEW s \in Slots!Slots, stored'[s] # 0
            PROVE  stored'[s] = 1 /\ s <= cached'
        <4>1. s \in Nat
          BY SlotsAreInstants
        <4>2. CASE s = new
          BY <2>3, <2>4, <3>3, <4>1, <4>2
        <4>3. CASE s # new
          <5>1. stored[s] = 1 /\ cached # Nil /\ s <= cached
            BY <3>2, <3>4, <4>3 DEF KeptOnce
          <5>2. cached \in Nat
            BY <5>1, SlotsAreInstants DEF SlotsTyped
          <5> QED BY <2>3, <2>4, <2>5, <3>2, <4>1, <4>3, <5>1, <5>2
        <4> QED BY <4>2, <4>3
      <3> QED BY <3>1, <3>4 DEF KeptOnce
    <2>9. Collecting'
      BY <2>4 DEF Collecting
    <2>10. Showing'
      BY <2>2, <2>4 DEF Showing
    <2> QED BY <2>7, <2>8, <2>9, <2>10
  <1>9. CASE Slots!CollectionFails
    <2>1. flight.deadline \in Nat
      BY <1>9 DEF Slots!CollectionFails, SlotsTyped
    <2> QED BY <1>9, <2>1
      DEF Slots!CollectionFails, SlotsTyped, KeptOnce, Collecting, Showing
  <1> QED BY <1>1, <1>2, <1>3, <1>4, <1>5, <1>6, <1>7, <1>8, <1>9 DEF Slots!Next

LEMMA SlotsFollowed ==
    SlotsInv => Slots!TypeOK /\ Slots!SlotRunsOnce /\ Slots!SlotFollowed
  <1> SUFFICES ASSUME SlotsInv PROVE Slots!TypeOK /\ Slots!SlotRunsOnce /\ Slots!SlotFollowed
    OBVIOUS
  <1> USE DEF SlotsInv
  <1>1. Slots!TypeOK
    BY DEF SlotsTyped, Slots!TypeOK
  <1>2. Slots!SlotRunsOnce
    <2>1. \A s \in Slots!Slots : stored[s] = 0 \/ stored[s] = 1
      BY DEF KeptOnce
    <2> QED BY <2>1 DEF Slots!SlotRunsOnce
  <1>0. clock \in Nat /\ clock \in 0 .. Slots!Horizon
    BY DEF SlotsTyped
  <1>3. ASSUME NEW i \in 0 .. clock, NEW s \in Slots!Slots, Slots!Deadline(i) > clock,
               Slots!Passed(s)
        PROVE  s <= i
    <2>1. PICK day \in Nat : s \in Slots!SlotsOn(day)
      BY SlotsAreInstants
    <2>2. s \in Nat /\ i \in Nat
      BY <1>0, SlotsAreInstants
    <2>3. s > i => Slots!NextSlot(i) <= s
      BY <2>1, <2>2, NextIsFirst
    <2>4. Slots!Deadline(i) \in Nat /\ Slots!Deadline(i) <= Slots!NextSlot(i) + 1
          /\ Slots!NextSlot(i) \in Nat
      BY <2>2, DeadlineBound, NextIsFirst
    <2>5. s + 2 <= clock
      BY <1>3 DEF Slots!Passed
    <2> QED BY <1>0, <1>3, <2>2, <2>3, <2>4, <2>5
  <1>4. Slots!SlotFollowed
    <2> SUFFICES ASSUME Slots!Settled
                 PROVE  /\ shown = "value" => ~\E s \in Slots!Slots : slot < s /\ Slots!Passed(s)
                        /\ shown = "waiting" =>
                             ~\E s \in Slots!SlotsOn(Slots!Day(clock)) : Slots!Passed(s)
      BY DEF Slots!SlotFollowed
    <2>1. waits /\ due > clock
      BY DEF Slots!Settled
    <2>2. ASSUME shown = "value", NEW s \in Slots!Slots, slot < s, Slots!Passed(s) PROVE FALSE
      <3>1. PICK i \in 0 .. clock : /\ Slots!Earlier(i) # {}
                                    /\ slot = Slots!Period(i) /\ due = Slots!Deadline(i)
        BY <2>1, <2>2 DEF Showing
      <3>2. s <= i
        BY <1>3, <2>1, <2>2, <3>1
      <3>3. i \in Nat /\ s \in Nat
        BY <1>0, SlotsAreInstants
      <3>4. slot \in Nat /\ s <= slot
        BY <3>1, <3>2, <3>3, PeriodIsLast, SlotsAreInstants
      <3> QED BY <2>2, <3>3, <3>4
    <2>3. ASSUME shown = "waiting", NEW s \in Slots!SlotsOn(Slots!Day(clock)), Slots!Passed(s)
          PROVE  FALSE
      <3>1. PICK i \in 0 .. clock : Slots!Earlier(i) = {} /\ due = Slots!Deadline(i)
        BY <2>1, <2>3 DEF Showing
      <3>2. Slots!Day(clock) \in 0 .. Days
        BY <1>0, InHorizon
      <3>3. s \in Slots!Slots
        BY <3>2, SlotsAreInstants
      <3>4. s <= i
        BY <1>3, <2>1, <2>3, <3>1, <3>3
      <3> DEFINE then == Slots!Day(i)
                 today == Slots!Day(clock)
      <3>5. i \in Nat /\ i <= clock
        BY <1>0
      <3>6. then \in Nat /\ i < (then + 1) * DayLength
        BY <3>5, InDay
      <3>7. today \in Nat /\ today * DayLength <= clock /\ clock < (today + 1) * DayLength
        BY <1>0, InDay
      <3>7a. then * DayLength <= i /\ then * DayLength \in Nat
        BY <3>5, InDay
      <3>8. s \notin Slots!SlotsOn(then)
        BY <3>1, <3>4 DEF Slots!Earlier
      <3>9. s \in Slots!SlotsOn(today)
        BY <2>3
      <3> HIDE DEF then, today
      <3>10. s \in Nat /\ today * DayLength <= s
        BY <3>7, <3>9, SlotsInDay
      <3>11. CASE then < today
        <4>1. (then + 1) * DayLength <= today * DayLength /\ (then + 1) * DayLength \in Nat
              /\ today * DayLength \in Nat
          BY <3>6, <3>7, <3>11, DaysInOrder, ScheduleAssumption
        <4> QED BY <3>4, <3>5, <3>6, <3>10, <4>1
      <3>12. CASE today < then
        <4>1. (today + 1) * DayLength <= then * DayLength /\ (today + 1) * DayLength \in Nat
          BY <3>6, <3>7, <3>12, DaysInOrder, ScheduleAssumption
        <4> QED BY <1>0, <3>5, <3>7, <3>7a, <4>1
      <3> QED BY <3>6, <3>7, <3>8, <3>9, <3>11, <3>12
    <2> QED BY <2>2, <2>3
  <1> QED BY <1>1, <1>2, <1>4

LEMMA NextSchedule ==
    (machine = "slots" => SlotsInv) /\ [NextAll]_all => (machine = "slots" => SlotsInv)'
  <1> SUFFICES ASSUME machine = "slots" => SlotsInv, [NextAll]_all, (machine = "slots")'
               PROVE  SlotsInv'
    OBVIOUS
  <1>1. machine = "slots" /\ SlotsInv
    BY DEF NextAll, all
  <1>2. CASE NextAll
    <2>1. Slots!Next
      BY <1>1, <1>2, MachinesAssumption DEF NextAll, Others
    <2> QED BY <1>1, <2>1, NextSlots
  <1>3. CASE UNCHANGED all
    BY <1>1, <1>3 DEF SlotsInv, SlotsTyped, KeptOnce, Collecting, Showing, all, schedule
  <1> QED BY <1>2, <1>3

\* Over restarts, early wakes, failures and collections that take longer than a slot, the
\* result of a slot is kept once, and what a waiting card shows is never more than a second
\* behind the slots (evaluate and next_deadline of core/schedule.rs, and the cache): for
\* any times of any number of days.
THEOREM SlotAlwaysFollowed == SpecAll => []SlotFollowed
  <1>1. InitAll => (machine = "slots" => SlotsInv)
    BY InitSlots DEF InitAll
  <1>2. (machine = "slots" => SlotsInv) => SlotFollowed
    BY SlotsFollowed DEF SlotFollowed
  <1> QED BY <1>1, NextSchedule, <1>2, PTL DEF SpecAll

-----------------------------------------------------------------------------
(* The client of ScrcpyForge, with any devices, resources, versions, calls and limits of  *)
(* its previews.                                                                          *)

\* A fetch has the lock from its first answer to its last, and nothing that was read, by it
\* or before it, is older than what the user was told of: whether a call is under way or not.
ForgeMetadataInv(of) ==
    /\ service.version \in Nat /\ promised \in Nat /\ promised <= service.version
    /\ DOMAIN service = {"version", "sessions", "pictures"}
    /\ snap = [f \in DOMAIN Forge(of)!IdleSnap |-> snap[f]]
    /\ snap.step \in {"idle", "metadata", "previews"}
    /\ snap.step = "metadata" <=> lock # Nil
    /\ snap.step = "metadata" =>
         \A r \in DOMAIN snap.read : snap.read[r] \in Nat /\ snap.read[r] >= promised
    /\ metadata # Nil =>
         \A r \in of.resources : metadata.read[r] \in Nat /\ metadata.read[r] >= promised

LEMMA ForgeFresh ==
    ASSUME NEW of
    PROVE  ForgeMetadataInv(of) => Forge(of)!MetadataFresh
BY DEF ForgeMetadataInv, Forge!MetadataFresh

LEMMA ForgeInit ==
    ASSUME NEW of
    PROVE  Forge(of)!Init => ForgeMetadataInv(of)
BY DEF Forge!Init, Forge!IdleSnap, ForgeMetadataInv

LEMMA ForgeNext ==
    ASSUME NEW of, ForgeMetadataInv(of), [Forge(of)!Next]_(Forge(of)!vars), Nil # "snapshot"
    PROVE  ForgeMetadataInv(of)'
<1>1. CASE UNCHANGED Forge(of)!vars
  BY <1>1 DEF Forge!vars, ForgeMetadataInv, Forge!IdleSnap
<1>2. CASE Forge(of)!PictureChanges
  BY <1>2 DEF Forge!PictureChanges, ForgeMetadataInv, Forge!IdleSnap
<1>3. CASE Forge(of)!TtlRunsOut
  BY <1>3 DEF Forge!TtlRunsOut, ForgeMetadataInv, Forge!IdleSnap
<1>4. CASE Forge(of)!Post
  BY <1>4 DEF Forge!Post, ForgeMetadataInv, Forge!IdleSnap
<1>5. CASE Forge(of)!InvalidateMetadata
  BY <1>5 DEF Forge!InvalidateMetadata, ForgeMetadataInv, Forge!IdleSnap
<1>6. CASE Forge(of)!StartSnapshot
  <2>1. CASE metadata # Nil /\ metadata.fresh
    BY <1>6, <2>1 DEF Forge!StartSnapshot, ForgeMetadataInv, Forge!IdleSnap
  <2>2. CASE ~(metadata # Nil /\ metadata.fresh)
    <3>1. snap'.step = "metadata" /\ DOMAIN snap'.read = {}
          /\ snap' = [f \in DOMAIN Forge(of)!IdleSnap |-> snap'[f]]
      BY <1>6, <2>2 DEF Forge!StartSnapshot, Forge!Fetching, Forge!IdleSnap
    <3>2. lock' = "snapshot"
      BY <1>6, <2>2 DEF Forge!StartSnapshot
    <3> QED
      BY <1>6, <3>1, <3>2 DEF Forge!StartSnapshot, ForgeMetadataInv
  <2> QED BY <2>1, <2>2
<1>7. CASE Forge(of)!FetchResource
  <2>1. PICK r \in of.resources \ DOMAIN snap.read :
            snap' = [snap EXCEPT !.read = [q \in DOMAIN snap.read \cup {r} |->
                                             IF q = r THEN service.version ELSE snap.read[q]],
                                 !.sessions = IF r = "sessions" THEN service.sessions ELSE snap.sessions]
    BY <1>7 DEF Forge!FetchResource
  <2>2. snap.step = "metadata"
    BY <1>7 DEF Forge!FetchResource
  <2>3. DOMAIN snap = {"step", "read", "sessions", "tasks"}
    BY DEF ForgeMetadataInv, Forge!IdleSnap
  <2>4. /\ snap'.step = "metadata"
        /\ snap'.read = [q \in DOMAIN snap.read \cup {r} |->
                           IF q = r THEN service.version ELSE snap.read[q]]
        /\ snap' = [f \in DOMAIN snap |-> snap'[f]]
    BY <2>1, <2>2, <2>3
  <2>5. \A q \in DOMAIN snap'.read : snap'.read[q] \in Nat /\ snap'.read[q] >= promised
    BY <2>2, <2>4 DEF ForgeMetadataInv
  <2> QED
    BY <1>7, <2>2, <2>3, <2>4, <2>5 DEF Forge!FetchResource, ForgeMetadataInv, Forge!IdleSnap
<1>8. CASE Forge(of)!FetchedAll
  <2>1. snap.step = "metadata" /\ DOMAIN snap.read = of.resources
    BY <1>8 DEF Forge!FetchedAll
  <2>2. \A r \in of.resources : metadata'.read[r] \in Nat /\ metadata'.read[r] >= promised
    BY <1>8, <2>1 DEF Forge!FetchedAll, ForgeMetadataInv
  <2>3. snap'.step = "previews" /\ snap' = [f \in DOMAIN Forge(of)!IdleSnap |-> snap'[f]]
    BY <1>8 DEF Forge!FetchedAll, ForgeMetadataInv, Forge!IdleSnap
  <2> QED
    BY <1>8, <2>2, <2>3 DEF Forge!FetchedAll, ForgeMetadataInv
<1>9. CASE Forge(of)!FetchFails
  BY <1>9 DEF Forge!FetchFails, ForgeMetadataInv, Forge!IdleSnap
<1>10. CASE Forge(of)!PreviewTask
  BY <1>10 DEF Forge!PreviewTask, Forge!AskPreview, Forge!AnswerPreview, Forge!PreviewFails,
               ForgeMetadataInv, Forge!IdleSnap
<1>11. CASE Forge(of)!ReturnSnapshot \/ Forge(of)!ReturnMetadata
  BY <1>11 DEF Forge!ReturnSnapshot, Forge!ReturnMetadata, ForgeMetadataInv, Forge!IdleSnap
<1> QED
  BY <1>1, <1>2, <1>3, <1>4, <1>5, <1>6, <1>7, <1>8, <1>9, <1>10, <1>11 DEF Forge!Next

-----------------------------------------------------------------------------
(* Its previews                                                            *)

\* The operators of the cache are those the lemmas are about.
LEMMA ForgeTotal ==
    ASSUME NEW of, NEW f, NEW S
    PROVE  Forge(of)!Total(f, S) = Total(f, S)
BY DEF Forge!Total, Forge!MapThenSumSet, Forge!MapThenFoldSet, Total, MapThenSumSet, MapThenFoldSet

LEMMA ForgeOrder ==
    ASSUME NEW of, NEW s, NEW k, NEW X
    PROVE  /\ Forge(of)!Without(s, X) = Without(s, X)
           /\ Forge(of)!UsedLast(s, k) = UsedLast(s, k)
           /\ Forge(of)!Range(s) = ToSet(s)
BY DEF Forge!Without, Without, Forge!UsedLast, UsedLast, Forge!Range, ToSet

LEMMA ForgeCount ==
    ASSUME NEW of, NEW S
    PROVE  Forge(of)!Cardinality(S) = Cardinality(S)
BY DEF Forge!Cardinality, Cardinality, Forge!IsFiniteSet, IsFiniteSet

-----------------------------------------------------------------------------
ForgePictures(of) == [url : Forge(of)!Urls, tag : Nat, size : Nat]

\* A cache of the service's pictures, none newer than the service has it.
Cached(of, c, pictures) ==
    /\ c = [entries |-> c.entries, order |-> c.order, total |-> c.total]
    /\ c.entries \in [DOMAIN c.entries -> ForgePictures(of)]
    /\ c.order \in Seq(Forge(of)!Urls) /\ Distinct(c.order) /\ ToSet(c.order) = DOMAIN c.entries
    /\ c.total = Total(Forge(of)!Sizes(c.entries), DOMAIN c.entries)
    /\ \A k \in DOMAIN c.entries :
         c.entries[k].url = k /\ c.entries[k].tag <= pictures[k].tag

LEMMA CachedSizes ==
    ASSUME NEW of, NEW c, NEW pictures, Cached(of, c, pictures)
    PROVE  /\ IsFiniteSet(DOMAIN c.entries)
           /\ DOMAIN Forge(of)!Sizes(c.entries) = DOMAIN c.entries
           /\ \A k \in DOMAIN c.entries : /\ Forge(of)!Sizes(c.entries)[k] = c.entries[k].size
                                          /\ c.entries[k].size \in Nat
           /\ c.total \in Nat
<1>1. IsFiniteSet(DOMAIN c.entries)
  BY DistinctCount DEF Cached
<1>2. \A k \in DOMAIN c.entries : c.entries[k].size \in Nat
  BY DEF Cached, ForgePictures
<1>3. /\ DOMAIN Forge(of)!Sizes(c.entries) = DOMAIN c.entries
      /\ \A k \in DOMAIN c.entries : Forge(of)!Sizes(c.entries)[k] = c.entries[k].size
  BY DEF Forge!Sizes
<1>4. Total(Forge(of)!Sizes(c.entries), DOMAIN c.entries) \in Nat
  BY <1>1, <1>2, <1>3, TotalNat
<1> QED BY <1>1, <1>2, <1>3, <1>4 DEF Cached

\* What is left when some of the entries leave.
LEMMA RestCached ==
    ASSUME NEW of, NEW c, NEW pictures, Cached(of, c, pictures), NEW rest \in SUBSET DOMAIN c.entries,
           NEW uses \in Seq(Forge(of)!Urls), Distinct(uses), ToSet(uses) = rest
    PROVE  LET d == [entries |-> [key \in rest |-> c.entries[key]], order |-> uses,
                     total |-> c.total - Total(Forge(of)!Sizes(c.entries), DOMAIN c.entries \ rest)]
           IN  Cached(of, d, pictures) /\ d.total <= c.total
<1> DEFINE d == [entries |-> [key \in rest |-> c.entries[key]], order |-> uses,
                 total |-> c.total - Total(Forge(of)!Sizes(c.entries), DOMAIN c.entries \ rest)]
           f == Forge(of)!Sizes(c.entries)
           g == Forge(of)!Sizes(d.entries)
<1>1. /\ d = [entries |-> d.entries, order |-> d.order, total |-> d.total]
      /\ DOMAIN d.entries = rest /\ \A k \in rest : d.entries[k] = c.entries[k]
      /\ d.order = uses /\ d.total = c.total - Total(f, DOMAIN c.entries \ rest)
      /\ d.entries \in [rest -> ForgePictures(of)]
  BY DEF Cached
<1>2. /\ Total(f, rest) \in Nat /\ Total(f, DOMAIN c.entries \ rest) \in Nat /\ Total(f, DOMAIN c.entries) \in Nat
      /\ Total(f, DOMAIN c.entries) = Total(f, rest) + Total(f, DOMAIN c.entries \ rest)
  <2>1. IsFiniteSet(DOMAIN c.entries) /\ \A k \in DOMAIN c.entries : f[k] \in Nat
    BY CachedSizes
  <2> HIDE DEF f
  <2> QED BY <2>1, TotalPart
<1>3. Total(g, rest) = Total(f, rest)
  <2>1. \A k \in rest : g[k] = f[k]
    <3> HIDE DEF d
    <3> QED BY <1>1 DEF Forge!Sizes
  <2>2. IsFiniteSet(rest)
    BY CachedSizes, FS_Subset
  <2> HIDE DEF f, g
  <2> QED BY <2>1, <2>2, TotalSame
<1>4. c.total = Total(f, DOMAIN c.entries)
  BY DEF Cached
<1>5. d.total = Total(g, rest) /\ d.total <= c.total
  <2> HIDE DEF d, f, g
  <2> QED BY <1>1, <1>2, <1>3, <1>4
<1>6. \A k \in rest : c.entries[k].url = k /\ c.entries[k].tag <= pictures[k].tag
  BY DEF Cached
<1>7. Cached(of, d, pictures)
  <2> HIDE DEF d
  <2> QED BY <1>1, <1>5, <1>6 DEF Cached
<1> QED BY <1>5, <1>7

LEMMA DroppedCached ==
    ASSUME NEW of, NEW c, NEW pictures, Cached(of, c, pictures), NEW n \in 0 .. Len(c.order)
    PROVE  /\ Cached(of, Forge(of)!Dropped(c, n), pictures)
           /\ DOMAIN Forge(of)!Dropped(c, n).entries \subseteq DOMAIN c.entries
           /\ n = Len(c.order) => Forge(of)!Dropped(c, n).entries = [key \in {} |-> Nil]
                                  /\ Forge(of)!Dropped(c, n).total = 0
<1> DEFINE t == SubSeq(c.order, n + 1, Len(c.order))
           d == Forge(of)!Dropped(c, n)
<1>1. c.order \in Seq(Forge(of)!Urls) /\ Distinct(c.order) /\ ToSet(c.order) = DOMAIN c.entries
  BY DEF Cached
<1>2. /\ t \in Seq(Forge(of)!Urls) /\ Distinct(t) /\ ToSet(t) \subseteq DOMAIN c.entries
      /\ ToSet(t) = {c.order[i] : i \in n + 1 .. Len(c.order)}
  BY <1>1, SuffixProperties
<1>3. d = [entries |-> [key \in ToSet(t) |-> c.entries[key]], order |-> t,
           total |-> c.total - Total(Forge(of)!Sizes(c.entries), DOMAIN c.entries \ ToSet(t))]
  BY ForgeTotal, ForgeOrder DEF Forge!Dropped
<1> HIDE DEF t, d
<1>4. Cached(of, d, pictures) /\ DOMAIN d.entries \subseteq DOMAIN c.entries
  BY <1>2, <1>3, RestCached
<1>5. ASSUME n = Len(c.order)
      PROVE  d.entries = [key \in {} |-> Nil] /\ d.total = 0
  <2>1. n + 1 .. n = {}
    <3>1. n \in Nat
      BY <1>1
    <3> QED BY <3>1
  <2>2. ToSet(t) = {}
    BY <1>2, <1>5, <2>1
  <2>3. DOMAIN d.entries = {} /\ d.entries = [key \in {} |-> Nil]
    BY <1>3, <2>2
  <2>4. d.total = Total(Forge(of)!Sizes(d.entries), {})
    BY <1>4, <2>3 DEF Cached
  <2> QED BY <2>3, <2>4, TotalEmpty
<1> QED BY <1>4, <1>5 DEF d

\* The loop stops at a cache within the limits.
LEMMA EvictedCached ==
    ASSUME NEW of, NEW c, NEW pictures, Cached(of, c, pictures), MaxPreviews \in Nat, MaxPreviewTotal \in Nat
    PROVE  Cached(of, Forge(of)!Evicted(c), pictures) /\ ~Forge(of)!Crowded(Forge(of)!Evicted(c))
<1> DEFINE N == Len(c.order)
           stops == {n \in 0 .. N : n = N \/ ~Forge(of)!Crowded(Forge(of)!Dropped(c, n))}
           m == Forge(of)!Min(stops)
<1>1. N \in Nat
  BY DEF Cached
<1>2. m \in stops
  <2>1. stops \subseteq Nat /\ N \in stops
    BY <1>1
  <2> HIDE DEF stops
  <2>2. PICK n \in stops : \A k \in stops : n <= k
    BY <2>1, LeastNumber
  <2> QED BY <2>2 DEF Forge!Min
<1>3. Forge(of)!Evicted(c) = Forge(of)!Dropped(c, m)
  BY DEF Forge!Evicted
<1> HIDE DEF m
<1>4. Cached(of, Forge(of)!Dropped(c, m), pictures)
  BY <1>2, DroppedCached
<1>5. CASE m = N
  <2>1. Forge(of)!Dropped(c, m).entries = [key \in {} |-> Nil] /\ Forge(of)!Dropped(c, m).total = 0
    BY <1>2, <1>5, DroppedCached
  <2>2. DOMAIN Forge(of)!Dropped(c, m).entries = {}
    BY <2>1
  <2>3. Cardinality({}) = 0
    BY FS_EmptySet
  <2> QED BY <1>3, <1>4, <2>1, <2>2, <2>3, ForgeCount DEF Forge!Crowded
<1>6. CASE m # N
  BY <1>2, <1>3, <1>4, <1>6
<1> QED BY <1>5, <1>6

LEMMA StoredCached ==
    ASSUME NEW of, NEW c, NEW pictures, Cached(of, c, pictures), MaxPreviews \in Nat, MaxPreviewTotal \in Nat,
           NEW key \in Forge(of)!Urls, NEW picture \in ForgePictures(of), picture.url = key,
           picture.tag <= pictures[key].tag
    PROVE  LET d == Forge(of)!StorePreview(c, key, picture)
           IN  Cached(of, d, pictures) /\ ~Forge(of)!Crowded(d)
<1> DEFINE before == IF key \in DOMAIN c.entries THEN c.entries[key].size ELSE 0
           d == [entries |-> [k \in DOMAIN c.entries \cup {key} |->
                                IF k = key THEN picture ELSE c.entries[k]],
                 order   |-> UsedLast(c.order, key),
                 total   |-> c.total - before + picture.size]
           f == Forge(of)!Sizes(c.entries)
           g == Forge(of)!Sizes(d.entries)
           E == DOMAIN c.entries
           D == DOMAIN c.entries \cup {key}
<1>1. Forge(of)!StorePreview(c, key, picture) = Forge(of)!Evicted(d)
  BY ForgeOrder DEF Forge!StorePreview
<1>2. /\ d = [entries |-> d.entries, order |-> d.order, total |-> d.total]
      /\ DOMAIN d.entries = D
      /\ \A k \in D : d.entries[k] = IF k = key THEN picture ELSE c.entries[k]
      /\ d.entries \in [D -> ForgePictures(of)]
      /\ d.order = UsedLast(c.order, key) /\ d.total = c.total - before + picture.size
  BY DEF Cached
<1> HIDE DEF d
<1>3. d.order \in Seq(Forge(of)!Urls) /\ Distinct(d.order) /\ ToSet(d.order) = D
  BY <1>2, UsedLastProperties DEF Cached
<1>4. /\ IsFiniteSet(E) /\ IsFiniteSet(D) /\ \A k \in E : f[k] \in Nat
      /\ \A k \in E : f[k] = c.entries[k].size
  BY CachedSizes, FS_AddElement
<1>5. \A k \in D : g[k] = d.entries[k].size /\ g[k] \in Nat
  BY <1>2 DEF Forge!Sizes, ForgePictures
<1>6. Total(g, D) = g[key] + Total(g, D \ {key}) /\ Total(g, D \ {key}) \in Nat
  <2>1. IsFiniteSet(D \ {key})
    BY <1>4, FS_RemoveElement
  <2> HIDE DEF g, D
  <2>2. key \in D
    BY DEF D
  <2> QED BY <1>4, <1>5, <2>1, <2>2, TotalSplit, TotalNat
<1>7. Total(g, D \ {key}) = Total(f, E \ {key})
  <2>1. D \ {key} = E \ {key} /\ IsFiniteSet(E \ {key})
    BY <1>4, FS_RemoveElement
  <2>2. \A k \in E \ {key} : g[k] = f[k]
    BY <1>2, <1>4, <1>5
  <2> HIDE DEF f, g, D, E
  <2> QED BY <2>1, <2>2, TotalSame
<1>8. Total(f, E) = before + Total(f, E \ {key}) /\ before \in Nat
  <2>1. CASE key \in E
    <3>1. before = f[key]
      BY <1>4, <2>1
    <3> HIDE DEF f, E, before
    <3> QED BY <2>1, <3>1, <1>4, TotalSplit
  <2>2. CASE key \notin E
    <3>1. before = 0 /\ E \ {key} = E
      BY <2>2
    <3> HIDE DEF f, E, before
    <3>2. Total(f, E) \in Nat
      BY <1>4, TotalNat
    <3> QED BY <3>1, <3>2
  <2> QED BY <2>1, <2>2
<1>9. c.total = Total(f, E) /\ c.total \in Nat
  BY CachedSizes DEF Cached
<1>10. d.total = Total(g, D)
  <2>1. g[key] = picture.size
    BY <1>2, <1>5
  <2>2. picture.size \in Nat
    BY DEF ForgePictures
  <2> HIDE DEF f, g, D, E, before
  <2> QED BY <1>2, <1>6, <1>7, <1>8, <1>9, <2>1, <2>2
<1>11. \A k \in D : d.entries[k].url = k /\ d.entries[k].tag <= pictures[k].tag
  BY <1>2 DEF Cached
<1>12. Cached(of, d, pictures)
  BY <1>2, <1>3, <1>10, <1>11 DEF Cached
<1> QED BY <1>1, <1>12, EvictedCached

LEMMA PrunedCached ==
    ASSUME NEW of, NEW c, NEW pictures, Cached(of, c, pictures), MaxPreviews \in Nat, MaxPreviewTotal \in Nat,
           NEW active, ~Forge(of)!Crowded(c)
    PROVE  LET d == Forge(of)!PrunePreviews(c, active)
           IN  Cached(of, d, pictures) /\ ~Forge(of)!Crowded(d)
<1> DEFINE rest == DOMAIN c.entries \cap active
           gone == DOMAIN c.entries \ active
           uses == Without(c.order, gone)
           d == Forge(of)!PrunePreviews(c, active)
<1>1. DOMAIN c.entries \ rest = gone /\ ToSet(c.order) \ gone = rest /\ rest \in SUBSET DOMAIN c.entries
  BY DEF Cached
<1>2. uses \in Seq(Forge(of)!Urls) /\ Distinct(uses) /\ ToSet(uses) = rest
  BY <1>1, WithoutProperties DEF Cached
<1>3. d = [entries |-> [key \in rest |-> c.entries[key]], order |-> uses,
           total |-> c.total - Total(Forge(of)!Sizes(c.entries), DOMAIN c.entries \ rest)]
  BY <1>1, ForgeTotal, ForgeOrder DEF Forge!PrunePreviews
<1> HIDE DEF uses, d
<1>4. Cached(of, d, pictures) /\ d.total <= c.total
  BY <1>1, <1>2, <1>3, RestCached
<1>5. DOMAIN d.entries = rest
  BY <1>3
<1>6. /\ Cardinality(rest) <= Cardinality(DOMAIN c.entries)
      /\ Cardinality(rest) \in Nat /\ Cardinality(DOMAIN c.entries) \in Nat
  BY <1>1, CachedSizes, FS_Subset, FS_CardinalityType
<1>7. d.total \in Nat /\ c.total \in Nat
  BY <1>4, CachedSizes
<1>8. Cardinality(DOMAIN c.entries) <= MaxPreviews /\ c.total <= MaxPreviewTotal
  BY <1>6, <1>7, ForgeCount DEF Forge!Crowded
<1>9. ~Forge(of)!Crowded(d)
  <2> HIDE DEF rest
  <2>1. Cardinality(DOMAIN d.entries) <= MaxPreviews /\ d.total <= MaxPreviewTotal
    BY <1>4, <1>5, <1>6, <1>7, <1>8
  <2> QED BY <1>7, <1>5, <1>6, <2>1, ForgeCount DEF Forge!Crowded
<1> QED BY <1>4, <1>9 DEF d

LEMMA LookedCached ==
    ASSUME NEW of, NEW c, NEW pictures, Cached(of, c, pictures), NEW key \in Forge(of)!Urls
    PROVE  LET d == Forge(of)!Looked(c, key)
           IN  Cached(of, d, pictures) /\ (~Forge(of)!Crowded(c) => ~Forge(of)!Crowded(d))
<1> DEFINE d == [c EXCEPT !.order = UsedLast(@, key)]
<1>1. CASE key \notin DOMAIN c.entries
  BY <1>1 DEF Forge!Looked
<1>2. CASE key \in DOMAIN c.entries
  <2>1. Forge(of)!Looked(c, key) = d
    BY <1>2, ForgeOrder DEF Forge!Looked
  <2>2. d = [entries |-> c.entries, order |-> UsedLast(c.order, key), total |-> c.total]
    BY DEF Cached
  <2>3. /\ UsedLast(c.order, key) \in Seq(Forge(of)!Urls) /\ Distinct(UsedLast(c.order, key))
        /\ ToSet(UsedLast(c.order, key)) = DOMAIN c.entries
    <3>1. c.order \in Seq(Forge(of)!Urls) /\ Distinct(c.order) /\ ToSet(c.order) = DOMAIN c.entries
      BY DEF Cached
    <3>2. ToSet(c.order) \cup {key} = DOMAIN c.entries
      BY <1>2, <3>1
    <3>3. /\ UsedLast(c.order, key) \in Seq(Forge(of)!Urls)
          /\ ToSet(UsedLast(c.order, key)) = ToSet(c.order) \cup {key}
          /\ Distinct(c.order) => Distinct(UsedLast(c.order, key))
      BY <3>1, UsedLastProperties
    <3> QED BY <3>1, <3>2, <3>3
  <2> HIDE DEF d
  <2> QED BY <2>1, <2>2, <2>3 DEF Cached, Forge!Crowded
<1> QED BY <1>1, <1>2

-----------------------------------------------------------------------------
\* A task of a snapshot, from its question on.
Task(of, t, pictures) ==
    /\ t = [f \in {"state", "key", "held", "since", "png"} |-> t[f]]
    /\ t.key \in Forge(of)!Urls /\ t.since \in Nat /\ t.since <= pictures[t.key].tag
    /\ t.held # Nil => t.held \in ForgePictures(of) /\ t.held.url = t.key
    /\ t.png # Nil => t.png \in ForgePictures(of) /\ t.png.url = t.key /\ t.png.tag >= t.since

ForgePreviewInv(of) ==
    /\ service = [version |-> service.version, sessions |-> service.sessions,
                  pictures |-> service.pictures]
    /\ service.pictures \in [Forge(of)!Urls -> ForgePictures(of)]
    /\ \A u \in Forge(of)!Urls : service.pictures[u].url = u
    /\ Cached(of, previews, service.pictures) /\ ~Forge(of)!Crowded(previews)
    /\ snap = [f \in DOMAIN Forge(of)!IdleSnap |-> snap[f]]
    /\ snap.step \in {"idle", "metadata", "previews"}
    /\ \A s \in DOMAIN snap.tasks : Task(of, snap.tasks[s], service.pictures)
    /\ call \in {"idle", "answered"} /\ lock \in {Nil, "snapshot"}

ForgeLimits(of) == MaxPreviews \in Nat /\ MaxPreviewTotal \in Nat /\ of.sizes \subseteq Nat

LEMMA ForgePreviewsFollow ==
    ASSUME NEW of, ForgePreviewInv(of), ForgeLimits(of)
    PROVE  Forge(of)!TypeOK /\ Forge(of)!PreviewsTruthful /\ Forge(of)!PreviewsBounded
<1>1. Forge(of)!PreviewsTruthful
  BY DEF ForgePreviewInv, Task, Forge!PreviewsTruthful
<1>2. previews.total \in Nat /\ Cardinality(DOMAIN previews.entries) \in Nat
  BY CachedSizes, FS_CardinalityType DEF ForgePreviewInv
<1>3. previews.total <= MaxPreviewTotal /\ Cardinality(DOMAIN previews.entries) <= MaxPreviews
  BY <1>2, ForgeCount DEF ForgePreviewInv, ForgeLimits, Forge!Crowded
<1>4. /\ ToSet(previews.order) = DOMAIN previews.entries /\ previews.order \in Seq(Forge(of)!Urls)
      /\ previews.total = Total(Forge(of)!Sizes(previews.entries), DOMAIN previews.entries)
  BY DEF ForgePreviewInv, Cached
<1>5. Forge(of)!PreviewsBounded
  BY <1>3, <1>4, ForgeCount, ForgeTotal, ForgeOrder DEF Forge!PreviewsBounded
<1>6. DOMAIN previews.entries \subseteq Forge(of)!Urls
  BY <1>4 DEF ToSet
<1>7. Forge(of)!TypeOK
  BY <1>2, <1>6 DEF ForgePreviewInv, Forge!TypeOK
<1> QED BY <1>1, <1>5, <1>7

LEMMA ForgePreviewInit ==
    ASSUME NEW of, Forge(of)!Init, ForgeLimits(of)
    PROVE  ForgePreviewInv(of)
<1>1. PICK size \in of.sizes :
        service = [version |-> 1, sessions |-> {},
                   pictures |-> [url \in Forge(of)!Urls |-> [url |-> url, tag |-> 1, size |-> size]]]
  BY DEF Forge!Init
<1>2. service.pictures \in [Forge(of)!Urls -> ForgePictures(of)] /\ \A u \in Forge(of)!Urls : service.pictures[u].url = u
  BY <1>1 DEF ForgePictures, ForgeLimits
<1>3. /\ previews = [entries |-> [key \in {} |-> Nil], order |-> <<>>, total |-> 0]
      /\ DOMAIN previews.entries = {}
  BY DEF Forge!Init, Forge!NoPreviews
<1>4. ToSet(<<>>) = {} /\ Distinct(<<>>) /\ <<>> \in Seq(Forge(of)!Urls)
  BY DEF ToSet, Distinct
<1>5. previews.total = Total(Forge(of)!Sizes(previews.entries), DOMAIN previews.entries)
  BY <1>3, TotalEmpty
<1>6. Cached(of, previews, service.pictures)
  BY <1>3, <1>4, <1>5 DEF Cached
<1>7. ~Forge(of)!Crowded(previews)
  BY <1>3, ForgeCount, FS_EmptySet DEF Forge!Crowded, ForgeLimits
<1> QED
  BY <1>1, <1>2, <1>6, <1>7 DEF Forge!Init, Forge!IdleSnap, ForgePreviewInv

\* ForgePictures(of) only become newer.
LEMMA NewerKeeps ==
    ASSUME NEW of, NEW old \in [Forge(of)!Urls -> ForgePictures(of)], NEW new \in [Forge(of)!Urls -> ForgePictures(of)],
           \A u \in Forge(of)!Urls : old[u].tag <= new[u].tag
    PROVE  /\ \A c : Cached(of, c, old) => Cached(of, c, new)
           /\ \A t : Task(of, t, old) => Task(of, t, new)
<1>1. \A u \in Forge(of)!Urls : old[u].tag \in Nat /\ new[u].tag \in Nat
  BY DEF ForgePictures
<1>2. ASSUME NEW c, Cached(of, c, old)
      PROVE  Cached(of, c, new)
  <2>1. \A k \in DOMAIN c.entries : k \in Forge(of)!Urls /\ c.entries[k].tag \in Nat
    BY <1>2 DEF Cached, ForgePictures, ToSet
  <2> QED BY <1>1, <1>2, <2>1 DEF Cached
<1>3. ASSUME NEW t, Task(of, t, old)
      PROVE  Task(of, t, new)
  BY <1>1, <1>3 DEF Task
<1> QED BY <1>2, <1>3

\* What the previews and the snapshot are, when a step leaves them alone.
LEMMA PreviewsKept ==
    ASSUME NEW of, ForgePreviewInv(of), UNCHANGED <<service, previews>>,
           snap' = [f \in DOMAIN Forge(of)!IdleSnap |-> snap'[f]],
           snap'.step \in {"idle", "metadata", "previews"},
           \A s \in DOMAIN snap'.tasks : Task(of, snap'.tasks[s], service.pictures),
           call' \in {"idle", "answered"}, lock' \in {Nil, "snapshot"}
    PROVE  ForgePreviewInv(of)'
BY DEF ForgePreviewInv, Cached, Task

LEMMA SnapFields ==
    ASSUME NEW of
    PROVE  DOMAIN Forge(of)!IdleSnap = {"step", "read", "sessions", "tasks"}
BY DEF Forge!IdleSnap

LEMMA ForgePreviewNext ==
    ASSUME NEW of, ForgePreviewInv(of), ForgeLimits(of), [Forge(of)!Next]_(Forge(of)!vars)
    PROVE  ForgePreviewInv(of)'
<1> USE SnapFields
<1>1. CASE UNCHANGED Forge(of)!vars
  BY <1>1, PreviewsKept DEF Forge!vars, ForgePreviewInv
<1>2. CASE Forge(of)!PictureChanges
  <2>1. PICK url \in Forge(of)!Urls, size \in of.sizes :
          service' = [service EXCEPT !.pictures[url].tag = service.pictures[url].tag + 1,
                                     !.pictures[url].size = size]
    BY <1>2 DEF Forge!PictureChanges
  <2> DEFINE old == service.pictures
             new == [old EXCEPT ![url] = [url |-> url, tag |-> old[url].tag + 1, size |-> size]]
  <2>2. /\ old \in [Forge(of)!Urls -> ForgePictures(of)] /\ \A u \in Forge(of)!Urls : old[u].url = u
        /\ old[url] = [url |-> url, tag |-> old[url].tag, size |-> old[url].size]
        /\ old[url].tag \in Nat /\ size \in Nat
    BY DEF ForgePreviewInv, ForgeLimits, ForgePictures
  <2>3. /\ service' = [version |-> service.version, sessions |-> service.sessions, pictures |-> service'.pictures]
        /\ service'.pictures = [old EXCEPT ![url] = [[old[url] EXCEPT !.tag = old[url].tag + 1] EXCEPT !.size = size]]
    BY <2>1 DEF ForgePreviewInv
  <2>4. service'.pictures = new
    BY <2>2, <2>3
  <2>5. new \in [Forge(of)!Urls -> ForgePictures(of)] /\ \A u \in Forge(of)!Urls : new[u].url = u /\ old[u].tag <= new[u].tag
    <3>1. \A u \in Forge(of)!Urls : old[u] \in ForgePictures(of) /\ old[u].tag \in Nat
      BY <2>2 DEF ForgePictures
    <3>2. [url |-> url, tag |-> old[url].tag + 1, size |-> size] \in ForgePictures(of)
      BY <2>2 DEF ForgePictures
    <3> QED BY <2>2, <3>1, <3>2
  <2> HIDE DEF old, new
  <2>6. (\A c : Cached(of, c, old) => Cached(of, c, new)) /\ \A t : Task(of, t, old) => Task(of, t, new)
    BY <2>2, <2>5, NewerKeeps
  <2>7. UNCHANGED <<snap, previews, call, lock>>
    BY <1>2 DEF Forge!PictureChanges
  <2>8. Cached(of, previews, new) /\ \A s \in DOMAIN snap.tasks : Task(of, snap.tasks[s], new)
    BY <2>6 DEF ForgePreviewInv, old
  <2>9. Cached(of, previews, service.pictures)' /\ \A s \in DOMAIN snap'.tasks : Task(of, snap'.tasks[s], service'.pictures)
    BY <2>4, <2>7, <2>8 DEF Cached
  <2> QED
    BY <2>3, <2>4, <2>5, <2>7, <2>9 DEF ForgePreviewInv
<1>3. CASE Forge(of)!TtlRunsOut \/ Forge(of)!InvalidateMetadata
  BY <1>3, PreviewsKept DEF Forge!TtlRunsOut, Forge!InvalidateMetadata, ForgePreviewInv
<1>4. CASE Forge(of)!Post
  <2>1. /\ UNCHANGED <<snap, previews, lock>> /\ call' \in {"answered", "idle"}
        /\ service' = [version |-> service'.version, sessions |-> service'.sessions,
                       pictures |-> service.pictures]
    BY <1>4 DEF Forge!Post, ForgePreviewInv
  <2>2. Cached(of, previews, service.pictures)'
    BY <2>1 DEF ForgePreviewInv, Cached
  <2> QED BY <2>1, <2>2 DEF ForgePreviewInv
<1>5. CASE Forge(of)!StartSnapshot \/ Forge(of)!FetchFails \/ Forge(of)!ReturnMetadata
  <2>1. /\ UNCHANGED <<service, previews, call>> /\ lock' \in {lock, Nil, "snapshot"}
        /\ snap' = [f \in DOMAIN Forge(of)!IdleSnap |-> snap'[f]]
        /\ snap'.step \in {"idle", "metadata", "previews"} /\ DOMAIN snap'.tasks = {}
    <3>1. CASE Forge(of)!FetchFails
      BY <3>1 DEF Forge!FetchFails, Forge!IdleSnap
    <3>2. CASE Forge(of)!StartSnapshot
      <4>1. UNCHANGED <<service, previews, call>> /\ lock' \in {lock, Nil, "snapshot"}
        BY <3>2 DEF Forge!StartSnapshot
      <4>2. \/ snap' = [Forge(of)!IdleSnap EXCEPT !.step = "metadata"]
            \/ snap' = [Forge(of)!IdleSnap EXCEPT !.step = "previews", !.read = metadata.read,
                                              !.sessions = metadata.sessions]
        BY <3>2 DEF Forge!StartSnapshot, Forge!Fetching
      <4>3. CASE snap' = [Forge(of)!IdleSnap EXCEPT !.step = "metadata"]
        BY <4>1, <4>3 DEF Forge!IdleSnap
      <4>4. CASE snap' = [Forge(of)!IdleSnap EXCEPT !.step = "previews", !.read = metadata.read,
                                                    !.sessions = metadata.sessions]
        <5>1. /\ snap'.step = "previews" /\ snap'.tasks = Forge(of)!IdleSnap.tasks
              /\ snap' = [f \in DOMAIN Forge(of)!IdleSnap |-> snap'[f]]
          BY <4>4 DEF Forge!IdleSnap
        <5>2. DOMAIN Forge(of)!IdleSnap.tasks = {}
          BY DEF Forge!IdleSnap
        <5> QED BY <4>1, <5>1, <5>2
      <4> QED BY <4>2, <4>3, <4>4
    <3>3. CASE Forge(of)!ReturnMetadata
      BY <3>3 DEF Forge!ReturnMetadata, Forge!IdleSnap
    <3> QED BY <1>5, <3>1, <3>2, <3>3
  <2> QED BY <2>1, PreviewsKept DEF ForgePreviewInv
<1>6. CASE Forge(of)!FetchResource \/ Forge(of)!FetchedAll
  <2>1. /\ UNCHANGED <<service, previews, call>> /\ lock' \in {lock, Nil}
        /\ snap' = [f \in DOMAIN Forge(of)!IdleSnap |-> snap'[f]]
        /\ snap'.step \in {snap.step, "previews"} /\ snap'.tasks = snap.tasks
    BY <1>6 DEF Forge!FetchResource, Forge!FetchedAll, ForgePreviewInv
  <2> QED BY <2>1, PreviewsKept DEF ForgePreviewInv
<1>7. ASSUME NEW serial \in of.serials, Forge(of)!AskPreview(serial)
      PROVE  ForgePreviewInv(of)'
  <2> DEFINE key == Forge(of)!PreviewKey(serial, serial \in snap.sessions)
             task == [state |-> "asked", key |-> key, held |-> Forge(of)!HeldPreview(previews, key),
                      since |-> service.pictures[key].tag, png |-> Nil]
  <2>1. key \in Forge(of)!Urls
    BY DEF Forge!PreviewKey, Forge!Urls
  <2>2. /\ previews' = Forge(of)!Looked(previews, key) /\ UNCHANGED <<service, lock, call>>
        /\ snap' = [snap EXCEPT !.tasks = [s \in DOMAIN snap.tasks \cup {serial} |->
                      IF s = serial THEN task ELSE snap.tasks[s]]]
    BY <1>7 DEF Forge!AskPreview
  <2>3. Task(of, task, service.pictures)
    <3>1. service.pictures[key].tag \in Nat
      BY <2>1 DEF ForgePreviewInv, ForgePictures
    <3>2. Forge(of)!HeldPreview(previews, key) # Nil =>
            Forge(of)!HeldPreview(previews, key) \in ForgePictures(of) /\ Forge(of)!HeldPreview(previews, key).url = key
      BY DEF Forge!HeldPreview, ForgePreviewInv, Cached
    <3> HIDE DEF key
    <3> QED BY <2>1, <3>1, <3>2 DEF Task
  <2> HIDE DEF key, task
  <2>4. /\ snap' = [f \in DOMAIN Forge(of)!IdleSnap |-> snap'[f]] /\ snap'.step = snap.step
        /\ snap'.tasks = [s \in DOMAIN snap.tasks \cup {serial} |->
                            IF s = serial THEN task ELSE snap.tasks[s]]
    BY <2>2 DEF ForgePreviewInv
  <2>5. \A s \in DOMAIN snap'.tasks : Task(of, snap'.tasks[s], service.pictures)
    BY <2>3, <2>4 DEF ForgePreviewInv
  <2>6. Cached(of, previews', service.pictures) /\ ~Forge(of)!Crowded(previews')
    BY <2>1, <2>2, LookedCached DEF ForgePreviewInv
  <2>7. Cached(of, previews, service.pictures)' /\ ~Forge(of)!Crowded(previews)'
    BY <2>2, <2>6 DEF Cached, Forge!Crowded
  <2>8. \A s \in DOMAIN snap'.tasks : Task(of, snap'.tasks[s], service'.pictures)
    BY <2>2, <2>5 DEF Task
  <2> QED
    BY <2>2, <2>4, <2>7, <2>8 DEF ForgePreviewInv
<1>8. ASSUME NEW serial \in Forge(of)!Asking, Forge(of)!AnswerPreview(serial) \/ Forge(of)!PreviewFails(serial)
      PROVE  ForgePreviewInv(of)'
  <2> DEFINE task == snap.tasks[serial]
             answer == Forge(of)!Answered(task)
             fetched == service.pictures[task.key]
  <2>1. serial \in DOMAIN snap.tasks /\ Task(of, task, service.pictures)
    BY DEF Forge!Asking, ForgePreviewInv
  <2>2. fetched \in ForgePictures(of) /\ fetched.url = task.key /\ fetched.tag \in Nat /\ task.since <= fetched.tag /\ task.since \in Nat
    BY <2>1 DEF Task, ForgePreviewInv, ForgePictures
  <2>3. /\ answer.png # Nil =>
             answer.png \in ForgePictures(of) /\ answer.png.url = task.key /\ answer.png.tag >= task.since
        /\ answer.keep => answer.png = fetched
    <3>1. \/ task.held # Nil /\ task.held.tag = fetched.tag /\ answer = [png |-> task.held, keep |-> FALSE]
          \/ answer = [png |-> Nil, keep |-> FALSE]
          \/ answer = [png |-> fetched, keep |-> TRUE]
      BY DEF Forge!Answered
    <3>2. task.held # Nil => task.held \in ForgePictures(of) /\ task.held.url = task.key
      BY <2>1 DEF Task
    <3> HIDE DEF task, answer, fetched
    <3> QED BY <2>2, <3>1, <3>2
  <2>4. CASE Forge(of)!PreviewFails(serial)
    <3>1. /\ snap' = [snap EXCEPT !.tasks[serial].state = "done"]
          /\ UNCHANGED <<service, lock, call, previews>>
      BY <2>4 DEF Forge!PreviewFails
    <3>2. /\ snap' = [f \in DOMAIN Forge(of)!IdleSnap |-> snap'[f]] /\ snap'.step = snap.step
          /\ snap'.tasks = [snap.tasks EXCEPT ![serial] = [task EXCEPT !.state = "done"]]
      BY <3>1 DEF ForgePreviewInv
    <3>3. Task(of, [task EXCEPT !.state = "done"], service.pictures)
      BY <2>1 DEF Task
    <3>4. \A s \in DOMAIN snap'.tasks : Task(of, snap'.tasks[s], service.pictures)
      BY <3>2, <3>3 DEF ForgePreviewInv
    <3> QED BY <3>1, <3>2, <3>4, PreviewsKept DEF ForgePreviewInv
  <2>5. CASE Forge(of)!AnswerPreview(serial)
    <3>1. /\ snap' = [snap EXCEPT !.tasks[serial].state = "done", !.tasks[serial].png = answer.png]
          /\ previews' = IF answer.keep THEN Forge(of)!StorePreview(previews, task.key, answer.png) ELSE previews
          /\ UNCHANGED <<service, lock, call>>
      BY <2>5 DEF Forge!AnswerPreview
    <3> DEFINE done == [[task EXCEPT !.state = "done"] EXCEPT !.png = answer.png]
    <3> HIDE DEF answer
    <3>2. /\ snap' = [f \in DOMAIN Forge(of)!IdleSnap |-> snap'[f]] /\ snap'.step = snap.step
          /\ snap'.tasks = [snap.tasks EXCEPT ![serial] = done]
      BY <2>1, <3>1 DEF ForgePreviewInv
    <3>3. Task(of, done, service.pictures)
      <4>1. /\ task = [f \in {"state", "key", "held", "since", "png"} |-> task[f]]
            /\ task.key \in Forge(of)!Urls /\ task.since \in Nat /\ task.since <= service.pictures[task.key].tag
            /\ task.held # Nil => task.held \in ForgePictures(of) /\ task.held.url = task.key
        BY <2>1 DEF Task
      <4> HIDE DEF task
      <4>2. /\ done = [f \in {"state", "key", "held", "since", "png"} |-> done[f]]
            /\ done.key = task.key /\ done.held = task.held /\ done.since = task.since
            /\ done.png = answer.png
        BY <4>1
      <4> HIDE DEF done
      <4> QED BY <4>1, <4>2, <2>3 DEF Task
    <3> HIDE DEF done
    <3>4. \A s \in DOMAIN snap'.tasks : Task(of, snap'.tasks[s], service.pictures)
      BY <3>2, <3>3 DEF ForgePreviewInv
    <3>5. Cached(of, previews', service.pictures) /\ ~Forge(of)!Crowded(previews')
      <4>1. CASE answer.keep
        <5>1. task.key \in Forge(of)!Urls /\ fetched.tag <= service.pictures[task.key].tag
          BY <2>1, <2>2 DEF Task
        <5> HIDE DEF task, fetched
        <5>2. Cached(of, Forge(of)!StorePreview(previews, task.key, fetched), service.pictures)
              /\ ~Forge(of)!Crowded(Forge(of)!StorePreview(previews, task.key, fetched))
          BY <2>2, <5>1, StoredCached DEF ForgePreviewInv, ForgeLimits
        <5> QED BY <2>3, <3>1, <4>1, <5>2
      <4>2. CASE ~answer.keep
        BY <3>1, <4>2 DEF ForgePreviewInv
      <4> QED BY <4>1, <4>2
    <3>6. Cached(of, previews, service.pictures)' /\ ~Forge(of)!Crowded(previews)'
      BY <3>1, <3>5 DEF Cached, Forge!Crowded
    <3>7. \A s \in DOMAIN snap'.tasks : Task(of, snap'.tasks[s], service'.pictures)
      BY <3>1, <3>4 DEF Task
    <3> QED
      BY <3>1, <3>2, <3>6, <3>7 DEF ForgePreviewInv
  <2> QED BY <1>8, <2>4, <2>5
<1>9. CASE Forge(of)!ReturnSnapshot
  <2>1. PICK active : previews' = Forge(of)!PrunePreviews(previews, active)
    BY <1>9 DEF Forge!ReturnSnapshot
  <2>2. /\ UNCHANGED <<service, lock, call>> /\ snap' = Forge(of)!IdleSnap
        /\ snap'.step = "idle" /\ DOMAIN snap'.tasks = {}
    BY <1>9 DEF Forge!ReturnSnapshot, Forge!IdleSnap
  <2>3. Cached(of, previews', service.pictures) /\ ~Forge(of)!Crowded(previews')
    BY <2>1, PrunedCached DEF ForgePreviewInv, ForgeLimits
  <2>4. Cached(of, previews, service.pictures)' /\ ~Forge(of)!Crowded(previews)'
    BY <2>2, <2>3 DEF Cached, Forge!Crowded
  <2>5. snap' = [f \in DOMAIN Forge(of)!IdleSnap |-> snap'[f]]
    BY <2>2 DEF Forge!IdleSnap
  <2> QED
    BY <2>2, <2>4, <2>5 DEF ForgePreviewInv
<1> QED
  BY <1>1, <1>2, <1>3, <1>4, <1>5, <1>6, <1>7, <1>8, <1>9 DEF Forge!Next, Forge!PreviewTask

-----------------------------------------------------------------------------
(* A pet card with any contents, sizes, animations and limits.             *)

PetFields ==
    {"shown", "frames", "cache", "loading", "failed", "animation", "policy", "offline",
     "ready", "reset", "preferred", "presentation", "request", "alive"}

IsCard(c) == c = [f \in PetFields |-> c[f]]

\* What the frames and their cache are does not matter here.
SameBut(c, d, fields) == IsCard(d) /\ \A f \in PetFields \ fields : d[f] = c[f]

Drawn == {"frames", "cache", "loading", "animation", "policy"}

LEMMA BlankFields == ASSUME NEW of PROVE DOMAIN Pet(of)!Blank = PetFields
BY DEF PetFields, Pet!Blank

LEMMA SnapshotDraws ==
    ASSUME NEW of, NEW c, IsCard(c), NEW look, NEW isMapped
    PROVE  SameBut(c, Pet(of)!ApplySnapshot(c, look, isMapped), Drawn)
BY DEF PetFields, IsCard, SameBut, Drawn, Pet!ApplySnapshot

LEMMA FramesDraw ==
    ASSUME NEW of, NEW c, IsCard(c), NEW frames, NEW look, NEW isMapped
    PROVE  SameBut(c, Pet(of)!ApplyFrames(c, frames, look, isMapped), Drawn)
<1> DEFINE given == [c EXCEPT !.frames = frames]
<1>1. SameBut(c, given, Drawn)
  BY DEF PetFields, IsCard, SameBut, Drawn
<1> HIDE DEF given
<1>2. SameBut(given, Pet(of)!ApplySnapshot(given, look, isMapped), Drawn)
  BY <1>1, SnapshotDraws DEF SameBut
<1>3. Pet(of)!ApplyFrames(c, frames, look, isMapped) \in {given, Pet(of)!ApplySnapshot(given, look, isMapped)}
  BY DEF Pet!ApplyFrames, given
<1> QED BY <1>1, <1>2, <1>3 DEF SameBut

LEMMA EnteringDraws ==
    ASSUME NEW of, NEW c, IsCard(c), NEW state, NEW look, NEW isMapped
    PROVE  SameBut(c, Pet(of)!EnterFrames(c, state, look, isMapped), Drawn)
<1>1. CASE Pet(of)!Holds(c.cache, state)
  <2> DEFINE used == [c EXCEPT !.cache = Pet(of)!Used(@, state)]
  <2>1. SameBut(c, used, Drawn)
    BY DEF PetFields, IsCard, SameBut, Drawn
  <2>2. Pet(of)!EnterFrames(c, state, look, isMapped)
          = Pet(of)!ApplyFrames(used, c.cache.held[state], look, isMapped)
    BY <1>1 DEF Pet!EnterFrames
  <2> HIDE DEF used
  <2> QED BY <2>1, <2>2, FramesDraw DEF SameBut
<1>2. CASE ~Pet(of)!Holds(c.cache, state)
  <2> DEFINE empty == Pet(of)!ApplyFrames(c, <<>>, look, isMapped)
  <2>1. SameBut(c, empty, Drawn)
    BY FramesDraw
  <2>2. Pet(of)!EnterFrames(c, state, look, isMapped) \in {empty, Pet(of)!StartFrameLoad(empty, state)}
    BY <1>2 DEF Pet!EnterFrames
  <2> HIDE DEF empty
  <2>3. SameBut(empty, Pet(of)!StartFrameLoad(empty, state), Drawn)
    BY <2>1 DEF PetFields, IsCard, SameBut, Drawn, Pet!StartFrameLoad
  <2> QED BY <2>1, <2>2, <2>3 DEF SameBut
<1> QED BY <1>1, <1>2

\* What is asked of the page, and what a state does to the timer of the size.
LEMMA StateSizes ==
    ASSUME NEW of, NEW c, IsCard(c), NEW state, NEW look, NEW isMapped
    PROVE  LET d == Pet(of)!SetState(c, state, look, isMapped)
           IN  /\ SameBut(c, d, Drawn \cup {"shown", "reset", "presentation", "request"})
               /\ d.shown = state
               /\ c.shown = state => d = c
               /\ c.shown # state /\ state = "offline" =>
                    d.reset /\ d.presentation = c.presentation /\ d.request = c.request
               /\ c.shown # state /\ state # "offline" =>
                    /\ ~d.reset /\ d.presentation = c.preferred
                    /\ d.request = IF c.presentation = c.preferred THEN c.request ELSE c.preferred
<1>1. CASE c.shown = state
  BY <1>1 DEF Pet!SetState, SameBut
<1>2. CASE c.shown # state
  <2> DEFINE entered == [c EXCEPT !.shown = state]
             sized   == IF state = "offline"
                        THEN [entered EXCEPT !.reset = TRUE]
                        ELSE Pet(of)!Request([entered EXCEPT !.reset = FALSE], c.preferred)
             still   == Pet(of)!StopAnimation(sized)
             d       == Pet(of)!EnterFrames(still, state, look, isMapped)
  <2>1. /\ SameBut(c, sized, {"shown", "reset", "presentation", "request"})
        /\ sized.shown = state
        /\ state = "offline" =>
             sized.reset /\ sized.presentation = c.presentation /\ sized.request = c.request
        /\ state # "offline" =>
             /\ ~sized.reset /\ sized.presentation = c.preferred
             /\ sized.request = IF c.presentation = c.preferred THEN c.request ELSE c.preferred
    BY DEF PetFields, IsCard, SameBut, Pet!Request
  <2> HIDE DEF sized
  <2>2. SameBut(sized, still, Drawn)
    BY <2>1 DEF PetFields, IsCard, SameBut, Drawn, Pet!StopAnimation
  <2> HIDE DEF still
  <2>3. SameBut(still, d, Drawn)
    BY <2>2, EnteringDraws DEF SameBut
  <2>4. d = Pet(of)!SetState(c, state, look, isMapped)
    BY <1>2 DEF Pet!SetState, still, sized
  <2> HIDE DEF d
  <2>5. {"shown", "reset", "presentation", "request"} \subseteq PetFields \ Drawn
    BY DEF PetFields, Drawn
  <2> QED
    BY <1>2, <2>1, <2>2, <2>3, <2>4, <2>5 DEF SameBut
<1> QED BY <1>1, <1>2

-----------------------------------------------------------------------------
PetStates(of) == Pet(of)!NamedStates \cup {"offline"}

\* What of a card its size and the agent depend on.
Sized(of, c) ==
    /\ IsCard(c) /\ c.shown \in PetStates(of) /\ {c.preferred, c.presentation} \subseteq of.presentations
    /\ c.request = Nil => applied = c.presentation
    /\ c.request # Nil => c.request = c.presentation
    /\ c.alive /\ c.shown # "offline" => c.presentation = c.preferred /\ ~c.reset
    /\ c.alive /\ c.shown = "offline" /\ ~c.reset => c.presentation = "normal"

Unsized == Drawn \cup {"offline", "ready", "failed"}

\* The file that was read is the one there is, unless an event of it is still to come.
PetSizeInv(of) ==
    /\ Sized(of, card)
    /\ card.alive /\ agent => card.offline
    /\ edges \in Nat
    /\ load = [f \in {"running", "overtaken", "read"} |-> load[f]]
    /\ load.read # Nil => load.running
    /\ card.alive /\ edges = 0 /\ load.running /\ ~load.overtaken /\ load.read # Nil
         => load.read.version = file.version
    /\ card.alive /\ edges = 0 /\ ~load.running => seen = file.version

LEMMA PetSizeFollows ==
    ASSUME NEW of, PetSizeInv(of)
    PROVE  Pet(of)!FileFollowed /\ Pet(of)!AgentForgotten /\ Pet(of)!PresentationFollows
BY DEF PetSizeInv, Sized, Pet!FileFollowed, Pet!AgentForgotten, Pet!PresentationFollows

\* Frames, timers of states and files say nothing of the size.
LEMMA UnsizedKeep ==
    ASSUME NEW of, NEW c, NEW d, Sized(of, c), SameBut(c, d, Unsized)
    PROVE  Sized(of, d)
<1>1. {"preferred", "request", "presentation", "alive", "shown", "reset"} \subseteq PetFields \ Unsized
  BY DEF PetFields, Unsized, Drawn
<1> QED BY <1>1 DEF Sized, SameBut

LEMMA StateKeepsSize ==
    ASSUME NEW of, NEW c, Sized(of, c), NEW state \in PetStates(of), NEW look, NEW isMapped,
           Nil \notin of.presentations
    PROVE  LET d == Pet(of)!SetState(c, state, look, isMapped)
           IN  /\ Sized(of, d)
               /\ d.offline = c.offline /\ d.ready = c.ready /\ d.alive = c.alive
<1> DEFINE d == Pet(of)!SetState(c, state, look, isMapped)
           changed == Drawn \cup {"shown", "reset", "presentation", "request"}
<1>1. {"preferred", "alive", "offline", "ready"} \subseteq PetFields \ changed
  BY DEF PetFields, Drawn
<1>2. SameBut(c, d, changed) /\ IsCard(c)
  BY StateSizes DEF Sized
<1>3. /\ d.preferred = c.preferred /\ d.alive = c.alive
      /\ d.offline = c.offline /\ d.ready = c.ready /\ IsCard(d)
  <2> HIDE DEF d, changed
  <2> QED BY <1>1, <1>2 DEF SameBut
<1>4. d.shown = state
  BY <1>2, StateSizes
<1>5. ASSUME c.shown = state
      PROVE  Sized(of, d)
  BY <1>2, <1>5, StateSizes
<1>6. ASSUME c.shown # state, state = "offline"
      PROVE  Sized(of, d)
  <2>1. d.reset /\ d.presentation = c.presentation /\ d.request = c.request
    BY <1>2, <1>6, StateSizes
  <2> HIDE DEF d
  <2> QED BY <1>3, <1>4, <1>6, <2>1 DEF Sized
<1>7. ASSUME c.shown # state, state # "offline"
      PROVE  Sized(of, d)
  <2>1. /\ ~d.reset /\ d.presentation = c.preferred
        /\ d.request = IF c.presentation = c.preferred THEN c.request ELSE c.preferred
    BY <1>2, <1>7, StateSizes
  <2> HIDE DEF d
  <2> QED BY <1>3, <1>4, <1>7, <2>1 DEF Sized
<1> QED BY <1>3, <1>5, <1>6, <1>7

LEMMA PetSizeInit ==
    ASSUME NEW of, Pet(of)!Init, "normal" \in of.presentations
    PROVE  PetSizeInv(of)
<1>1. PICK preferred \in of.presentations :
        card = Pet(of)!SetState([Pet(of)!Blank EXCEPT !.preferred = preferred], "offline", snapshot, FALSE)
  BY DEF Pet!Init
<1> DEFINE first == [Pet(of)!Blank EXCEPT !.preferred = preferred]
<1>2. /\ IsCard(first) /\ first.shown # "offline" /\ first.request = Nil
      /\ first.presentation = "normal" /\ first.preferred \in of.presentations
      /\ applied = "normal"
  BY DEF Pet!Init, Pet!Blank, IsCard, PetFields
<1>3. Sized(of, card)
  <2>1. PICK unmapped : card = Pet(of)!SetState(first, "offline", snapshot, unmapped)
    BY <1>1
  <2> HIDE DEF first
  <2>2. "preferred" \in PetFields \ (Drawn \cup {"shown", "reset", "presentation", "request"})
    BY DEF PetFields, Drawn
  <2>3. SameBut(first, card, Drawn \cup {"shown", "reset", "presentation", "request"})
    BY <1>2, <2>1, StateSizes
  <2>4. card.shown = "offline"
    BY <1>2, <2>1, StateSizes
  <2>5. card.reset
    BY <1>2, <2>1, StateSizes
  <2>6. card.presentation = "normal" /\ card.request = Nil
    BY <1>2, <2>1, StateSizes
  <2> QED BY <1>2, <2>2, <2>3, <2>4, <2>5, <2>6 DEF Sized, SameBut, PetStates
<1>4. edges = 0 /\ agent = FALSE /\ load = [Pet(of)!NotLoading EXCEPT !.running = TRUE]
  BY DEF Pet!Init
<1> QED BY <1>3, <1>4 DEF PetSizeInv, Pet!NotLoading

\* What the file, its events and its reads are, when a step leaves them alone.
LEMMA FileKept ==
    ASSUME NEW of, PetSizeInv(of), UNCHANGED <<file, edges, load, seen>>, card'.alive => card.alive,
           Sized(of, card)', (card'.alive /\ agent' => card'.offline)
    PROVE  PetSizeInv(of)'
BY DEF PetSizeInv

LEMMA PetSizeNext ==
    ASSUME NEW of, PetSizeInv(of), [Pet(of)!Next]_(Pet(of)!vars), Nil \notin of.presentations, "normal" \in of.presentations
    PROVE  PetSizeInv(of)'
<1>1. Sized(of, card) /\ (card.alive /\ agent => card.offline) /\ IsCard(card)
  BY DEF PetSizeInv, Sized
<1>2. ASSUME applied' = applied, NEW d, card' = d, Sized(of, d)
      PROVE  Sized(of, card)'
  BY <1>2 DEF Sized
<1> DEFINE states == PetStates(of)
<1>16. {"offline", "ready", Pet(of)!NormalizeState(load.read.content)} \subseteq states
  BY DEF PetStates, Pet!NamedStates, Pet!NormalizeState
<1>3. CASE UNCHANGED Pet(of)!vars
  BY <1>3 DEF Pet!vars, PetSizeInv, Sized
<1>4. CASE Pet(of)!Write
  BY <1>4 DEF Pet!Write, PetSizeInv, Sized
<1>5. CASE Pet(of)!LoadState
  <2>1. /\ card.alive /\ UNCHANGED <<file, seen, card, agent, applied>>
        /\ edges' = edges - 1 /\ edges > 0
        /\ load' = IF load.running THEN [load EXCEPT !.overtaken = TRUE]
                   ELSE [Pet(of)!NotLoading EXCEPT !.running = TRUE]
    BY <1>5 DEF Pet!LoadState
  <2>2. /\ load'.running /\ load' = [f \in {"running", "overtaken", "read"} |-> load'[f]]
        /\ load'.read # Nil => load'.overtaken
    BY <2>1 DEF PetSizeInv, Pet!NotLoading
  <2>3. Sized(of, card)' /\ edges' \in Nat
    BY <1>1, <2>1 DEF PetSizeInv, Sized
  <2> QED BY <1>1, <2>1, <2>2, <2>3 DEF PetSizeInv
<1>6. CASE Pet(of)!Read
  BY <1>6 DEF Pet!Read, PetSizeInv, Sized
<1>7. CASE Pet(of)!Loaded
  <2>1. CASE load.overtaken
    BY <1>7, <2>1 DEF Pet!Loaded, PetSizeInv, Sized, Pet!NotLoading
  <2>2. CASE ~load.overtaken
    <3>1. /\ load' = Pet(of)!NotLoading /\ seen' = load.read.version /\ load.read # Nil
          /\ UNCHANGED <<file, edges, applied>> /\ card.alive
      BY <1>7, <2>2 DEF Pet!Loaded
    <3>2. Sized(of, card)' /\ (card'.alive /\ agent' => card'.offline)
      <4>1. CASE UNCHANGED <<card, agent>>
        BY <1>1, <3>1, <4>1 DEF Sized
      <4>2. CASE card' = Pet(of)!SetState(card, "offline", snapshot, mapped) /\ agent' = FALSE
        BY <1>1, <1>2, <1>16, <3>1, <4>2, StateKeepsSize
      <4>3. CASE card' = Pet(of)!ApplyEvent(card, load.read.content)
        <5> DEFINE c == [card EXCEPT !.ready = FALSE]
                   d == Pet(of)!SetState(c, Pet(of)!NormalizeState(load.read.content), snapshot, mapped)
                   e == [d EXCEPT !.ready = (load.read.content = "done"), !.offline = TRUE]
        <5>1. SameBut(card, c, Unsized)
          BY <1>1 DEF PetFields, SameBut, IsCard, Unsized, Drawn
        <5>2. Sized(of, d)
          <6> HIDE DEF c
          <6> QED BY <1>1, <1>16, <5>1, UnsizedKeep, StateKeepsSize
        <5> HIDE DEF d
        <5>3. SameBut(d, e, Unsized) /\ e.offline
          BY <5>2 DEF PetFields, SameBut, IsCard, Unsized, Drawn, Sized
        <5>4. card' = e
          BY <4>3 DEF Pet!ApplyEvent, d
        <5> HIDE DEF e
        <5>5. Sized(of, e)
          BY <5>2, <5>3, UnsizedKeep
        <5> QED BY <1>2, <3>1, <5>3, <5>4, <5>5
      <4> QED BY <1>7, <2>2, <4>1, <4>2, <4>3 DEF Pet!Loaded
    <3> QED BY <2>2, <3>1, <3>2 DEF PetSizeInv, Pet!NotLoading
  <2> QED BY <2>1, <2>2
<1>8. CASE Pet(of)!BecomeReady
  <2> DEFINE d == Pet(of)!SetState(card, "ready", snapshot, mapped)
             e == [d EXCEPT !.ready = FALSE]
  <2>1. Sized(of, d) /\ d.offline = card.offline /\ d.alive = card.alive
    BY <1>1, <1>16, StateKeepsSize
  <2> HIDE DEF d
  <2>2. SameBut(d, e, Unsized) /\ e.offline = d.offline /\ e.alive = d.alive
    BY <2>1 DEF PetFields, SameBut, IsCard, Unsized, Drawn, Sized
  <2>3. card' = e /\ UNCHANGED <<file, edges, load, seen, agent, applied>>
    BY <1>8 DEF Pet!BecomeReady, Pet!Live, d
  <2> HIDE DEF e
  <2> QED BY <1>1, <1>2, <2>1, <2>2, <2>3, UnsizedKeep, FileKept
<1>9. CASE Pet(of)!GoOffline
  <2> DEFINE d == Pet(of)!SetState(card, "offline", snapshot, mapped)
             e == [d EXCEPT !.offline = FALSE]
  <2>1. Sized(of, d) /\ d.alive = card.alive
    BY <1>1, <1>16, StateKeepsSize
  <2> HIDE DEF d
  <2>2. SameBut(d, e, Unsized) /\ e.alive = d.alive
    BY <2>1 DEF PetFields, SameBut, IsCard, Unsized, Drawn, Sized
  <2>3. card' = e /\ agent' = FALSE /\ UNCHANGED <<file, edges, load, seen, applied>>
    BY <1>9 DEF Pet!GoOffline, Pet!Live, d
  <2> HIDE DEF e
  <2> QED BY <1>1, <1>2, <2>1, <2>2, <2>3, UnsizedKeep, FileKept
<1>10. CASE Pet(of)!ResetSize
  <2> DEFINE d == [Pet(of)!Request(card, "normal") EXCEPT !.reset = FALSE]
  <2>1. card' = d /\ card.reset /\ card.alive /\ UNCHANGED <<file, edges, load, seen, agent, applied>>
    BY <1>10 DEF Pet!ResetSize, Pet!Live
  <2>2. Sized(of, d) /\ d.alive = card.alive /\ d.offline = card.offline
    BY <1>1, <2>1 DEF PetFields, Sized, IsCard, Pet!Request
  <2> HIDE DEF d
  <2> QED BY <1>1, <1>2, <2>1, <2>2, FileKept
<1>11. CASE Pet(of)!FramesLoaded \/ Pet(of)!AnimationEnds \/ Pet(of)!Map \/ Pet(of)!Unmap \/ Pet(of)!DeliverSnapshot
  <2>1. /\ SameBut(card, card', Unsized \ {"offline", "ready"})
        /\ UNCHANGED <<file, edges, load, seen, agent, applied>>
    <3>1. CASE Pet(of)!FramesLoaded
      <4>1. PICK state \in card.loading :
              LET loaded == Pet(of)!LoadFrames(Pet(of)!Untried(Pet(of)!AnimationOf(state).paths, card.failed))
                  done   == [card EXCEPT !.loading = @ \ {state},
                                         !.failed = @ \cup loaded.failures,
                                         !.cache = Pet(of)!Kept(@, state, loaded.frames)]
              IN  card' \in {done, Pet(of)!ApplyFrames(done, loaded.frames, snapshot, mapped)}
        BY <3>1 DEF Pet!FramesLoaded, Pet!Live
      <4> DEFINE loaded == Pet(of)!LoadFrames(Pet(of)!Untried(Pet(of)!AnimationOf(state).paths, card.failed))
                 done   == [card EXCEPT !.loading = @ \ {state},
                                        !.failed = @ \cup loaded.failures,
                                        !.cache = Pet(of)!Kept(@, state, loaded.frames)]
      <4>2. SameBut(card, done, Unsized \ {"offline", "ready"}) /\ IsCard(done)
        BY <1>1 DEF PetFields, SameBut, IsCard, Unsized, Drawn
      <4> HIDE DEF done, loaded
      <4>3. card' \in {done, Pet(of)!ApplyFrames(done, loaded.frames, snapshot, mapped)}
        BY <4>1 DEF done, loaded
      <4>4. SameBut(done, Pet(of)!ApplyFrames(done, loaded.frames, snapshot, mapped), Drawn)
        BY <4>2, FramesDraw
      <4>5. Drawn \subseteq Unsized \ {"offline", "ready"}
        BY DEF Unsized, Drawn
      <4>6. UNCHANGED <<file, edges, load, seen, agent, applied>>
        BY <3>1 DEF Pet!FramesLoaded
      <4> QED BY <4>2, <4>3, <4>4, <4>5, <4>6 DEF SameBut
    <3>2. CASE Pet(of)!AnimationEnds \/ Pet(of)!Unmap
      BY <1>1, <3>2
         DEF PetFields, Pet!AnimationEnds, Pet!Unmap, Pet!Live, Pet!StopAnimation, SameBut, IsCard, Unsized, Drawn
    <3>3. CASE Pet(of)!Map \/ Pet(of)!DeliverSnapshot
      <4>1. PICK isMapped : card' = Pet(of)!ApplySnapshot(card, snapshot, isMapped)
        BY <3>3 DEF Pet!Map, Pet!DeliverSnapshot, Pet!Live
      <4>2. Drawn \subseteq Unsized \ {"offline", "ready"}
        BY DEF Unsized, Drawn
      <4>3. UNCHANGED <<file, edges, load, seen, agent, applied>>
        BY <3>3 DEF Pet!Map, Pet!DeliverSnapshot
      <4> QED BY <1>1, <4>1, <4>2, <4>3, SnapshotDraws DEF SameBut
    <3> QED BY <1>11, <3>1, <3>2, <3>3
  <2>2. SameBut(card, card', Unsized)
    BY <2>1 DEF SameBut
  <2>3. card'.alive = card.alive /\ card'.offline = card.offline
    <3>1. {"alive", "offline"} \subseteq PetFields \ (Unsized \ {"offline", "ready"})
      BY DEF PetFields, Unsized, Drawn
    <3> QED BY <2>1, <3>1 DEF SameBut
  <2> QED BY <1>1, <1>2, <2>1, <2>2, <2>3, UnsizedKeep, FileKept
<1>12. CASE Pet(of)!RuntimeChanges
  BY <1>12 DEF Pet!RuntimeChanges, PetSizeInv, Sized
<1>13. ASSUME NEW presentation \in of.presentations, Pet(of)!Select(presentation)
       PROVE  PetSizeInv(of)'
  <2> DEFINE asked == Pet(of)!Request([card EXCEPT !.preferred = presentation], presentation)
             d == [asked EXCEPT !.reset = @ \/ card.shown = "offline"]
  <2>1. card' = d /\ UNCHANGED <<file, edges, load, seen, agent, applied>>
    BY <1>13 DEF Pet!Select, Pet!Live
  <2>2. Sized(of, d) /\ d.alive = card.alive /\ d.offline = card.offline
    BY <1>1 DEF PetFields, Sized, IsCard, Pet!Request
  <2> HIDE DEF d
  <2> QED BY <1>1, <1>2, <2>1, <2>2, FileKept
<1>14. CASE Pet(of)!Present
  <2>1. /\ card.request # Nil /\ applied' = card.request
        /\ card' = [card EXCEPT !.request = Nil] /\ UNCHANGED <<file, edges, load, seen, agent>>
    BY <1>14 DEF Pet!Present
  <2>2. Sized(of, card)' /\ card'.alive = card.alive /\ card'.offline = card.offline
    BY <1>1, <2>1 DEF PetFields, Sized, IsCard
  <2> QED BY <1>1, <2>1, <2>2, FileKept
<1>15. CASE Pet(of)!Destroy
  <2>1. Sized(of, card)' /\ ~card'.alive
    BY <1>1, <1>15 DEF PetFields, Pet!Destroy, Pet!Live, Sized, IsCard
  <2> QED BY <1>15, <2>1 DEF Pet!Destroy, PetSizeInv
<1> QED
  BY <1>3, <1>4, <1>5, <1>6, <1>7, <1>8, <1>9, <1>10, <1>11, <1>12, <1>13, <1>14, <1>15
     DEF Pet!Next, Pet!Choose

-----------------------------------------------------------------------------
(* Its frames                                                              *)

\* The operators of the frames and of their cache are those the lemmas are about.
LEMMA PetTotal ==
    ASSUME NEW of, NEW f, NEW S
    PROVE  Pet(of)!Total(f, S) = Total(f, S)
BY DEF Pet!Total, Pet!MapThenSumSet, Pet!MapThenFoldSet, Total, MapThenSumSet, MapThenFoldSet

LEMMA PetOrder ==
    ASSUME NEW of, NEW s, NEW k, NEW X
    PROVE  /\ Pet(of)!Without(s, X) = Without(s, X)
           /\ Pet(of)!UsedLast(s, k) = UsedLast(s, k)
           /\ Pet(of)!Range(s) = ToSet(s)
BY DEF Pet!Without, Without, Pet!UsedLast, UsedLast, Pet!Range, ToSet

LEMMA PetCount ==
    ASSUME NEW of, NEW S
    PROVE  Pet(of)!Cardinality(S) = Cardinality(S)
BY DEF Pet!Cardinality, Cardinality, Pet!IsFiniteSet, IsFiniteSet

PetLimits == [count |-> MaxFrameCount, pixels |-> MaxFramePixels, bytes |-> MaxStateBytes]

LEMMA PetFilmed ==
    ASSUME NEW of
    PROVE  /\ Pet(of)!Pictures = Film(PetLimits)!Pictures
           /\ \A s : Pet(of)!FramesBytes(s) = Film(PetLimits)!FramesBytes(s)
           /\ \A l, path : Pet(of)!LoadOne(l, path) = Film(PetLimits)!LoadOne(l, path)
           /\ \A P, F : Pet(of)!Untried(P, F) = Film(PetLimits)!Untried(P, F)
<1> DEFINE lim == PetLimits
<1>1. lim.count = MaxFrameCount /\ lim.pixels = MaxFramePixels /\ lim.bytes = MaxStateBytes
  BY DEF PetLimits
<1>2. \A f, S : Pet(of)!Total(f, S) = Film(lim)!Total(f, S)
  BY PetTotal, FilmTotal
<1>3. ASSUME NEW s
      PROVE  Pet(of)!FramesBytes(s) = Film(lim)!FramesBytes(s)
  BY <1>2 DEF Pet!FramesBytes, Film!FramesBytes, Pet!Bytes, Film!Bytes
<1> HIDE DEF lim
<1>4. ASSUME NEW l, NEW path
      PROVE  Pet(of)!LoadOne(l, path) = Film(lim)!LoadOne(l, path)
  <2>1. Pet(of)!Decodes(path.picture, Pet(of)!FramesBytes(l.frames))
          <=> Film(lim)!Decodes(path.picture, Film(lim)!FramesBytes(l.frames))
    BY <1>1, <1>3 DEF Pet!Decodes, Film!Decodes, Pet!PassesPreflight, Film!PassesPreflight,
                      Pet!Bytes, Film!Bytes
  <2> QED BY <2>1 DEF Pet!LoadOne, Film!LoadOne
<1>5. \A P : Pet(of)!Range(P) = Film(lim)!Range(P)
  BY DEF Pet!Range, Film!Range
<1>6. \A P, F : Pet(of)!Untried(P, F) = Film(lim)!Untried(P, F)
  <2>1. \A s, X : Pet(of)!Without(s, X) = Film(lim)!Without(s, X)
    BY PetOrder DEF Film!Without, Without
  <2> QED BY <1>5, <2>1 DEF Pet!Untried, Film!Untried
<1>7. Pet(of)!Pictures = Film(lim)!Pictures
  BY <1>1 DEF Pet!Pictures, Film!Pictures, Pet!Headers, Film!Headers
<1> QED BY <1>3, <1>4, <1>5, <1>6, <1>7 DEF lim

LEMMA PetLoadsFilmed ==
    ASSUME NEW of, NEW P, Len(P) \in Nat, MaxFrameCount \in Nat
    PROVE  Pet(of)!LoadFrames(P) = Film(PetLimits)!LoadFrames(P)
<1> DEFINE lim == PetLimits
           N == Len(P)
           Equal(f) == f = [n \in 0 .. N |-> IF n = 0 THEN [frames |-> <<>>, failures |-> {}]
                                             ELSE Pet(of)!LoadOne(f[n - 1], P[n])]
           h == CHOOSE f : Equal(f)
<1>1. lim.count = MaxFrameCount /\ lim.count \in Nat
  BY DEF PetLimits
<1> HIDE DEF lim
<1>2. \A f : Equal(f) <=> Loads(lim, f, P, N)
  <2>1. \A l, path : Pet(of)!LoadOne(l, path) = Film(lim)!LoadOne(l, path)
    BY PetFilmed DEF lim
  <2> QED BY <2>1 DEF Loads
<1>3. PICK f : /\ Loads(lim, f, P, N)
               /\ Film(lim)!LoadFrames(P) = IF N > lim.count
                                            THEN [frames |-> <<>>, failures |-> {"<animation>"}]
                                            ELSE f[N]
  BY <1>1, LoadFramesLoads
<1>4. Loads(lim, h, P, N)
  <2>1. Equal(h)
    <3> HIDE DEF Equal
    <3> QED BY <1>2, <1>3
  <2> QED BY <1>2, <2>1
<1>5. Pet(of)!LoadFrames(P) = IF N > lim.count THEN [frames |-> <<>>, failures |-> {"<animation>"}]
                              ELSE h[N]
  BY <1>1 DEF Pet!LoadFrames
<1> HIDE DEF h
<1>6. f[N] = h[N]
  BY <1>3, <1>4, LoadsUnique
<1> QED BY <1>3, <1>5, <1>6 DEF lim

\* The frames and failures of any load.
LEMMA LoadedFrames ==
    ASSUME NEW of, {MaxFrameCount, MaxFramePixels, MaxStateBytes} \subseteq Nat,
           NEW K, \A path \in K : path.picture \in Pet(of)!Pictures, NEW P \in Seq(K), NEW F
    PROVE  Pet(of)!LoadFrames(Pet(of)!Untried(P, F)).frames \in Seq(Pet(of)!Pictures)
<1> DEFINE lim == PetLimits
           X == {path \in Film(lim)!Range(P) : path.name \in F}
           w == Without(P, X)
           M == Len(w)
<1>1. Pet(of)!Untried(P, F) = w
  BY PetFilmed DEF Film!Untried, Film!Without, Without
<1>2. FilmLimits(lim) /\ lim.count \in Nat
  BY DEF FilmLimits, PetLimits
<1> HIDE DEF lim
<1>3. w \in Seq(K)
  <2> HIDE DEF X
  <2> QED BY WithoutProperties
<1> HIDE DEF w
<1>4. M \in Nat /\ \A n \in 1 .. M : w[n].picture \in Film(lim)!Pictures
  BY <1>3, PetFilmed DEF lim
<1>5. Pet(of)!LoadFrames(w) = Film(lim)!LoadFrames(w)
  BY <1>4, PetLoadsFilmed DEF lim
<1>6. PICK f : /\ Loads(lim, f, w, M)
               /\ Film(lim)!LoadFrames(w) = IF M > lim.count
                                            THEN [frames |-> <<>>, failures |-> {"<animation>"}]
                                            ELSE f[M]
  BY <1>2, <1>4, LoadFramesLoads
<1> HIDE DEF M
<1>7. f[M].frames \in Seq(Film(lim)!Pictures)
  <2> DEFINE t == f[M].frames
  <2>1. M \in 0 .. M
    BY <1>4
  <2>2. Loading(lim, f, w, M)
    BY <1>2, <1>4, <1>6, <2>1, AllLoading
  <2>3. t \in Seq(Shown(lim)) /\ Shown(lim) \subseteq Film(lim)!Pictures
    BY <2>2 DEF Loading, Shown
  <2> HIDE DEF t
  <2>4. t \in Seq(Film(lim)!Pictures)
    BY <2>3
  <2> QED BY <2>4 DEF t
<1>8. <<>> \in Seq(Film(lim)!Pictures)
  OBVIOUS
<1>9. Film(lim)!LoadFrames(w).frames \in {<<>>, f[M].frames}
  BY <1>6
<1>10. Film(lim)!LoadFrames(w).frames \in Seq(Film(lim)!Pictures)
  BY <1>7, <1>8, <1>9
<1> QED BY <1>1, <1>5, <1>10, PetFilmed DEF lim

-----------------------------------------------------------------------------
PetFramesLimits ==
    {MaxFrameCount, MaxFramePixels, MaxStateBytes, MaxCacheStates, MaxCacheBytes} \subseteq Nat

\* The frames held are pictures, each state is in the order once, and the bytes are theirs.
Framed(of, c) ==
    /\ c = [held |-> c.held, order |-> c.order, bytes |-> c.bytes]
    /\ c.held \in [DOMAIN c.held -> Seq(Pet(of)!Pictures)]
    /\ c.order \in Seq(PetStates(of)) /\ Distinct(c.order) /\ ToSet(c.order) = DOMAIN c.held
    /\ c.bytes = Total(Pet(of)!HeldBytes(c.held), DOMAIN c.held)

LEMMA PetBytes ==
    ASSUME NEW of, NEW s \in Seq(Pet(of)!Pictures)
    PROVE  Pet(of)!FramesBytes(s) \in Nat
BY PetFilmed, BytesNat

LEMMA FramedSizes ==
    ASSUME NEW of, NEW c, Framed(of, c)
    PROVE  /\ IsFiniteSet(DOMAIN c.held) /\ Cardinality(DOMAIN c.held) = Len(c.order)
           /\ DOMAIN Pet(of)!HeldBytes(c.held) = DOMAIN c.held
           /\ \A k \in DOMAIN c.held :
                /\ Pet(of)!HeldBytes(c.held)[k] = Pet(of)!FramesBytes(c.held[k])
                /\ Pet(of)!FramesBytes(c.held[k]) \in Nat
           /\ c.bytes \in Nat
<1>1. IsFiniteSet(DOMAIN c.held) /\ Cardinality(DOMAIN c.held) = Len(c.order)
  BY DistinctCount DEF Framed
<1>2. \A k \in DOMAIN c.held : Pet(of)!FramesBytes(c.held[k]) \in Nat
  BY PetBytes DEF Framed
<1>3. /\ DOMAIN Pet(of)!HeldBytes(c.held) = DOMAIN c.held
      /\ \A k \in DOMAIN c.held : Pet(of)!HeldBytes(c.held)[k] = Pet(of)!FramesBytes(c.held[k])
  BY DEF Pet!HeldBytes
<1>4. Total(Pet(of)!HeldBytes(c.held), DOMAIN c.held) \in Nat
  BY <1>1, <1>2, <1>3, TotalNat
<1> QED BY <1>1, <1>2, <1>3, <1>4 DEF Framed

LEMMA FramedConsistent ==
    ASSUME NEW of, NEW c, Framed(of, c), ~Pet(of)!OverLimits(c)
    PROVE  Pet(of)!CacheConsistent(c)
BY FramedSizes, PetOrder, PetCount, PetTotal DEF Framed, Pet!CacheConsistent

LEMMA NoneFramed ==
    ASSUME NEW of, PetFramesLimits
    PROVE  /\ Framed(of, Pet(of)!NoCache) /\ ~Pet(of)!OverLimits(Pet(of)!NoCache)
           /\ DOMAIN Pet(of)!NoCache.held = {}
<1> DEFINE c == Pet(of)!NoCache
<1>1. c = [held |-> c.held, order |-> c.order, bytes |-> c.bytes] /\ DOMAIN c.held = {}
      /\ c.order = <<>> /\ c.bytes = 0
  BY DEF Pet!NoCache
<1>2. ToSet(<<>>) = {} /\ Distinct(<<>>) /\ <<>> \in Seq(PetStates(of)) /\ Len(<<>>) = 0
  BY DEF ToSet, Distinct
<1>3. c.held \in [DOMAIN c.held -> Seq(Pet(of)!Pictures)]
  BY DEF Pet!NoCache
<1> HIDE DEF c
<1>4. Total(Pet(of)!HeldBytes(c.held), {}) = 0
  BY TotalEmpty
<1>5. Framed(of, c)
  BY <1>1, <1>2, <1>3, <1>4 DEF Framed
<1>6. ~Pet(of)!OverLimits(c)
  BY <1>1, <1>2 DEF Pet!OverLimits, PetFramesLimits
<1> QED BY <1>1, <1>5, <1>6 DEF c

\* What is left when the oldest leave.
LEMMA DroppedFramed ==
    ASSUME NEW of, NEW c, Framed(of, c), NEW n \in 0 .. Len(c.order)
    PROVE  LET d == Pet(of)!Dropped(c, n)
           IN  /\ Framed(of, d)
               /\ DOMAIN d.held \subseteq DOMAIN c.held
               /\ \A k \in DOMAIN d.held : d.held[k] = c.held[k]
               /\ n = Len(c.order) => Len(d.order) = 0 /\ d.bytes = 0
<1> DEFINE t == SubSeq(c.order, n + 1, Len(c.order))
           rest == ToSet(t)
           f == Pet(of)!HeldBytes(c.held)
           d == Pet(of)!Dropped(c, n)
           g == Pet(of)!HeldBytes(d.held)
           H == DOMAIN c.held
<1>1. c.order \in Seq(PetStates(of)) /\ Distinct(c.order) /\ ToSet(c.order) = H
  BY DEF Framed
<1>2. /\ t \in Seq(PetStates(of)) /\ Distinct(t) /\ rest \subseteq H
      /\ rest = {c.order[i] : i \in n + 1 .. Len(c.order)} /\ Len(t) = Len(c.order) - n
  BY <1>1, SuffixProperties
<1>3. d = [held |-> [state \in rest |-> c.held[state]], order |-> t,
           bytes |-> c.bytes - Total(f, H \ rest)]
  BY PetTotal, PetOrder DEF Pet!Dropped
<1> HIDE DEF t, d, rest
<1>4. /\ d = [held |-> d.held, order |-> d.order, bytes |-> d.bytes]
      /\ DOMAIN d.held = rest /\ \A k \in rest : d.held[k] = c.held[k]
      /\ d.order = t /\ d.bytes = c.bytes - Total(f, H \ rest)
      /\ d.held \in [rest -> Seq(Pet(of)!Pictures)]
  BY <1>2, <1>3 DEF Framed
<1>5. /\ Total(f, rest) \in Nat /\ Total(f, H \ rest) \in Nat /\ Total(f, H) \in Nat
      /\ Total(f, H) = Total(f, rest) + Total(f, H \ rest)
  <2>1. IsFiniteSet(H) /\ \A k \in H : f[k] \in Nat
    BY FramedSizes
  <2>2. rest \in SUBSET H
    BY <1>2
  <2> HIDE DEF f, H
  <2> QED BY <2>1, <2>2, TotalPart
<1>6. Total(g, rest) = Total(f, rest)
  <2>1. \A k \in rest : g[k] = f[k]
    BY <1>2, <1>4 DEF Pet!HeldBytes
  <2>2. IsFiniteSet(rest)
    BY <1>2, FramedSizes, FS_Subset
  <2> HIDE DEF f, g
  <2> QED BY <2>1, <2>2, TotalSame
<1>7. c.bytes = Total(f, H)
  BY DEF Framed
<1>8. d.bytes = Total(g, rest)
  <2> HIDE DEF f, g, H
  <2> QED BY <1>4, <1>5, <1>6, <1>7
<1>9. Framed(of, d)
  BY <1>2, <1>4, <1>8 DEF Framed, rest
<1>10. ASSUME n = Len(c.order)
       PROVE  Len(d.order) = 0 /\ d.bytes = 0
  <2>1. Len(c.order) \in Nat
    BY <1>1
  <2>2. n + 1 .. Len(c.order) = {}
    BY <1>10, <2>1
  <2>3. rest = {}
    BY <1>2, <2>2
  <2> HIDE DEF g
  <2>4. Total(g, rest) = 0
    BY <2>3, TotalEmpty
  <2>5. Len(t) = 0
    BY <1>2, <1>10, <2>1
  <2> QED BY <1>4, <1>8, <2>4, <2>5
<1> QED BY <1>2, <1>4, <1>9, <1>10 DEF d

\* The loop stops at a cache within the limits.
LEMMA EvictedFramed ==
    ASSUME NEW of, NEW c, Framed(of, c), PetFramesLimits
    PROVE  LET d == Pet(of)!Evicted(c)
           IN  /\ Framed(of, d) /\ ~Pet(of)!OverLimits(d)
               /\ DOMAIN d.held \subseteq DOMAIN c.held
               /\ \A k \in DOMAIN d.held : d.held[k] = c.held[k]
<1> DEFINE N == Len(c.order)
           stops == {n \in 0 .. N : n = N \/ ~Pet(of)!OverLimits(Pet(of)!Dropped(c, n))}
           m == Pet(of)!Min(stops)
           d == Pet(of)!Dropped(c, m)
<1>1. N \in Nat
  BY DEF Framed
<1>2. m \in stops
  <2>1. stops \subseteq Nat /\ N \in stops
    BY <1>1
  <2> HIDE DEF stops
  <2>2. PICK n \in stops : \A k \in stops : n <= k
    BY <2>1, LeastNumber
  <2> QED BY <2>2 DEF Pet!Min
<1>3. Pet(of)!Evicted(c) = d
  BY DEF Pet!Evicted
<1> HIDE DEF m
<1>4. /\ Framed(of, d) /\ DOMAIN d.held \subseteq DOMAIN c.held
      /\ \A k \in DOMAIN d.held : d.held[k] = c.held[k]
      /\ m = N => Len(d.order) = 0 /\ d.bytes = 0
  BY <1>2, DroppedFramed
<1>5. m = N \/ ~Pet(of)!OverLimits(d)
  BY <1>2
<1> HIDE DEF d, stops
<1>6. ~Pet(of)!OverLimits(d)
  BY <1>4, <1>5 DEF Pet!OverLimits, PetFramesLimits
<1> QED BY <1>3, <1>4, <1>6

\* A load that is kept.
LEMMA KeptFramed ==
    ASSUME NEW of, NEW c, Framed(of, c), PetFramesLimits,
           NEW state \in PetStates(of), NEW frames \in Seq(Pet(of)!Pictures)
    PROVE  LET d == Pet(of)!Kept(c, state, frames)
           IN  /\ Framed(of, d) /\ ~Pet(of)!OverLimits(d)
               /\ DOMAIN d.held \subseteq DOMAIN c.held \cup {state}
               /\ \A k \in DOMAIN d.held : d.held[k] = IF k = state THEN frames ELSE c.held[k]
<1> DEFINE E == DOMAIN c.held
           D == E \cup {state}
           before == IF state \in E THEN Pet(of)!FramesBytes(c.held[state]) ELSE 0
           d == [held  |-> [s \in D |-> IF s = state THEN frames ELSE c.held[s]],
                 order |-> UsedLast(c.order, state),
                 bytes |-> (c.bytes - before) + Pet(of)!FramesBytes(frames)]
           f == Pet(of)!HeldBytes(c.held)
           g == Pet(of)!HeldBytes(d.held)
<1>1. Pet(of)!Kept(c, state, frames) = Pet(of)!Evicted(d)
  BY PetOrder DEF Pet!Kept, Pet!Holds
<1>2. /\ d = [held |-> d.held, order |-> d.order, bytes |-> d.bytes]
      /\ DOMAIN d.held = D
      /\ \A k \in D : d.held[k] = IF k = state THEN frames ELSE c.held[k]
      /\ d.held \in [D -> Seq(Pet(of)!Pictures)]
      /\ d.order = UsedLast(c.order, state)
      /\ d.bytes = (c.bytes - before) + Pet(of)!FramesBytes(frames)
  BY DEF Framed
<1> HIDE DEF d
<1>3. d.order \in Seq(PetStates(of)) /\ Distinct(d.order) /\ ToSet(d.order) = D
  BY <1>2, UsedLastProperties DEF Framed
<1>4. /\ IsFiniteSet(E) /\ IsFiniteSet(D) /\ \A k \in E : f[k] \in Nat
      /\ \A k \in E : f[k] = Pet(of)!FramesBytes(c.held[k])
  <2>1. IsFiniteSet(E) /\ \A k \in E : f[k] = Pet(of)!FramesBytes(c.held[k]) /\ f[k] \in Nat
    BY FramedSizes
  <2> HIDE DEF E, f
  <2>2. IsFiniteSet(D)
    BY <2>1, FS_AddElement
  <2> QED BY <2>1, <2>2
<1>5. \A k \in D : g[k] = Pet(of)!FramesBytes(d.held[k]) /\ g[k] \in Nat
  <2>1. \A k \in D : g[k] = Pet(of)!FramesBytes(d.held[k])
    BY <1>2 DEF Pet!HeldBytes
  <2>2. \A k \in D : Pet(of)!FramesBytes(d.held[k]) \in Nat
    BY <1>2, PetBytes
  <2> QED BY <2>1, <2>2
<1>6. Total(g, D) = g[state] + Total(g, D \ {state}) /\ Total(g, D \ {state}) \in Nat
  <2>1. IsFiniteSet(D \ {state})
    BY <1>4, FS_RemoveElement
  <2>2. state \in D
    OBVIOUS
  <2> HIDE DEF g, D
  <2> QED BY <1>4, <1>5, <2>1, <2>2, TotalSplit, TotalNat
<1>7. Total(g, D \ {state}) = Total(f, E \ {state})
  <2>1. D \ {state} = E \ {state} /\ IsFiniteSet(E \ {state})
    BY <1>4, FS_RemoveElement
  <2>2. \A k \in E \ {state} : g[k] = f[k]
    BY <1>2, <1>4, <1>5
  <2> HIDE DEF f, g, D, E
  <2> QED BY <2>1, <2>2, TotalSame
<1>8. Total(f, E) = before + Total(f, E \ {state}) /\ before \in Nat
  <2>1. CASE state \in E
    <3>1. before = f[state]
      BY <1>4, <2>1
    <3> HIDE DEF f, E, before
    <3> QED BY <2>1, <3>1, <1>4, TotalSplit
  <2>2. CASE state \notin E
    <3>1. before = 0 /\ E \ {state} = E
      BY <2>2
    <3> HIDE DEF f, E, before
    <3>2. Total(f, E) \in Nat
      BY <1>4, TotalNat
    <3>3. Total(f, E \ {state}) = Total(f, E)
      BY <3>1
    <3> HIDE DEF D
    <3> QED BY <3>1, <3>2, <3>3
  <2> QED BY <2>1, <2>2
<1>9. c.bytes = Total(f, E) /\ c.bytes \in Nat
  BY FramedSizes DEF Framed
<1>10. d.bytes = Total(g, D)
  <2>1. g[state] = Pet(of)!FramesBytes(frames) /\ g[state] \in Nat
    BY <1>2, <1>5
  <2> HIDE DEF f, g, D, E, before
  <2> QED BY <1>2, <1>6, <1>7, <1>8, <1>9, <2>1
<1>11. Framed(of, d)
  BY <1>2, <1>3, <1>10 DEF Framed
<1> DEFINE e == Pet(of)!Evicted(d)
<1>12. /\ Framed(of, e) /\ ~Pet(of)!OverLimits(e) /\ DOMAIN e.held \subseteq DOMAIN d.held
       /\ \A k \in DOMAIN e.held : e.held[k] = d.held[k]
  BY <1>11, EvictedFramed
<1> HIDE DEF e
<1> QED BY <1>1, <1>2, <1>12 DEF e

LEMMA UsedFramed ==
    ASSUME NEW of, NEW c, Framed(of, c), NEW state
    PROVE  LET d == Pet(of)!Used(c, state)
           IN  /\ Framed(of, d) /\ (~Pet(of)!OverLimits(c) => ~Pet(of)!OverLimits(d))
               /\ d.held = c.held
<1> DEFINE d == [c EXCEPT !.order = UsedLast(@, state)]
<1>1. CASE ~Pet(of)!Holds(c, state)
  BY <1>1 DEF Pet!Used
<1>2. CASE Pet(of)!Holds(c, state)
  <2>1. Pet(of)!Used(c, state) = d
    BY <1>2, PetOrder DEF Pet!Used
  <2>2. d = [held |-> c.held, order |-> UsedLast(c.order, state), bytes |-> c.bytes]
    BY DEF Framed
  <2>3. /\ c.order \in Seq(PetStates(of)) /\ Distinct(c.order) /\ ToSet(c.order) = DOMAIN c.held
        /\ state \in ToSet(c.order)
    BY <1>2 DEF Framed, Pet!Holds
  <2>4. state \in PetStates(of)
    BY <2>3 DEF ToSet
  <2>5. /\ UsedLast(c.order, state) \in Seq(PetStates(of)) /\ Distinct(UsedLast(c.order, state))
        /\ ToSet(UsedLast(c.order, state)) = DOMAIN c.held
    <3>1. ToSet(c.order) \cup {state} = DOMAIN c.held
      BY <2>3
    <3>2. /\ UsedLast(c.order, state) \in Seq(PetStates(of))
          /\ ToSet(UsedLast(c.order, state)) = ToSet(c.order) \cup {state}
          /\ Distinct(c.order) => Distinct(UsedLast(c.order, state))
      BY <2>3, <2>4, UsedLastProperties
    <3> QED BY <2>3, <3>1, <3>2
  <2>6. Len(UsedLast(c.order, state)) = Len(c.order)
    BY <2>3, <2>5, DistinctCount
  <2> HIDE DEF d
  <2> QED BY <2>1, <2>2, <2>5, <2>6 DEF Framed, Pet!OverLimits
<1> QED BY <1>1, <1>2

-----------------------------------------------------------------------------
\* An animation that runs is of the frames, the state and the policy of the card.
Consistent(c, isMapped) ==
    c.animation # Nil =>
        /\ isMapped /\ Len(c.frames) > 1
        /\ c.animation.of = c.shown /\ c.animation.policy = c.policy

\* ... and of the policy of the runtime; and a loop that may move does.
Follows(of, c, look, isMapped) ==
    LET policy == Pet(of)!PolicyOf(c.shown, look)
    IN  /\ c.animation # Nil => c.animation.policy = policy
        /\ (/\ isMapped /\ Len(c.frames) > 1 /\ Pet(of)!HasAnimation(c.shown)
            /\ Pet(of)!Moving(policy) /\ Pet(of)!AnimationOf(c.shown).loop)
             => c.animation # Nil

\* No animation is taken for none.
Told(of) == Nil \notin [of : PetStates(of), policy : {"full", "capped", "lowest"}]

LEMMA SnapshotFollows ==
    ASSUME NEW of, Told(of), NEW c, IsCard(c), NEW look, NEW isMapped, Consistent(c, isMapped),
           c.shown \in PetStates(of)
    PROVE  LET d == Pet(of)!ApplySnapshot(c, look, isMapped)
           IN  /\ SameBut(c, d, {"animation", "policy"})
               /\ Consistent(d, isMapped) /\ Follows(of, d, look, isMapped)
<1> DEFINE policy  == Pet(of)!PolicyOf(c.shown, look)
           should  == isMapped /\ Len(c.frames) > 1 /\ Pet(of)!Moving(policy)
           started == [of |-> c.shown, policy |-> policy]
           d       == [c EXCEPT !.policy = policy,
                                !.animation = IF should /\ Pet(of)!HasAnimation(c.shown)
                                              THEN started ELSE Nil]
           e       == Pet(of)!ApplySnapshot(c, look, isMapped)
<1>1. CASE c.policy = policy /\ (should => c.animation # Nil)
  <2>1. e = c
    BY <1>1 DEF Pet!ApplySnapshot
  <2>2. Follows(of, c, look, isMapped)
    BY <1>1 DEF Follows, Consistent
  <2>3. SameBut(c, c, {"animation", "policy"})
    BY DEF SameBut
  <2> HIDE DEF e
  <2> QED BY <2>1, <2>2, <2>3 DEF e
<1>2. CASE ~(c.policy = policy /\ (should => c.animation # Nil))
  <2>1. e = d
    BY <1>2 DEF Pet!ApplySnapshot
  <2> HIDE DEF policy
  <2>2. /\ SameBut(c, d, {"animation", "policy"}) /\ d.policy = policy /\ d.shown = c.shown
        /\ d.frames = c.frames
        /\ d.animation = IF should /\ Pet(of)!HasAnimation(c.shown) THEN started ELSE Nil
    BY DEF PetFields, IsCard, SameBut
  <2>3. should => started # Nil
    BY DEF Told, Pet!Moving
  <2>4. started.of = c.shown /\ started.policy = policy
    OBVIOUS
  <2> HIDE DEF d, e, started
  <2>5. Consistent(d, isMapped)
    BY <2>2, <2>4 DEF Consistent
  <2>6. Follows(of, d, look, isMapped)
    BY <2>2, <2>3, <2>4 DEF Follows, policy
  <2> QED BY <2>1, <2>2, <2>5, <2>6 DEF e
<1> QED BY <1>1, <1>2

LEMMA FramesFollowed ==
    ASSUME NEW of, Told(of), NEW c, IsCard(c), NEW frames, NEW look, NEW isMapped,
           c.animation = Nil, c.shown \in PetStates(of)
    PROVE  LET d == Pet(of)!ApplyFrames(c, frames, look, isMapped)
           IN  /\ SameBut(c, d, {"frames", "animation", "policy"}) /\ d.frames = frames
               /\ Consistent(d, isMapped) /\ Follows(of, d, look, isMapped)
<1> DEFINE given == [c EXCEPT !.frames = frames]
           e == Pet(of)!ApplySnapshot(given, look, isMapped)
           d == Pet(of)!ApplyFrames(c, frames, look, isMapped)
<1>1. /\ SameBut(c, given, {"frames"}) /\ given.frames = frames /\ given.animation = Nil
      /\ given.shown = c.shown /\ IsCard(given)
  BY DEF PetFields, IsCard, SameBut
<1>2. d = IF Len(frames) > 1 THEN e ELSE given
  BY DEF Pet!ApplyFrames
<1> HIDE DEF given, d
<1>3. Consistent(given, isMapped)
  BY <1>1 DEF Consistent
<1>4. CASE Len(frames) > 1
  <2>1. /\ SameBut(given, e, {"animation", "policy"}) /\ Consistent(e, isMapped)
        /\ Follows(of, e, look, isMapped)
    BY <1>1, <1>3, SnapshotFollows
  <2> HIDE DEF e
  <2>2. SameBut(c, e, {"frames", "animation", "policy"}) /\ e.frames = frames
    BY <1>1, <2>1 DEF SameBut, PetFields
  <2> QED BY <1>2, <1>4, <2>1, <2>2 DEF d
<1>5. CASE ~(Len(frames) > 1)
  <2>1. SameBut(c, given, {"frames", "animation", "policy"})
    BY <1>1 DEF SameBut
  <2>2. Follows(of, given, look, isMapped)
    BY <1>1, <1>5 DEF Follows
  <2> QED BY <1>1, <1>2, <1>3, <1>5, <2>1, <2>2 DEF d
<1> QED BY <1>4, <1>5

-----------------------------------------------------------------------------
\* The frames of the state that is entered: those held, or none while they load, or none
\* because no file is left to try.
FramesEntered(of, c, d, state) ==
    LET states == DOMAIN c.cache.held
    IN  \/ /\ state \in states /\ d.frames = c.cache.held[state]
           /\ d.cache = Pet(of)!Used(c.cache, state) /\ d.loading = c.loading
        \/ /\ state \notin states /\ ~Pet(of)!HasAnimation(state) /\ d.frames = <<>>
           /\ d.cache = c.cache /\ d.loading = c.loading
        \/ /\ state \notin states /\ Pet(of)!HasAnimation(state) /\ d.frames = <<>>
           /\ d.cache = c.cache /\ d.loading = c.loading \cup {state}
        \/ /\ state \notin states /\ Pet(of)!HasAnimation(state) /\ d.frames = <<>>
           /\ state \notin c.loading
           /\ Pet(of)!Untried(Pet(of)!AnimationOf(state).paths, c.failed) = <<>>
           /\ d.cache = Pet(of)!Kept(c.cache, state, <<>>) /\ d.loading = c.loading

LEMMA EnteringFollows ==
    ASSUME NEW of, Told(of), NEW c, IsCard(c), NEW look, NEW isMapped, c.animation = Nil,
           c.shown \in PetStates(of)
    PROVE  LET d == Pet(of)!EnterFrames(c, c.shown, look, isMapped)
           IN  /\ Consistent(d, isMapped) /\ Follows(of, d, look, isMapped)
               /\ FramesEntered(of, c, d, c.shown)
<1> DEFINE state == c.shown
           d == Pet(of)!EnterFrames(c, state, look, isMapped)
<1>1. CASE Pet(of)!Holds(c.cache, state)
  <2> DEFINE used == [c EXCEPT !.cache = Pet(of)!Used(@, state)]
             frames == c.cache.held[state]
             e == Pet(of)!ApplyFrames(used, frames, look, isMapped)
  <2>1. /\ IsCard(used) /\ used.shown = state /\ used.animation = Nil
        /\ used.cache = Pet(of)!Used(c.cache, state) /\ used.loading = c.loading
    BY DEF PetFields, IsCard
  <2>2. d = e
    BY <1>1 DEF Pet!EnterFrames
  <2> HIDE DEF used, frames, d
  <2>3. /\ SameBut(used, e, {"frames", "animation", "policy"}) /\ e.frames = frames
        /\ Consistent(e, isMapped) /\ Follows(of, e, look, isMapped)
    BY <2>1, FramesFollowed
  <2> HIDE DEF e
  <2>4. e.cache = used.cache /\ e.loading = used.loading
    BY <2>3 DEF SameBut, PetFields
  <2>5. FramesEntered(of, c, d, state)
    BY <1>1, <2>1, <2>2, <2>3, <2>4 DEF FramesEntered, Pet!Holds, frames
  <2> QED BY <2>2, <2>3, <2>5 DEF d
<1>2. CASE ~Pet(of)!Holds(c.cache, state)
  <2> DEFINE empty == Pet(of)!ApplyFrames(c, <<>>, look, isMapped)
             e == Pet(of)!StartFrameLoad(empty, state)
  <2>1. /\ SameBut(c, empty, {"frames", "animation", "policy"}) /\ empty.frames = <<>>
        /\ Consistent(empty, isMapped) /\ Follows(of, empty, look, isMapped)
    BY FramesFollowed
  <2>2. d = IF Pet(of)!HasAnimation(state) THEN e ELSE empty
    BY <1>2 DEF Pet!EnterFrames
  <2> HIDE DEF empty, d
  <2>3. /\ IsCard(empty) /\ empty.shown = state /\ empty.cache = c.cache
        /\ empty.loading = c.loading /\ empty.failed = c.failed
    BY <2>1 DEF SameBut, PetFields
  <2>4. CASE ~Pet(of)!HasAnimation(state)
    <3>1. FramesEntered(of, c, d, state)
      BY <1>2, <2>1, <2>2, <2>3, <2>4 DEF FramesEntered, Pet!Holds
    <3> QED BY <2>1, <2>2, <2>4, <3>1 DEF d
  <2>5. CASE Pet(of)!HasAnimation(state)
    <3> DEFINE untried == Pet(of)!Untried(Pet(of)!AnimationOf(state).paths, c.failed)
    <3>1. e = IF state \in c.loading THEN empty
              ELSE IF untried = <<>>
              THEN [empty EXCEPT !.cache = Pet(of)!Kept(c.cache, state, <<>>)]
              ELSE [empty EXCEPT !.loading = c.loading \cup {state}]
      BY <2>3 DEF Pet!StartFrameLoad
    <3> HIDE DEF untried, e
    <3>2. /\ e.frames = <<>> /\ e.animation = empty.animation /\ e.policy = empty.policy
          /\ e.shown = empty.shown
          /\ e.cache = IF state \notin c.loading /\ untried = <<>>
                       THEN Pet(of)!Kept(c.cache, state, <<>>) ELSE c.cache
          /\ e.loading = IF state \notin c.loading /\ untried = <<>>
                         THEN c.loading ELSE c.loading \cup {state}
      <4>1. CASE state \in c.loading
        BY <2>1, <2>3, <3>1, <4>1
      <4>2. CASE state \notin c.loading
        BY <2>1, <2>3, <3>1, <4>2 DEF IsCard, PetFields
      <4> QED BY <4>1, <4>2
    <3>3. Consistent(e, isMapped) /\ Follows(of, e, look, isMapped)
      BY <2>1, <3>2 DEF Consistent, Follows
    <3>4. FramesEntered(of, c, d, state)
      BY <1>2, <2>2, <2>5, <3>2 DEF FramesEntered, Pet!Holds, untried
    <3> QED BY <2>2, <2>5, <3>3, <3>4 DEF d
  <2> QED BY <2>4, <2>5
<1> QED BY <1>1, <1>2

-----------------------------------------------------------------------------
\* The animations are made of pictures.
Pictured(of) ==
    \A s \in DOMAIN of.animations :
        LET paths == of.animations[s].paths
        IN  paths \in Seq({path \in Pet(of)!Range(paths) : path.picture \in Pet(of)!Pictures})

LEMMA AnimationPictured ==
    ASSUME NEW of, Pictured(of), NEW state, Pet(of)!HasAnimation(state)
    PROVE  \E s \in DOMAIN of.animations : Pet(of)!AnimationOf(state) = of.animations[s]
BY DEF Pet!HasAnimation, Pet!AnimationOf

LEMMA AnimationFrames ==
    ASSUME NEW of, Pictured(of), PetFramesLimits, NEW state, Pet(of)!HasAnimation(state), NEW F
    PROVE  Pet(of)!LoadFrames(Pet(of)!Untried(Pet(of)!AnimationOf(state).paths, F)).frames
             \in Seq(Pet(of)!Pictures)
<1>1. PICK s \in DOMAIN of.animations : Pet(of)!AnimationOf(state) = of.animations[s]
  BY AnimationPictured
<1> DEFINE paths == of.animations[s].paths
           K == {path \in Pet(of)!Range(paths) : path.picture \in Pet(of)!Pictures}
<1>2. paths \in Seq(K) /\ \A path \in K : path.picture \in Pet(of)!Pictures
  BY DEF Pictured
<1>3. {MaxFrameCount, MaxFramePixels, MaxStateBytes} \subseteq Nat
  BY DEF PetFramesLimits
<1> HIDE DEF paths, K
<1>4. Pet(of)!LoadFrames(Pet(of)!Untried(paths, F)).frames \in Seq(Pet(of)!Pictures)
  BY <1>2, <1>3, LoadedFrames
<1> QED BY <1>1, <1>4 DEF paths

\* A state that loads is not held.
LoadsKept(of, c) ==
    /\ Framed(of, c.cache) /\ ~Pet(of)!OverLimits(c.cache)
    /\ c.loading \subseteq {s \in PetStates(of) : Pet(of)!HasAnimation(s)}
    /\ c.loading \cap DOMAIN c.cache.held = {}

\* What a card shows and does, whatever the runtime wants.
Drawing(of, c, isMapped) ==
    /\ IsCard(c) /\ LoadsKept(of, c) /\ Consistent(c, isMapped)
    /\ c.shown \in c.loading => c.frames = <<>>

LEMMA EnteredKept ==
    ASSUME NEW of, PetFramesLimits, NEW c, LoadsKept(of, c), NEW d, NEW state \in PetStates(of),
           FramesEntered(of, c, d, state)
    PROVE  LoadsKept(of, d) /\ (state \in d.loading => d.frames = <<>>)
<1>1. CASE state \in DOMAIN c.cache.held
  <2>1. d.cache = Pet(of)!Used(c.cache, state) /\ d.loading = c.loading /\ state \notin c.loading
    BY <1>1 DEF FramesEntered, LoadsKept
  <2>2. Framed(of, d.cache) /\ ~Pet(of)!OverLimits(d.cache) /\ d.cache.held = c.cache.held
    BY <2>1, UsedFramed DEF LoadsKept
  <2> QED BY <2>1, <2>2 DEF LoadsKept
<1>2. CASE state \notin DOMAIN c.cache.held /\ d.cache = c.cache
  <2>1. d.frames = <<>> /\ d.loading \subseteq c.loading \cup {state}
        /\ (d.loading = c.loading \/ Pet(of)!HasAnimation(state))
    BY <1>2 DEF FramesEntered
  <2> QED BY <1>2, <2>1 DEF LoadsKept
<1>3. CASE /\ state \notin DOMAIN c.cache.held /\ state \notin c.loading
           /\ d.cache = Pet(of)!Kept(c.cache, state, <<>>) /\ d.loading = c.loading
  <2>1. <<>> \in Seq(Pet(of)!Pictures)
    OBVIOUS
  <2>2. /\ Framed(of, d.cache) /\ ~Pet(of)!OverLimits(d.cache)
        /\ DOMAIN d.cache.held \subseteq DOMAIN c.cache.held \cup {state}
    <3> DEFINE kept == Pet(of)!Kept(c.cache, state, <<>>)
    <3>1. Framed(of, c.cache)
      BY DEF LoadsKept
    <3>2. /\ Framed(of, kept) /\ ~Pet(of)!OverLimits(kept)
          /\ DOMAIN kept.held \subseteq DOMAIN c.cache.held \cup {state}
      BY <2>1, <3>1, KeptFramed
    <3> HIDE DEF kept
    <3>3. d.cache = kept
      BY <1>3 DEF kept
    <3> QED BY <3>2, <3>3
  <2> QED BY <1>3, <2>2 DEF LoadsKept
<1> QED BY <1>1, <1>2, <1>3 DEF FramesEntered

\* Entering a state, with the steps of set_state before it.
LEMMA StateEnters ==
    ASSUME NEW of, NEW c, IsCard(c), NEW state, c.shown # state, NEW look, NEW isMapped
    PROVE  \E e : /\ SameBut(c, e, {"shown", "reset", "presentation", "request", "animation"})
                  /\ e.shown = state /\ e.animation = Nil
                  /\ Pet(of)!SetState(c, state, look, isMapped)
                       = Pet(of)!EnterFrames(e, e.shown, look, isMapped)
<1> DEFINE entered == [c EXCEPT !.shown = state]
           sized   == IF state = "offline"
                      THEN [entered EXCEPT !.reset = TRUE]
                      ELSE Pet(of)!Request([entered EXCEPT !.reset = FALSE], c.preferred)
           e       == Pet(of)!StopAnimation(sized)
<1>1. SameBut(c, sized, {"shown", "reset", "presentation", "request"}) /\ sized.shown = state
  BY DEF PetFields, IsCard, SameBut, Pet!Request
<1>2. Pet(of)!SetState(c, state, look, isMapped) = Pet(of)!EnterFrames(e, state, look, isMapped)
  BY DEF Pet!SetState
<1> HIDE DEF sized
<1>3. SameBut(sized, e, {"animation"}) /\ e.animation = Nil /\ e.shown = state
  BY <1>1 DEF PetFields, IsCard, SameBut, Pet!StopAnimation
<1> HIDE DEF e
<1>4. SameBut(c, e, {"shown", "reset", "presentation", "request", "animation"})
  BY <1>1, <1>3 DEF SameBut
<1> QED BY <1>2, <1>3, <1>4

LEMMA StateDraws ==
    ASSUME NEW of, PetFramesLimits, Told(of), NEW c, NEW state \in PetStates(of), NEW look,
           NEW isMapped, Drawing(of, c, isMapped)
    PROVE  LET d == Pet(of)!SetState(c, state, look, isMapped)
           IN  /\ Drawing(of, d, isMapped)
               /\ c.shown = state => d = c
               /\ c.shown # state => Follows(of, d, look, isMapped) /\ FramesEntered(of, c, d, state)
<1> DEFINE d == Pet(of)!SetState(c, state, look, isMapped)
<1>1. IsCard(c) /\ LoadsKept(of, c)
  BY DEF Drawing
<1>2. CASE c.shown = state
  <2>1. d = c
    BY <1>1, <1>2, StateSizes
  <2> HIDE DEF d
  <2> QED BY <1>2, <2>1 DEF d
<1>3. CASE c.shown # state
  <2>1. PICK e : /\ SameBut(c, e, {"shown", "reset", "presentation", "request", "animation"})
                 /\ e.shown = state /\ e.animation = Nil
                 /\ d = Pet(of)!EnterFrames(e, e.shown, look, isMapped)
    BY <1>1, <1>3, StateEnters
  <2> HIDE DEF d
  <2>2. IsCard(e) /\ e.cache = c.cache /\ e.loading = c.loading /\ e.failed = c.failed
    BY <2>1 DEF SameBut, PetFields
  <2>3. /\ Consistent(d, isMapped) /\ Follows(of, d, look, isMapped)
        /\ FramesEntered(of, e, d, e.shown)
    BY <2>1, <2>2, EnteringFollows
  <2>4. FramesEntered(of, c, d, state)
    BY <2>1, <2>2, <2>3 DEF FramesEntered
  <2>5. LoadsKept(of, d) /\ (state \in d.loading => d.frames = <<>>)
    BY <1>1, <2>4, EnteredKept
  <2>6. IsCard(d) /\ d.shown = state
    BY <1>1, StateSizes DEF d, SameBut
  <2>7. Drawing(of, d, isMapped)
    BY <2>3, <2>5, <2>6 DEF Drawing
  <2> QED BY <1>3, <2>3, <2>4, <2>7 DEF d
<1> QED BY <1>2, <1>3

\* The fields that have nothing to do with it.
Timed == {"failed", "offline", "ready", "reset", "preferred", "presentation", "request", "alive"}

LEMMA TimedKeep ==
    ASSUME NEW of, NEW c, NEW d, NEW look, NEW isMapped, SameBut(c, d, Timed)
    PROVE  /\ Drawing(of, c, isMapped) => Drawing(of, d, isMapped)
           /\ Follows(of, c, look, isMapped) => Follows(of, d, look, isMapped)
<1>1. /\ IsCard(d) /\ d.shown = c.shown /\ d.frames = c.frames /\ d.cache = c.cache
      /\ d.loading = c.loading /\ d.animation = c.animation /\ d.policy = c.policy
  BY DEF SameBut, Timed, PetFields
<1> QED BY <1>1 DEF Drawing, LoadsKept, Consistent, Follows

-----------------------------------------------------------------------------
PetPaths(of) == UNION {Pet(of)!Range(of.animations[s].paths) : s \in DOMAIN of.animations}

\* The pictures of each animation fit together, and a name is of one picture.
AnimationsFit(of) ==
    /\ \A path \in PetPaths(of) : path.name # "<animation>"
    /\ \A p, q \in PetPaths(of) : p.name = q.name => p = q
    /\ \A s \in DOMAIN of.animations :
         LET paths == of.animations[s].paths
         IN  /\ Len(paths) <= MaxFrameCount
             /\ Pet(of)!FramesBytes([n \in DOMAIN paths |-> paths[n].picture]) <= MaxStateBytes

FramesOf(of, state) == Pet(of)!LoadFrames(Pet(of)!AnimationOf(state).paths).frames

LEMMA AnimationFits ==
    ASSUME NEW of, Pictured(of), AnimationsFit(of), PetFramesLimits,
           NEW state, Pet(of)!HasAnimation(state),
           NEW F, Undecodable(PetLimits, PetPaths(of), F)
    PROVE  LET loaded == Pet(of)!LoadFrames(Pet(of)!Untried(Pet(of)!AnimationOf(state).paths, F))
           IN  /\ loaded.frames = FramesOf(of, state)
               /\ Undecodable(PetLimits, PetPaths(of), F \cup loaded.failures)
<1>1. PICK s \in DOMAIN of.animations : Pet(of)!AnimationOf(state) = of.animations[s]
  BY AnimationPictured
<1> DEFINE P == of.animations[s].paths
           K == PetPaths(of)
           lim == PetLimits
           L == {path \in Pet(of)!Range(P) : path.picture \in Pet(of)!Pictures}
<1>2. P \in Seq(L) /\ \A x \in DOMAIN of.animations :
                        \A path \in Pet(of)!Range(of.animations[x].paths) :
                          path.picture \in Pet(of)!Pictures
  <2>1. ASSUME NEW x \in DOMAIN of.animations, NEW path \in Pet(of)!Range(of.animations[x].paths)
        PROVE  path.picture \in Pet(of)!Pictures
    <3> DEFINE Q == of.animations[x].paths
    <3>1. Q \in Seq({p \in Pet(of)!Range(Q) : p.picture \in Pet(of)!Pictures})
      BY DEF Pictured
    <3>2. PICK n \in DOMAIN Q : path = Q[n]
      BY DEF Pet!Range
    <3> HIDE DEF Q
    <3> QED BY <3>1, <3>2
  <2> QED BY <2>1 DEF Pictured
<1>3. P \in Seq(K)
  <2>1. L \subseteq K
    BY DEF PetPaths
  <2> HIDE DEF P, K, L
  <2> QED BY <1>2, <2>1
<1>4. Album(lim, K)
  <2>1. \A path \in K : path.picture \in Film(lim)!Pictures
    BY <1>2, PetFilmed DEF PetPaths
  <2> QED BY <2>1 DEF Album, AnimationsFit
<1>5. FilmLimits(lim) /\ lim.count = MaxFrameCount /\ lim.bytes = MaxStateBytes
  BY DEF FilmLimits, PetLimits, PetFramesLimits
<1>6. Len(P) <= lim.count /\ AllBytes(lim, P) <= lim.bytes
  BY <1>5, PetFilmed DEF AnimationsFit, AllBytes
<1>7. Len(P) \in Nat
  <2> HIDE DEF P
  <2> QED BY <1>3
<1> HIDE DEF P, K, lim, L
<1> DEFINE w == Pet(of)!Untried(P, F)
           rest == Pet(of)!LoadFrames(w)
<1>8. Len(w) \in Nat
  <2> DEFINE X == {path \in Film(lim)!Range(P) : path.name \in F}
  <2>1. w = Without(P, X)
    BY PetFilmed DEF Film!Untried, Film!Without, Without, lim
  <2> HIDE DEF X, w
  <2>2. w \in Seq(K)
    BY <1>3, <2>1, WithoutProperties
  <2> QED BY <2>2
<1>9. w = Film(lim)!Untried(P, F) /\ Undecodable(lim, K, F)
  BY PetFilmed DEF lim, K
<1> HIDE DEF w
<1>10. MaxFrameCount \in Nat
  BY DEF PetFramesLimits
<1>11. rest = Film(lim)!LoadFrames(w) /\ Pet(of)!LoadFrames(P) = Film(lim)!LoadFrames(P)
  BY <1>7, <1>8, <1>10, PetLoadsFilmed DEF lim
<1>12. /\ rest.frames = Film(lim)!LoadFrames(P).frames
       /\ Undecodable(lim, K, F \cup rest.failures)
  <2> DEFINE y == Film(lim)!LoadFrames(Film(lim)!Untried(P, F))
  <2>1. y.frames = Film(lim)!LoadFrames(P).frames /\ Undecodable(lim, K, F \cup y.failures)
    BY <1>3, <1>4, <1>5, <1>6, <1>9, FitLoads
  <2>2. rest = y
    BY <1>9, <1>11
  <2> HIDE DEF rest, y
  <2> QED BY <2>1, <2>2
<1>13. FramesOf(of, state) = Film(lim)!LoadFrames(P).frames
  BY <1>1, <1>11 DEF FramesOf, P
<1> QED BY <1>1, <1>12, <1>13 DEF w, P, lim, K

\* What failed is undecodable, and what is held is what a load shows.
Fitted(of, c) ==
    /\ Undecodable(PetLimits, PetPaths(of), c.failed)
    /\ \A s \in DOMAIN c.cache.held :
         Pet(of)!HasAnimation(s) => c.cache.held[s] = FramesOf(of, s)

Framing(of, c) ==
    AnimationsFit(of) =>
        /\ Fitted(of, c)
        /\ c.alive /\ Pet(of)!HasAnimation(c.shown) =>
             \/ c.frames = FramesOf(of, c.shown)
             \/ c.frames = <<>> /\ c.shown \in c.loading

LEMMA EnteredFits ==
    ASSUME NEW of, Pictured(of), AnimationsFit(of), PetFramesLimits,
           NEW c, LoadsKept(of, c), Fitted(of, c), NEW d, NEW state \in PetStates(of),
           FramesEntered(of, c, d, state), d.failed = c.failed
    PROVE  /\ Fitted(of, d)
           /\ Pet(of)!HasAnimation(state) =>
                d.frames = FramesOf(of, state) \/ (d.frames = <<>> /\ state \in d.loading)
<1>1. CASE /\ state \in DOMAIN c.cache.held /\ d.frames = c.cache.held[state]
           /\ d.cache = Pet(of)!Used(c.cache, state)
  <2>1. Framed(of, c.cache)
    BY DEF LoadsKept
  <2>2. d.cache.held = c.cache.held
    BY <1>1, <2>1, UsedFramed
  <2> QED BY <1>1, <2>2 DEF Fitted
<1>2. CASE ~Pet(of)!HasAnimation(state) /\ d.cache = c.cache
  BY <1>2 DEF Fitted
<1>3. CASE d.frames = <<>> /\ d.cache = c.cache /\ d.loading = c.loading \cup {state}
  BY <1>3 DEF Fitted
<1>4. CASE /\ Pet(of)!HasAnimation(state) /\ d.frames = <<>>
           /\ Pet(of)!Untried(Pet(of)!AnimationOf(state).paths, c.failed) = <<>>
           /\ d.cache = Pet(of)!Kept(c.cache, state, <<>>)
  <2>1. FramesOf(of, state) = <<>>
    <3> DEFINE loaded == Pet(of)!LoadFrames(Pet(of)!Untried(Pet(of)!AnimationOf(state).paths, c.failed))
    <3>1. loaded.frames = FramesOf(of, state)
      BY <1>4, AnimationFits DEF Fitted
    <3>2. loaded = Pet(of)!LoadFrames(<<>>)
      BY <1>4
    <3>3. Len(<<>>) \in Nat /\ MaxFrameCount \in Nat /\ PetLimits.count = MaxFrameCount
      BY DEF PetFramesLimits, PetLimits
    <3>4. Pet(of)!LoadFrames(<<>>) = Film(PetLimits)!LoadFrames(<<>>)
      BY <3>3, PetLoadsFilmed
    <3>5. Film(PetLimits)!LoadFrames(<<>>).frames = <<>>
      BY <3>3, NoPaths
    <3> HIDE DEF loaded
    <3> QED BY <3>1, <3>2, <3>4, <3>5
  <2>2. Framed(of, c.cache)
    BY DEF LoadsKept
  <2> DEFINE none == <<>>
  <2>3. none \in Seq(Pet(of)!Pictures)
    OBVIOUS
  <2> HIDE DEF none
  <2> DEFINE kept == Pet(of)!Kept(c.cache, state, none)
  <2>4. /\ DOMAIN kept.held \subseteq DOMAIN c.cache.held \cup {state}
        /\ \A k \in DOMAIN kept.held : kept.held[k] = IF k = state THEN none ELSE c.cache.held[k]
    BY <2>2, <2>3, KeptFramed
  <2>5. d.cache = kept
    BY <1>4 DEF none
  <2> HIDE DEF kept
  <2> QED BY <1>4, <2>1, <2>4, <2>5 DEF Fitted, none
<1> QED BY <1>1, <1>2, <1>3, <1>4 DEF FramesEntered

-----------------------------------------------------------------------------
LEMMA StateFrames ==
    ASSUME NEW of, Pictured(of), PetFramesLimits, Told(of), NEW c, NEW state \in PetStates(of),
           NEW look, NEW isMapped, Drawing(of, c, isMapped),
           AnimationsFit(of) => Fitted(of, c), c.shown = state => Framing(of, c)
    PROVE  Framing(of, Pet(of)!SetState(c, state, look, isMapped))
<1> DEFINE d == Pet(of)!SetState(c, state, look, isMapped)
<1>1. c.shown = state => d = c
  BY StateDraws
<1>2. IsCard(c)
  BY DEF Drawing
<1>3. CASE c.shown # state
  <2>1. FramesEntered(of, c, d, state)
    BY <1>3, StateDraws
  <2>2. SameBut(c, d, Drawn \cup {"shown", "reset", "presentation", "request"}) /\ d.shown = state
    BY <1>2, StateSizes
  <2> HIDE DEF d
  <2>3. d.failed = c.failed
    BY <2>2 DEF SameBut, PetFields, Drawn
  <2>4. LoadsKept(of, c)
    BY DEF Drawing
  <2>5. ASSUME AnimationsFit(of)
        PROVE  /\ Fitted(of, d)
               /\ Pet(of)!HasAnimation(state) =>
                    d.frames = FramesOf(of, state) \/ (d.frames = <<>> /\ state \in d.loading)
    BY <2>1, <2>3, <2>4, <2>5, EnteredFits
  <2> QED BY <2>2, <2>5 DEF Framing, d
<1> HIDE DEF d
<1> QED BY <1>1, <1>3 DEF d

LEMMA TimedFrame ==
    ASSUME NEW of, NEW c, NEW d, SameBut(c, d, Timed \ {"failed", "alive"}), Framing(of, c)
    PROVE  Framing(of, d)
<1>1. /\ d.shown = c.shown /\ d.frames = c.frames /\ d.cache = c.cache
      /\ d.loading = c.loading /\ d.failed = c.failed /\ d.alive = c.alive
  BY DEF SameBut, Timed, PetFields
<1> QED BY <1>1 DEF Framing, Fitted

PetDrawnInv(of) ==
    /\ Drawing(of, card, mapped) /\ Framing(of, card)
    /\ ~unseen /\ card.alive => Follows(of, card, snapshot, mapped)
    /\ ~card.alive => card.animation = Nil

LEMMA PetDrawnFollows ==
    ASSUME NEW of, PetDrawnInv(of)
    PROVE  /\ Pet(of)!AnimationFollows /\ Pet(of)!CacheConsistent(card.cache)
           /\ AnimationsFit(of) => Pet(of)!FramesFollow
<1>1. Pet(of)!CacheConsistent(card.cache)
  BY FramedConsistent DEF PetDrawnInv, Drawing, LoadsKept
<1>2. Pet(of)!AnimationFollows
  BY DEF PetDrawnInv, Drawing, Consistent, Follows, Pet!AnimationFollows
<1>3. AnimationsFit(of) => Pet(of)!FramesFollow
  BY <1>1 DEF PetDrawnInv, Framing, FramesOf, Pet!FramesFollow
<1> QED BY <1>1, <1>2, <1>3

LEMMA PetDrawnInit ==
    ASSUME NEW of, Pet(of)!Init, Pictured(of), PetFramesLimits, Told(of)
    PROVE  PetDrawnInv(of)
<1>1. PICK preferred \in of.presentations :
        card = Pet(of)!SetState([Pet(of)!Blank EXCEPT !.preferred = preferred], "offline", snapshot, FALSE)
  BY DEF Pet!Init
<1> DEFINE first == [Pet(of)!Blank EXCEPT !.preferred = preferred]
<1>2. /\ IsCard(first) /\ first.shown # "offline" /\ first.animation = Nil
      /\ first.cache = Pet(of)!NoCache /\ first.loading = {} /\ first.failed = {} /\ first.alive
  BY DEF Pet!Blank, IsCard, PetFields
<1> HIDE DEF first
<1>3. LoadsKept(of, first)
  BY <1>2, NoneFramed DEF LoadsKept
<1>4. Drawing(of, first, FALSE)
  BY <1>2, <1>3 DEF Drawing, Consistent
<1>5. Fitted(of, first)
  BY <1>2, NoneFramed DEF Fitted, Undecodable
<1>6. card = Pet(of)!SetState(first, "offline", snapshot, FALSE) /\ "offline" \in PetStates(of)
  BY <1>1 DEF first, PetStates
<1>7. Drawing(of, card, FALSE)
  BY <1>4, <1>6, StateDraws
<1>8. Framing(of, card)
  BY <1>2, <1>4, <1>5, <1>6, StateFrames
<1>9. mapped = FALSE /\ unseen = TRUE
  BY DEF Pet!Init
<1>10. card.alive
  <2>1. SameBut(first, card, Drawn \cup {"shown", "reset", "presentation", "request"})
    BY <1>2, <1>6, StateSizes
  <2> QED BY <1>2, <2>1 DEF SameBut, PetFields, Drawn
<1> QED BY <1>7, <1>8, <1>9, <1>10 DEF PetDrawnInv

\* A step of the live card, on the same screen and under the same snapshot.
LEMMA DrawnStep ==
    ASSUME NEW of, PetDrawnInv(of), UNCHANGED <<mapped, snapshot, unseen>>, card'.alive,
           Drawing(of, card', mapped), Framing(of, card'),
           ~unseen => Follows(of, card', snapshot, mapped)
    PROVE  PetDrawnInv(of)'
<1>1. Drawing(of, card, mapped)' /\ Framing(of, card)'
  BY DEF Drawing, LoadsKept, Consistent, Framed, Framing, Fitted, FramesOf, Undecodable, AnimationsFit,
         PetPaths
<1>2. ~unseen' => Follows(of, card, snapshot, mapped)'
  BY DEF Follows
<1> QED BY <1>1, <1>2 DEF PetDrawnInv

\* set_state, and what the caller does to the timers after it.
LEMMA DrawnState ==
    ASSUME NEW of, Pictured(of), PetFramesLimits, Told(of), NEW state \in PetStates(of),
           PetDrawnInv(of), UNCHANGED <<mapped, snapshot, unseen>>, card.alive,
           NEW c, SameBut(card, c, Timed \ {"failed", "alive"}),
           SameBut(Pet(of)!SetState(c, state, snapshot, mapped), card', Timed \ {"failed", "alive"})
    PROVE  PetDrawnInv(of)'
<1> DEFINE d == Pet(of)!SetState(c, state, snapshot, mapped)
<1>1. SameBut(card, c, Timed) /\ SameBut(d, card', Timed)
  BY DEF SameBut
<1>2. Drawing(of, c, mapped) /\ Framing(of, c)
  BY <1>1, TimedKeep, TimedFrame DEF PetDrawnInv
<1>3. /\ Drawing(of, d, mapped) /\ (c.shown = state => d = c)
      /\ c.shown # state => Follows(of, d, snapshot, mapped)
  BY <1>2, StateDraws
<1>4. Framing(of, d)
  BY <1>2, StateFrames DEF Framing
<1>5. ~unseen => Follows(of, d, snapshot, mapped)
  <2>1. ~unseen => Follows(of, c, snapshot, mapped)
    BY <1>1, TimedKeep DEF PetDrawnInv
  <2> HIDE DEF d
  <2> QED BY <1>3, <2>1
<1>6. d.alive
  <2>1. c.alive
    BY DEF SameBut, PetFields, Timed
  <2>2. IsCard(c)
    BY <1>1 DEF SameBut
  <2>3. SameBut(c, d, Drawn \cup {"shown", "reset", "presentation", "request"})
    BY <2>2, StateSizes
  <2> HIDE DEF d
  <2> QED BY <2>1, <2>3 DEF SameBut, PetFields, Drawn
<1> HIDE DEF d
<1>7. Drawing(of, card', mapped) /\ (~unseen => Follows(of, card', snapshot, mapped))
  BY <1>1, <1>3, <1>5, TimedKeep
<1>8. Framing(of, card') /\ card'.alive
  <2>1. SameBut(d, card', Timed \ {"failed", "alive"})
    BY DEF d
  <2>2. Framing(of, card')
    BY <1>4, <2>1, TimedFrame
  <2> QED BY <1>6, <2>1, <2>2 DEF SameBut, PetFields, Timed
<1> QED BY <1>7, <1>8, DrawnStep

-----------------------------------------------------------------------------
\* Whatever the screen and the runtime have become.
LEMMA DrawnTo ==
    ASSUME NEW of, Drawing(of, card', mapped'), Framing(of, card'),
           ~unseen' /\ card'.alive => Follows(of, card', snapshot', mapped'),
           ~card'.alive => card'.animation = Nil
    PROVE  PetDrawnInv(of)'
<1>1. Drawing(of, card, mapped)' /\ Framing(of, card)'
  BY DEF Drawing, LoadsKept, Consistent, Framed, Framing, Fitted, FramesOf, Undecodable, AnimationsFit,
         PetPaths
<1>2. ~unseen' /\ card'.alive => Follows(of, card, snapshot, mapped)'
  BY DEF Follows
<1> QED BY <1>1, <1>2 DEF PetDrawnInv

LEMMA DrawnSame ==
    ASSUME NEW of, PetDrawnInv(of), UNCHANGED <<card, mapped>>,
           unseen' \/ UNCHANGED <<snapshot, unseen>>
    PROVE  PetDrawnInv(of)'
<1>1. /\ Drawing(of, card', mapped') /\ Framing(of, card')
      /\ ~card'.alive => card'.animation = Nil
  BY DEF PetDrawnInv
<1>2. ~unseen' /\ card'.alive => Follows(of, card', snapshot', mapped')
  BY DEF PetDrawnInv
<1> QED BY <1>1, <1>2, DrawnTo

\* Timers and sizes move, of a card that lives or one that is gone.
LEMMA DrawnTimed ==
    ASSUME NEW of, PetDrawnInv(of), UNCHANGED <<mapped, snapshot, unseen>>,
           SameBut(card, card', Timed \ {"failed", "alive"})
    PROVE  PetDrawnInv(of)'
<1>1. /\ SameBut(card, card', Timed) /\ card'.alive = card.alive
      /\ card'.animation = card.animation
  BY DEF SameBut, Timed, PetFields
<1>2. Drawing(of, card', mapped) /\ Framing(of, card')
  BY <1>1, TimedKeep, TimedFrame DEF PetDrawnInv
<1>3. ~unseen /\ card'.alive => Follows(of, card', snapshot, mapped)
  BY <1>1, TimedKeep DEF PetDrawnInv
<1> QED BY <1>1, <1>2, <1>3, DrawnTo DEF PetDrawnInv

\* What apply_runtime_snapshot leaves of the rest.
LEMMA DrawnLook ==
    ASSUME NEW of, PetDrawnInv(of), Told(of), card.shown \in PetStates(of), card.alive,
           snapshot' = snapshot, NEW isMapped, Consistent(card, isMapped), mapped' = isMapped,
           card' = Pet(of)!ApplySnapshot(card, snapshot, isMapped)
    PROVE  PetDrawnInv(of)'
<1>1. IsCard(card) /\ LoadsKept(of, card) /\ (card.shown \in card.loading => card.frames = <<>>)
  BY DEF PetDrawnInv, Drawing
<1>2. /\ SameBut(card, card', {"animation", "policy"})
      /\ Consistent(card', isMapped) /\ Follows(of, card', snapshot, isMapped)
  BY <1>1, SnapshotFollows
<1>3. /\ IsCard(card') /\ card'.cache = card.cache /\ card'.loading = card.loading
      /\ card'.shown = card.shown /\ card'.frames = card.frames /\ card'.alive = card.alive
      /\ card'.failed = card.failed
  BY <1>2 DEF SameBut, PetFields
<1>4. Drawing(of, card', isMapped)
  BY <1>1, <1>2, <1>3 DEF Drawing, LoadsKept
<1>5. Framing(of, card')
  BY <1>3 DEF PetDrawnInv, Framing, Fitted
<1> QED BY <1>2, <1>3, <1>4, <1>5, DrawnTo

\* The animation stops, and the widget may have left the screen.
LEMMA DrawnStill ==
    ASSUME NEW of, PetDrawnInv(of), card.alive, card' = Pet(of)!StopAnimation(card),
           UNCHANGED <<snapshot, unseen>>, ~mapped' \/ UNCHANGED mapped,
           mapped' /\ card.animation # Nil => ~Pet(of)!AnimationOf(card.shown).loop
    PROVE  PetDrawnInv(of)'
<1>1. IsCard(card) /\ LoadsKept(of, card) /\ (card.shown \in card.loading => card.frames = <<>>)
  BY DEF PetDrawnInv, Drawing
<1>2. /\ SameBut(card, card', {"animation"}) /\ card'.animation = Nil
  BY <1>1 DEF SameBut, PetFields, IsCard, Pet!StopAnimation
<1>3. /\ IsCard(card') /\ card'.cache = card.cache /\ card'.loading = card.loading
      /\ card'.shown = card.shown /\ card'.frames = card.frames /\ card'.alive = card.alive
      /\ card'.failed = card.failed
  BY <1>2 DEF SameBut, PetFields
<1>4. Drawing(of, card', mapped')
  BY <1>1, <1>2, <1>3 DEF Drawing, LoadsKept, Consistent
<1>5. Framing(of, card')
  BY <1>3 DEF PetDrawnInv, Framing, Fitted
<1>6. ~unseen' /\ card'.alive => Follows(of, card', snapshot', mapped')
  <2>1. CASE ~mapped'
    BY <1>2, <2>1 DEF Follows
  <2>2. CASE mapped'
    <3>1. mapped' = mapped
      BY <2>2
    <3>2. ~unseen => Follows(of, card, snapshot, mapped)
      BY DEF PetDrawnInv
    <3> QED BY <2>2, <3>1, <3>2, <1>2, <1>3 DEF Follows
  <2> QED BY <2>1, <2>2
<1> QED BY <1>2, <1>4, <1>5, <1>6, DrawnTo

-----------------------------------------------------------------------------
\* An answer: what it brings is kept, and shown if its state is.
LEMMA DrawnLoaded ==
    ASSUME NEW of, PetDrawnInv(of), Pictured(of), PetFramesLimits, Told(of),
           card.shown \in PetStates(of), Pet(of)!FramesLoaded
    PROVE  PetDrawnInv(of)'
<1>1. PICK state \in card.loading :
        LET loaded == Pet(of)!LoadFrames(Pet(of)!Untried(Pet(of)!AnimationOf(state).paths, card.failed))
            done   == [card EXCEPT !.loading = @ \ {state},
                                   !.failed = @ \cup loaded.failures,
                                   !.cache = Pet(of)!Kept(@, state, loaded.frames)]
        IN  /\ card.alive
            /\ card' = IF card.shown = state
                       THEN Pet(of)!ApplyFrames(done, loaded.frames, snapshot, mapped) ELSE done
  BY DEF Pet!FramesLoaded, Pet!Live
<1> DEFINE loaded == Pet(of)!LoadFrames(Pet(of)!Untried(Pet(of)!AnimationOf(state).paths, card.failed))
           frames == loaded.frames
           kept   == Pet(of)!Kept(card.cache, state, frames)
           done   == [card EXCEPT !.loading = @ \ {state},
                                  !.failed = @ \cup loaded.failures,
                                  !.cache = kept]
           given  == Pet(of)!ApplyFrames(done, frames, snapshot, mapped)
<1>2. card.alive /\ card' = IF card.shown = state THEN given ELSE done
  BY <1>1
<1>3. UNCHANGED <<mapped, snapshot, unseen>>
  BY DEF Pet!FramesLoaded
<1>4. /\ IsCard(card) /\ LoadsKept(of, card) /\ Consistent(card, mapped)
      /\ card.shown \in card.loading => card.frames = <<>>
  BY DEF PetDrawnInv, Drawing
<1>5. Pet(of)!HasAnimation(state) /\ state \in PetStates(of) /\ state \notin DOMAIN card.cache.held
  BY <1>4 DEF LoadsKept
<1>6. frames \in Seq(Pet(of)!Pictures)
  BY <1>5, AnimationFrames
<1>7. AnimationsFit(of) =>
        /\ Fitted(of, card) /\ frames = FramesOf(of, state)
        /\ Undecodable(PetLimits, PetPaths(of), card.failed \cup loaded.failures)
  BY <1>5, AnimationFits DEF PetDrawnInv, Framing, Fitted
<1> HIDE DEF frames
<1>8. /\ Framed(of, kept) /\ ~Pet(of)!OverLimits(kept)
      /\ DOMAIN kept.held \subseteq DOMAIN card.cache.held \cup {state}
      /\ \A k \in DOMAIN kept.held : kept.held[k] = IF k = state THEN frames ELSE card.cache.held[k]
  BY <1>4, <1>5, <1>6, KeptFramed DEF LoadsKept
<1> HIDE DEF kept, loaded
<1>9. /\ SameBut(card, done, {"loading", "failed", "cache"}) /\ done.loading = card.loading \ {state}
      /\ done.failed = card.failed \cup loaded.failures /\ done.cache = kept
  BY <1>4 DEF SameBut, PetFields, IsCard
<1> HIDE DEF done
<1>10. /\ IsCard(done) /\ done.shown = card.shown /\ done.frames = card.frames
       /\ done.alive = card.alive /\ done.animation = card.animation /\ done.policy = card.policy
  BY <1>9 DEF SameBut, PetFields
<1>11. LoadsKept(of, done)
  BY <1>4, <1>8, <1>9 DEF LoadsKept
<1>12. AnimationsFit(of) => Fitted(of, done)
  BY <1>7, <1>8, <1>9 DEF Fitted
<1>13. CASE card.shown # state
  <2>1. Drawing(of, done, mapped)
    BY <1>4, <1>9, <1>10, <1>11 DEF Drawing, Consistent
  <2>2. Framing(of, done)
    BY <1>9, <1>10, <1>12, <1>13 DEF PetDrawnInv, Framing
  <2>3. ~unseen => Follows(of, done, snapshot, mapped)
    BY <1>2, <1>10 DEF PetDrawnInv, Follows
  <2> QED BY <1>2, <1>3, <1>10, <1>13, <2>1, <2>2, <2>3, DrawnStep
<1>14. CASE card.shown = state
  <2>1. Len(<<>>) = 0
    OBVIOUS
  <2>2. done.animation = Nil
    BY <1>4, <1>10, <1>14, <2>1 DEF Consistent
  <2>3. /\ SameBut(done, given, {"frames", "animation", "policy"}) /\ given.frames = frames
        /\ Consistent(given, mapped) /\ Follows(of, given, snapshot, mapped)
    BY <1>10, <2>2, FramesFollowed
  <2> HIDE DEF given
  <2>4. /\ IsCard(given) /\ given.shown = state /\ given.cache = done.cache
        /\ given.loading = done.loading /\ given.failed = done.failed /\ given.alive
    BY <1>2, <1>10, <1>14, <2>3 DEF SameBut, PetFields
  <2>5. Drawing(of, given, mapped)
    BY <1>9, <1>11, <2>3, <2>4 DEF Drawing, LoadsKept
  <2>6. Framing(of, given)
    BY <1>7, <1>12, <2>3, <2>4 DEF Framing, Fitted
  <2> QED BY <1>2, <1>3, <1>14, <2>3, <2>4, <2>5, <2>6, DrawnStep
<1> QED BY <1>13, <1>14

-----------------------------------------------------------------------------
LEMMA PetDrawnNext ==
    ASSUME NEW of, PetDrawnInv(of), [Pet(of)!Next]_(Pet(of)!vars), Pictured(of), PetFramesLimits,
           Told(of), card.shown \in PetStates(of)
    PROVE  PetDrawnInv(of)'
<1>1. /\ IsCard(card) /\ LoadsKept(of, card) /\ Consistent(card, mapped)
      /\ card.shown \in card.loading => card.frames = <<>>
  BY DEF PetDrawnInv, Drawing
<1> DEFINE sizes == Timed \ {"failed", "alive"}
<1>2. SameBut(card, card, sizes)
  BY <1>1 DEF SameBut
<1>3. {"ready", "offline"} \subseteq PetStates(of)
  BY DEF PetStates, Pet!NamedStates
<1>4. CASE \/ UNCHANGED Pet(of)!vars
           \/ Pet(of)!Write \/ Pet(of)!LoadState \/ Pet(of)!Read \/ Pet(of)!RuntimeChanges
  BY <1>4, DrawnSame
     DEF Pet!vars, Pet!Write, Pet!LoadState, Pet!Read, Pet!RuntimeChanges
<1>5. CASE Pet(of)!Loaded
  <2>1. card.alive /\ UNCHANGED <<mapped, snapshot, unseen>>
    BY <1>5 DEF Pet!Loaded
  <2>2. CASE UNCHANGED card
    BY <2>1, <2>2, DrawnSame
  <2>3. CASE card' = Pet(of)!SetState(card, "offline", snapshot, mapped)
    <3> DEFINE d == Pet(of)!SetState(card, "offline", snapshot, mapped)
    <3>1. IsCard(d)
      BY <1>1, StateSizes DEF SameBut
    <3> HIDE DEF d
    <3>2. SameBut(d, card', sizes)
      BY <2>3, <3>1 DEF SameBut, d
    <3> QED BY <1>2, <1>3, <2>1, <3>2, DrawnState DEF d
  <2>4. CASE card' = Pet(of)!ApplyEvent(card, load.read.content)
    <3> DEFINE c == [card EXCEPT !.ready = FALSE]
               state == Pet(of)!NormalizeState(load.read.content)
               d == Pet(of)!SetState(c, state, snapshot, mapped)
               e == [d EXCEPT !.ready = (load.read.content = "done"), !.offline = TRUE]
    <3>1. SameBut(card, c, sizes)
      BY <1>1 DEF PetFields, SameBut, IsCard, Timed
    <3>2. IsCard(d)
      <4>1. IsCard(c)
        BY <3>1 DEF SameBut
      <4> HIDE DEF c, state
      <4> QED BY <4>1, StateSizes DEF SameBut
    <3>3. state \in PetStates(of)
      BY DEF PetStates, Pet!NormalizeState
    <3>4. card' = e
      BY <2>4 DEF Pet!ApplyEvent
    <3> HIDE DEF d
    <3>5. SameBut(d, e, sizes)
      BY <3>2 DEF PetFields, SameBut, IsCard, Timed
    <3> HIDE DEF c, state, e
    <3> QED BY <2>1, <3>1, <3>3, <3>4, <3>5, DrawnState DEF d
  <2> QED BY <1>5, <2>2, <2>3, <2>4 DEF Pet!Loaded
<1>6. CASE Pet(of)!BecomeReady
  <2> DEFINE d == Pet(of)!SetState(card, "ready", snapshot, mapped)
             e == [d EXCEPT !.ready = FALSE]
  <2>1. card.alive /\ card' = e /\ UNCHANGED <<mapped, snapshot, unseen>>
    BY <1>6 DEF Pet!BecomeReady, Pet!Live
  <2>2. IsCard(d)
    BY <1>1, StateSizes DEF SameBut
  <2> HIDE DEF d
  <2>3. SameBut(d, e, sizes)
    BY <2>2 DEF PetFields, SameBut, IsCard, Timed
  <2> HIDE DEF e
  <2> QED BY <1>2, <1>3, <2>1, <2>3, DrawnState DEF d
<1>7. CASE Pet(of)!GoOffline
  <2> DEFINE d == Pet(of)!SetState(card, "offline", snapshot, mapped)
             e == [d EXCEPT !.offline = FALSE]
  <2>1. card.alive /\ card' = e /\ UNCHANGED <<mapped, snapshot, unseen>>
    BY <1>7 DEF Pet!GoOffline, Pet!Live
  <2>2. IsCard(d)
    BY <1>1, StateSizes DEF SameBut
  <2> HIDE DEF d
  <2>3. SameBut(d, e, sizes)
    BY <2>2 DEF PetFields, SameBut, IsCard, Timed
  <2> HIDE DEF e
  <2> QED BY <1>2, <1>3, <2>1, <2>3, DrawnState DEF d
<1>8. CASE Pet(of)!ResetSize
  <2>1. UNCHANGED <<mapped, snapshot, unseen>>
    BY <1>8 DEF Pet!ResetSize
  <2>2. SameBut(card, card', sizes)
    BY <1>1, <1>8 DEF Pet!ResetSize, Pet!Live, Pet!Request, PetFields, SameBut, IsCard, Timed
  <2> QED BY <2>1, <2>2, DrawnTimed
<1>9. ASSUME NEW presentation, Pet(of)!Select(presentation)
      PROVE  PetDrawnInv(of)'
  <2>1. UNCHANGED <<mapped, snapshot, unseen>>
    BY <1>9 DEF Pet!Select
  <2>2. SameBut(card, card', sizes)
    BY <1>1, <1>9 DEF Pet!Select, Pet!Live, Pet!Request, PetFields, SameBut, IsCard, Timed
  <2> QED BY <2>1, <2>2, DrawnTimed
<1>10. CASE Pet(of)!Present
  <2>1. UNCHANGED <<mapped, snapshot, unseen>>
    BY <1>10 DEF Pet!Present
  <2>2. SameBut(card, card', sizes)
    BY <1>1, <1>10 DEF Pet!Present, PetFields, SameBut, IsCard, Timed
  <2> QED BY <2>1, <2>2, DrawnTimed
<1>11. CASE Pet(of)!FramesLoaded
  BY <1>11, DrawnLoaded
<1>12. CASE Pet(of)!AnimationEnds
  <2>1. /\ card.alive /\ card' = Pet(of)!StopAnimation(card)
        /\ UNCHANGED <<mapped, snapshot, unseen>>
        /\ ~Pet(of)!AnimationOf(card.animation.of).loop /\ card.animation # Nil
    BY <1>12 DEF Pet!AnimationEnds, Pet!Live
  <2>2. card.animation.of = card.shown
    BY <1>1, <2>1 DEF Consistent
  <2> QED BY <2>1, <2>2, DrawnStill
<1>13. CASE Pet(of)!Unmap
  <2>1. /\ card.alive /\ card' = Pet(of)!StopAnimation(card)
        /\ UNCHANGED <<snapshot, unseen>> /\ mapped' = FALSE
    BY <1>13 DEF Pet!Unmap, Pet!Live
  <2> QED BY <2>1, DrawnStill
<1>14. CASE Pet(of)!Map
  <2>1. /\ card.alive /\ card' = Pet(of)!ApplySnapshot(card, snapshot, TRUE)
        /\ snapshot' = snapshot /\ mapped' = TRUE /\ ~mapped
    BY <1>14 DEF Pet!Map, Pet!Live
  <2>2. Consistent(card, TRUE)
    BY <1>1, <2>1 DEF Consistent
  <2> QED BY <2>1, <2>2, DrawnLook
<1>15. CASE Pet(of)!DeliverSnapshot
  <2>1. /\ card.alive /\ card' = Pet(of)!ApplySnapshot(card, snapshot, mapped)
        /\ snapshot' = snapshot /\ mapped' = mapped
    BY <1>15 DEF Pet!DeliverSnapshot, Pet!Live
  <2> QED BY <1>1, <2>1, DrawnLook
<1>16. CASE Pet(of)!Destroy
  <2>1. /\ card' = [card EXCEPT !.loading = {}, !.animation = Nil, !.offline = FALSE,
                                !.ready = FALSE, !.reset = FALSE, !.frames = <<>>,
                                !.cache = Pet(of)!NoCache, !.alive = FALSE]
        /\ UNCHANGED <<mapped, snapshot>>
    BY <1>16 DEF Pet!Destroy, Pet!Live
  <2>2. /\ IsCard(card') /\ card'.loading = {} /\ card'.animation = Nil /\ card'.frames = <<>>
        /\ card'.cache = Pet(of)!NoCache /\ ~card'.alive /\ card'.failed = card.failed
    BY <1>1, <2>1 DEF IsCard, PetFields
  <2>3. LoadsKept(of, card')
    BY <2>2, NoneFramed DEF LoadsKept
  <2>4. Drawing(of, card', mapped')
    BY <2>2, <2>3 DEF Drawing, Consistent
  <2>5. Framing(of, card')
    BY <2>2, NoneFramed DEF PetDrawnInv, Framing, Fitted
  <2> QED BY <2>2, <2>4, <2>5, DrawnTo
<1> QED
  BY <1>4, <1>5, <1>6, <1>7, <1>8, <1>9, <1>10, <1>11, <1>12, <1>13, <1>14, <1>15, <1>16
     DEF Pet!Next, Pet!Choose

-----------------------------------------------------------------------------
\* What surrounds the card is what it may be.
PetTyped(of) ==
    /\ file.content \in of.contents /\ file.version \in 0 .. MaxWrites
    /\ edges \in 0 .. file.version
    /\ load.running \in BOOLEAN /\ load.overtaken \in BOOLEAN
    /\ applied \in of.presentations
    /\ snapshot \in of.looks /\ {mapped, unseen, agent} \subseteq BOOLEAN

LEMMA PetTypes ==
    ASSUME NEW of, PetSizeInv(of), PetTyped(of), MaxWrites \in Nat
    PROVE  Pet(of)!TypeOK
<1>1. edges \in 0 .. MaxWrites
  BY DEF PetTyped
<1> QED BY <1>1 DEF PetSizeInv, Sized, PetTyped, PetStates, Pet!TypeOK

LEMMA PetTypeInit ==
    ASSUME NEW of, Pet(of)!Init, "normal" \in of.presentations, MaxWrites \in Nat
    PROVE  PetTyped(of)
<1>1. /\ file.version = 0 /\ file.content \in of.contents /\ edges = 0
      /\ load = [Pet(of)!NotLoading EXCEPT !.running = TRUE]
      /\ applied = "normal" /\ snapshot \in of.looks
  BY DEF Pet!Init
<1>2. load.running \in BOOLEAN /\ load.overtaken \in BOOLEAN
  BY <1>1 DEF Pet!NotLoading
<1>3. mapped = FALSE /\ unseen = TRUE /\ agent = FALSE
  BY DEF Pet!Init
<1>4. {mapped, unseen, agent} \subseteq BOOLEAN
  BY <1>3, Zenon
<1> QED BY <1>1, <1>2, <1>4 DEF PetTyped

LEMMA PetTypeNext ==
    ASSUME NEW of, PetTyped(of), PetSizeInv(of), [Pet(of)!Next]_(Pet(of)!vars), MaxWrites \in Nat
    PROVE  PetTyped(of)'
<1>1. load = [f \in {"running", "overtaken", "read"} |-> load[f]]
  BY DEF PetSizeInv
<1>2. CASE UNCHANGED Pet(of)!vars
  BY <1>2 DEF Pet!vars, PetTyped
<1>3. CASE Pet(of)!Write
  <2>1. PICK content \in of.contents : file' = [version |-> file.version + 1, content |-> content]
    BY <1>3 DEF Pet!Write
  <2> QED BY <1>3, <2>1 DEF Pet!Write, PetTyped
<1>4. CASE Pet(of)!LoadState
  <2>1. /\ edges' = edges - 1 /\ edges > 0
        /\ load' = IF load.running THEN [load EXCEPT !.overtaken = TRUE]
                   ELSE [Pet(of)!NotLoading EXCEPT !.running = TRUE]
        /\ UNCHANGED <<file, mapped, snapshot, unseen, agent, applied>>
    BY <1>4 DEF Pet!LoadState
  <2>2. load'.running \in BOOLEAN /\ load'.overtaken \in BOOLEAN
    BY <1>1, <2>1 DEF PetTyped, Pet!NotLoading
  <2>3. edges' \in 0 .. file.version
    BY <2>1 DEF PetTyped
  <2> QED BY <2>1, <2>2, <2>3 DEF PetTyped
<1>5. CASE Pet(of)!Read
  BY <1>1, <1>5 DEF Pet!Read, PetTyped
<1>6. CASE Pet(of)!Loaded
  <2>1. /\ load' \in {Pet(of)!NotLoading, [Pet(of)!NotLoading EXCEPT !.running = TRUE]}
        /\ UNCHANGED <<file, edges, mapped, snapshot, unseen, applied>>
        /\ agent' \in {agent, FALSE} \cup Pet(of)!AgentAfter(load.read.content)
    BY <1>6 DEF Pet!Loaded
  <2>2. load'.running \in BOOLEAN /\ load'.overtaken \in BOOLEAN
    <3>1. CASE load' = Pet(of)!NotLoading
      BY <3>1 DEF Pet!NotLoading
    <3>2. CASE load' = [Pet(of)!NotLoading EXCEPT !.running = TRUE]
      BY <3>2 DEF Pet!NotLoading
    <3> QED BY <2>1, <3>1, <3>2
  <2> DEFINE event == load.read.content
  <2>3. {mapped, unseen, agent} \subseteq BOOLEAN
    BY DEF PetTyped
  <2> HIDE DEF event
  <2>4. Pet(of)!AgentAfter(event) \subseteq {agent, FALSE, TRUE}
    <3>1. CASE event \in Pet(of)!ActiveStates
      <4>1. (event \in Pet(of)!ActiveStates) = TRUE
        BY <3>1
      <4> QED BY <4>1 DEF Pet!AgentAfter
    <3>2. CASE event \notin Pet(of)!ActiveStates
      <4>1. (event \in Pet(of)!ActiveStates) = FALSE
        BY <3>2
      <4> QED BY <4>1 DEF Pet!AgentAfter
    <3> QED BY <3>1, <3>2
  <2>5. agent' \in {agent, FALSE, TRUE}
    BY <2>1, <2>4 DEF event
  <2>6. {mapped', unseen', agent'} \subseteq BOOLEAN
    BY <2>1, <2>3, <2>5, Zenon
  <2> QED BY <2>1, <2>2, <2>6 DEF PetTyped
<1>7. CASE Pet(of)!BecomeReady \/ Pet(of)!GoOffline \/ Pet(of)!ResetSize
  BY <1>7 DEF Pet!BecomeReady, Pet!GoOffline, Pet!ResetSize, PetTyped
<1>8. CASE \/ Pet(of)!FramesLoaded \/ Pet(of)!AnimationEnds \/ Pet(of)!Map \/ Pet(of)!Unmap
           \/ Pet(of)!DeliverSnapshot \/ Pet(of)!Choose
  BY <1>8 DEF Pet!FramesLoaded, Pet!AnimationEnds, Pet!Map, Pet!Unmap, Pet!DeliverSnapshot,
              Pet!Choose, Pet!Select, PetTyped
<1>9. CASE Pet(of)!RuntimeChanges
  BY <1>9 DEF Pet!RuntimeChanges, PetTyped
<1>10. CASE Pet(of)!Present
  BY <1>10 DEF Pet!Present, PetTyped, PetSizeInv, Sized
<1>11. CASE Pet(of)!Destroy
  <2>1. /\ edges' = 0 /\ unseen' = FALSE
        /\ UNCHANGED <<file, load, mapped, snapshot, agent, applied>>
    BY <1>11 DEF Pet!Destroy
  <2>2. {mapped, unseen, agent} \subseteq BOOLEAN
    BY DEF PetTyped
  <2>3. {mapped', unseen', agent'} \subseteq BOOLEAN
    BY <2>1, <2>2, Zenon
  <2> QED BY <2>1, <2>3 DEF PetTyped
<1> QED
  BY <1>2, <1>3, <1>4, <1>5, <1>6, <1>7, <1>8, <1>9, <1>10, <1>11 DEF Pet!Next

-----------------------------------------------------------------------------
(* Whichever of the services a behaviour is of                             *)

ForgeInv ==
    \A k \in DOMAIN Forges : machine = k => ForgeMetadataInv(Forges[k]) /\ ForgePreviewInv(Forges[k])

LEMMA ForgesLimited == \A k \in DOMAIN Forges : ForgeLimits(Forges[k])
BY MachinesAssumption DEF ForgeLimits

LEMMA InitForges == InitAll => ForgeInv
<1> SUFFICES ASSUME InitAll, NEW k \in DOMAIN Forges, machine = k
             PROVE  ForgeMetadataInv(Forges[k]) /\ ForgePreviewInv(Forges[k])
  BY DEF ForgeInv
<1>1. Forge(Forges[k])!Init
  BY DEF InitAll
<1> QED BY <1>1, ForgesLimited, ForgeInit, ForgePreviewInit

LEMMA NextForges == ForgeInv /\ [NextAll]_all => ForgeInv'
<1> SUFFICES ASSUME ForgeInv, [NextAll]_all, NEW k \in DOMAIN Forges, machine' = k
             PROVE  (ForgeMetadataInv(Forges[k]) /\ ForgePreviewInv(Forges[k]))'
  BY DEF ForgeInv
<1>1. machine = k /\ ForgeMetadataInv(Forges[k]) /\ ForgePreviewInv(Forges[k])
  BY DEF NextAll, all, ForgeInv
<1>2. [Forge(Forges[k])!Next]_(Forge(Forges[k])!vars)
  <2>1. CASE NextAll
    BY <1>1, <2>1, MachinesAssumption DEF NextAll, Others
  <2>2. CASE UNCHANGED all
    BY <2>2 DEF all, forge, Forge!vars
  <2> QED BY <2>1, <2>2
<1> QED BY <1>1, <1>2, ForgesLimited, ForgeNext, ForgePreviewNext, MachinesAssumption

\* Once a call is reported, no metadata is held that was read before it, although a fetch may
\* have been under way meanwhile (invalidate_metadata, metadata); a preview that is shown is
\* a picture of its own device and session, no older than the question (fetch_preview); and
\* the bytes counted are those held, within the limits, however concurrent answers replace,
\* evict and prune the entries (store_preview, prune_previews): for any devices, resources,
\* sizes of pictures, limits, calls and lost answers.
THEOREM ForgeAlwaysTruthful == SpecAll => []ForgeTruthful
<1>1. ForgeInv => ForgeTruthful
  <2> SUFFICES ASSUME ForgeInv, NEW k \in DOMAIN Forges, machine = k
               PROVE  /\ Forge(Forges[k])!TypeOK /\ Forge(Forges[k])!MetadataFresh
                      /\ Forge(Forges[k])!PreviewsTruthful /\ Forge(Forges[k])!PreviewsBounded
    BY DEF ForgeTruthful
  <2>1. ForgeMetadataInv(Forges[k]) /\ ForgePreviewInv(Forges[k])
    BY DEF ForgeInv
  <2> QED BY <2>1, ForgesLimited, ForgeFresh, ForgePreviewsFollow
<1> QED BY <1>1, InitForges, NextForges, PTL DEF SpecAll

PetInv ==
    \A k \in DOMAIN Pets : machine = k =>
        PetSizeInv(Pets[k]) /\ PetTyped(Pets[k]) /\ PetDrawnInv(Pets[k])

LEMMA PetsSound ==
    /\ PetFramesLimits /\ MaxWrites \in Nat
    /\ \A k \in DOMAIN Pets :
         /\ Pictured(Pets[k]) /\ Told(Pets[k])
         /\ "normal" \in Pets[k].presentations /\ Nil \notin Pets[k].presentations
<1>1. ASSUME NEW k \in DOMAIN Pets
      PROVE  Pictured(Pets[k]) /\ Told(Pets[k])
  BY PetsAssumption DEF Pictured, Told, PetStates
<1> QED BY <1>1, PetsAssumption DEF PetFramesLimits

LEMMA InitPets == InitAll => PetInv
<1> SUFFICES ASSUME InitAll, NEW k \in DOMAIN Pets, machine = k
             PROVE  PetSizeInv(Pets[k]) /\ PetTyped(Pets[k]) /\ PetDrawnInv(Pets[k])
  BY DEF PetInv
<1>1. Pet(Pets[k])!Init
  BY DEF InitAll
<1> QED BY <1>1, PetsSound, PetSizeInit, PetTypeInit, PetDrawnInit

LEMMA NextPets == PetInv /\ [NextAll]_all => PetInv'
<1> SUFFICES ASSUME PetInv, [NextAll]_all, NEW k \in DOMAIN Pets, machine' = k
             PROVE  (PetSizeInv(Pets[k]) /\ PetTyped(Pets[k]) /\ PetDrawnInv(Pets[k]))'
  BY DEF PetInv
<1>1. machine = k /\ PetSizeInv(Pets[k]) /\ PetTyped(Pets[k]) /\ PetDrawnInv(Pets[k])
  BY DEF NextAll, all, PetInv
<1>2. [Pet(Pets[k])!Next]_(Pet(Pets[k])!vars)
  <2>1. CASE NextAll
    BY <1>1, <2>1, MachinesAssumption DEF NextAll, Others
  <2>2. CASE UNCHANGED all
    BY <2>2 DEF all, pet, Pet!vars
  <2> QED BY <2>1, <2>2
<1>3. card.shown \in PetStates(Pets[k])
  BY <1>1 DEF PetSizeInv, Sized
<1> QED BY <1>1, <1>2, <1>3, PetsSound, PetSizeNext, PetTypeNext, PetDrawnNext

\* PetFollows without the frames that are shown.
PetMoves ==
    \A k \in DOMAIN Pets : machine = k =>
        /\ Pet(Pets[k])!TypeOK
        /\ Pet(Pets[k])!FileFollowed /\ Pet(Pets[k])!AgentForgotten
        /\ Pet(Pets[k])!PresentationFollows
        /\ Pet(Pets[k])!AnimationFollows /\ Pet(Pets[k])!CacheConsistent(card.cache)

LEMMA PetInvMoves == PetInv => PetMoves
<1> SUFFICES ASSUME PetInv, NEW k \in DOMAIN Pets, machine = k
             PROVE  /\ Pet(Pets[k])!TypeOK
                    /\ Pet(Pets[k])!FileFollowed /\ Pet(Pets[k])!AgentForgotten
                    /\ Pet(Pets[k])!PresentationFollows
                    /\ Pet(Pets[k])!AnimationFollows /\ Pet(Pets[k])!CacheConsistent(card.cache)
  BY DEF PetMoves
<1>1. PetSizeInv(Pets[k]) /\ PetTyped(Pets[k]) /\ PetDrawnInv(Pets[k])
  BY DEF PetInv
<1> QED BY <1>1, PetsSound, PetTypes, PetSizeFollows, PetDrawnFollows

\* However the events of the file overlap its reads (load_state), the timers of the states
\* end (schedule_ready, schedule_offline), the user chooses sizes (select_presentation) and
\* mapping, frames, states and policies follow each other (apply_runtime_snapshot), a pet
\* card takes in the newest content of its file, ends the belief in an agent, keeps the size
\* that was chosen, moves exactly the frames it should, and its cache counts the bytes it
\* holds, within its limits (cache_frames): for any contents, sizes, pictures and limits.
THEOREM PetAlwaysMoves == SpecAll => []PetMoves
BY InitPets, NextPets, PetInvMoves, PTL DEF SpecAll

\* ... and the frames it shows are those of the state it shows, or none while they load,
\* although an answer may be of a state that was left (load_frames_async), an animation may
\* have been evicted, and a file that failed once is not tried again: where the pictures of
\* each animation fit its limits and a file name is of one picture.
THEOREM PetAlwaysFollows ==
    ASSUME \A k \in DOMAIN Pets : AnimationsFit(Pets[k])
    PROVE  SpecAll => []PetFollows
<1>1. PetInv => PetFollows
  <2> SUFFICES ASSUME PetInv, NEW k \in DOMAIN Pets, machine = k
               PROVE  /\ Pet(Pets[k])!TypeOK
                      /\ Pet(Pets[k])!FileFollowed /\ Pet(Pets[k])!AgentForgotten
                      /\ Pet(Pets[k])!PresentationFollows
                      /\ Pet(Pets[k])!AnimationFollows /\ Pet(Pets[k])!FramesFollow
    BY DEF PetFollows
  <2>1. PetDrawnInv(Pets[k]) /\ AnimationsFit(Pets[k])
    BY DEF PetInv
  <2> QED BY <2>1, PetInvMoves, PetDrawnFollows DEF PetMoves
<1> QED BY <1>1, InitPets, NextPets, PTL DEF SpecAll

-----------------------------------------------------------------------------
(* The configuration on disk and in memory.                                *)

\* What the configuration of the store is made of.
Shelved ==
    [names |-> Library.names, pages |-> Library.pages, pageOf |-> Library.pageOf,
     defaults |-> Library.defaults, rejected |-> Library.rejected, settings |-> Library.settings,
     entries |-> Library.entries, absent |-> Absent, broken |-> Broken,
     noSection |-> NoSection, failed |-> Failed]

LEMMA ShelvedIs ==
    /\ Shelved.names = Library.names /\ Shelved.pages = Library.pages
    /\ Shelved.pageOf = Library.pageOf /\ Shelved.defaults = Library.defaults
    /\ Shelved.rejected = Library.rejected /\ Shelved.settings = Library.settings
    /\ Shelved.entries = Library.entries /\ Shelved.absent = Absent
    /\ Shelved.broken = Broken /\ Shelved.noSection = NoSection /\ Shelved.failed = Failed
BY DEF Shelved

\* The operators of the store are those of its documents.
LEMMA SameBook ==
    /\ \A s : Store!Ids(s) = Book(Shelved)!Ids(s)
    /\ \A s : Store!Range(s) = Book(Shelved)!Range(s)
    /\ \A s, id : Store!EntryOf(s, id) = Book(Shelved)!EntryOf(s, id)
    /\ \A s : Store!Distinct(s) = Book(Shelved)!Distinct(s)
    /\ \A k, s : Store!NewTo(k, s) = Book(Shelved)!NewTo(k, s)
    /\ Store!Modules = Book(Shelved)!Modules
    /\ Store!Root = Book(Shelved)!Root
    /\ Store!RootDocs = Book(Shelved)!RootDocs
    /\ Store!ModuleDocs = Book(Shelved)!ModuleDocs
<1>1. \A s : Store!Ids(s) = Book(Shelved)!Ids(s)
  BY DEF Store!Ids, Book!Ids, Store!Range, Book!Range
<1>2. \A s : Store!Range(s) = Book(Shelved)!Range(s)
  BY DEF Store!Range, Book!Range
<1>3. \A s, id : Store!EntryOf(s, id) = Book(Shelved)!EntryOf(s, id)
  BY DEF Store!Range, Book!Range, Store!EntryOf, Book!EntryOf
<1>4. \A s : Store!Distinct(s) = Book(Shelved)!Distinct(s)
  BY DEF Store!Distinct, Book!Distinct
<1>5. \A k, s : Store!NewTo(k, s) = Book(Shelved)!NewTo(k, s)
  BY DEF Store!NewTo, Book!NewTo, Store!Without, Book!Without, Store!Range, Book!Range
<1>6. Store!Modules = Book(Shelved)!Modules
  BY ShelvedIs DEF Store!Modules, Book!Modules, Store!Range, Book!Range
<1>7. Store!RootDocs = Book(Shelved)!RootDocs
  BY ShelvedIs DEF Store!RootDocs, Book!RootDocs
<1>8. Store!ModuleDocs = Book(Shelved)!ModuleDocs
  <2>1. Store!Parts = Book(Shelved)!Parts
    BY ShelvedIs DEF Store!Parts, Book!Parts, Store!Restrict, Book!Restrict
  <2> QED BY <2>1, ShelvedIs DEF Store!ModuleDocs, Book!ModuleDocs
<1> QED BY <1>1, <1>2, <1>3, <1>4, <1>5, <1>6, <1>7, <1>8 DEF Store!Root, Book!Root

LEMMA SameMerge ==
    /\ \A c : Store!Valid(c) = Book(Shelved)!Valid(c)
    /\ \A r, m : Store!Merge(r, m) = Book(Shelved)!Merge(r, m)
    /\ \A a, b : Store!SameValues(a, b) = Book(Shelved)!SameValues(a, b)
<1>1. \A c : Store!Valid(c) = Book(Shelved)!Valid(c)
  BY SameBook, ShelvedIs DEF Store!Valid, Book!Valid, Store!KnownPages, Book!KnownPages
<1>2. \A a, b : Store!MergedEntries(a, b) = Book(Shelved)!MergedEntries(a, b)
  BY SameBook DEF Store!MergedEntries, Book!MergedEntries
<1>3. \A s, o : Store!Overridden(s, o) = Book(Shelved)!Overridden(s, o)
  BY ShelvedIs DEF Store!Overridden, Book!Overridden
<1>4. \A c, m : Store!Acceptable(c, m) = Book(Shelved)!Acceptable(c, m)
  BY SameBook, ShelvedIs DEF Store!Acceptable, Book!Acceptable
<1>5. \A c, m : Store!Layered(c, m) = Book(Shelved)!Layered(c, m)
  BY <1>2, <1>3, <1>4, ShelvedIs DEF Store!Layered, Book!Layered
<1>6. ASSUME NEW r, NEW m
      PROVE  Store!Merge(r, m) = Book(Shelved)!Merge(r, m)
  <2> DEFINE N == Len(Library.names)
             IsStore(f) == f = [n \in 0 .. Len(Library.names) |->
                                  IF n > 0 THEN Store!Layered(f[n - 1], m[Library.names[n]])
                                  ELSE IF Store!Distinct(r.entries) THEN r ELSE Failed]
             IsBook(f)  == f = [n \in 0 .. Len(Shelved.names) |->
                                  IF n > 0 THEN Book(Shelved)!Layered(f[n - 1], m[Shelved.names[n]])
                                  ELSE IF Book(Shelved)!Distinct(r.entries) THEN r ELSE Shelved.failed]
  <2>1. \A f : IsStore(f) <=> IsBook(f)
    BY <1>5, SameBook, ShelvedIs
  <2>2. (CHOOSE f : IsStore(f)) = (CHOOSE f : IsBook(f))
    <3> HIDE DEF IsStore, IsBook
    <3> QED BY <2>1, Zenon
  <2> DEFINE f == CHOOSE f : IsStore(f)
             g == CHOOSE g : IsBook(g)
  <2>3. Store!Merge(r, m) = IF f[N] # Failed /\ Store!Valid(f[N]) THEN f[N] ELSE Failed
    BY DEF Store!Merge
  <2>4. Book(Shelved)!Merge(r, m) =
          IF g[Len(Shelved.names)] # Shelved.failed /\ Book(Shelved)!Valid(g[Len(Shelved.names)])
          THEN g[Len(Shelved.names)] ELSE Shelved.failed
    BY DEF Book!Merge
  <2>5. f = g
    BY <2>2
  <2> HIDE DEF f, g
  <2> QED BY <1>1, <2>3, <2>4, <2>5, ShelvedIs
<1>7. \A a, b : Store!SameValues(a, b) = Book(Shelved)!SameValues(a, b)
  BY SameBook DEF Store!SameValues, Book!SameValues
<1> QED BY <1>1, <1>6, <1>7

LEMMA SameSaved ==
    \A r, m, c : Store!Saved(r, m, c) = Book(Shelved)!Saved(r, m, c)
<1>1. \A h : Store!OwnerOf(h) = Book(Shelved)!OwnerOf(h)
  BY SameBook, ShelvedIs DEF Store!OwnerOf, Book!OwnerOf, Store!Max, Book!Max
<1>2. \A m, id : Store!EntryOwner(m, id) = Book(Shelved)!EntryOwner(m, id)
  BY <1>1, SameBook, ShelvedIs DEF Store!EntryOwner, Book!EntryOwner
<1>3. \A m : Store!SettingsOwner(m) = Book(Shelved)!SettingsOwner(m)
  BY <1>1, SameBook, ShelvedIs DEF Store!SettingsOwner, Book!SettingsOwner
<1>4. \A s, c, m, o : Store!Synced(s, c, m, o) = Book(Shelved)!Synced(s, c, m, o)
  BY <1>2, SameBook DEF Store!Synced, Book!Synced
<1>5. \A o, p, n : Store!Recorded(o, p, n) = Book(Shelved)!Recorded(o, p, n)
  BY DEF Store!Recorded, Book!Recorded
<1>6. \A m, n, p, c : Store!SavedModule(m, n, p, c) = Book(Shelved)!SavedModule(m, n, p, c)
  BY <1>3, <1>4, <1>5, ShelvedIs DEF Store!SavedModule, Book!SavedModule
<1>7. \A r, m, c : Store!SavedRoot(r, m, c) = Book(Shelved)!SavedRoot(r, m, c)
  BY <1>3, <1>4, SameBook, ShelvedIs DEF Store!SavedRoot, Book!SavedRoot
<1> QED BY <1>6, <1>7, SameBook, SameMerge DEF Store!Saved, Book!Saved

LEMMA ShelvedFits == Book(Shelved)!Wellformed
<1>0. Store!Wellformed
  BY LibraryAssumption
<1>1. Store!Parts = Book(Shelved)!Parts
  BY ShelvedIs DEF Store!Parts, Book!Parts, Store!Restrict, Book!Restrict
<1>2. Store!Tabular = Book(Shelved)!Tabular
  BY ShelvedIs DEF Store!Tabular, Book!Tabular
<1>3. Store!IsInjective(Library.names) = Book(Shelved)!IsInjective(Library.names)
  BY DEF Store!IsInjective, Book!IsInjective
<1> QED BY <1>0, <1>1, <1>2, <1>3, SameBook, ShelvedIs DEF Store!Wellformed, Book!Wellformed

LEMMA StoreNames ==
    /\ Shelved.absent = Absent /\ Shelved.failed = Failed
    /\ Failed \notin Store!RootDocs /\ Absent \notin Store!ModuleDocs
    /\ Nil \notin Store!RootDocs \cup {Absent, Broken}
    /\ Absent \notin Store!RootDocs /\ Broken \notin Store!RootDocs
    /\ Broken \notin Store!ModuleDocs /\ Absent # Broken
    /\ Store!Root = "root" /\ "root" \notin Store!Modules
<1>1. Store!Wellformed /\ {Absent, Broken, Nil} \cap (Store!RootDocs \cup Store!ModuleDocs) = {}
      /\ Nil \notin {Absent, Broken} /\ Absent # Broken
  BY LibraryAssumption
<1> QED BY <1>1, ShelvedIs DEF Store!Wellformed, Store!Root

\* The copy of the documents the program has, and the configuration in use: of the same
\* entries, and the same configuration where nothing is unsaved.
Fit(copy, clean) ==
    LET merged == Store!Merge(copy.root, copy.modules)
    IN  /\ copy = [root |-> copy.root, modules |-> copy.modules, config |-> copy.config]
        /\ copy.root \in Store!RootDocs
        /\ copy.modules \in [Store!Modules -> Store!ModuleDocs \cup {Absent}]
        /\ merged # Failed
        /\ copy.config \in Store!RootDocs
        /\ Store!Distinct(copy.config.entries) /\ Store!Valid(copy.config)
        /\ Store!Ids(copy.config.entries) = Store!Ids(merged.entries)
        /\ clean => Store!SameValues(copy.config, merged)

LEMMA DocumentsOf ==
    ASSUME NEW r \in Store!RootDocs, NEW m \in [Store!Modules -> Store!ModuleDocs \cup {Absent}]
    PROVE  Documented(Shelved, r, m)
BY SameBook, ShelvedIs DEF Documented

\* What is merged from documents.
LEMMA MergeFits ==
    ASSUME NEW r \in Store!RootDocs, NEW m \in [Store!Modules -> Store!ModuleDocs \cup {Absent}],
           Store!Merge(r, m) # Failed
    PROVE  /\ SoundUpTo(Shelved, r, m, Len(Shelved.names))
           /\ Store!Merge(r, m) \in Store!RootDocs
           /\ Store!Distinct(Store!Merge(r, m).entries) /\ Store!Valid(Store!Merge(r, m))
           /\ Store!Ids(Store!Merge(r, m).entries) = IdsUpTo(Shelved, r, m, Len(Shelved.names))
<1>1. Documented(Shelved, r, m) /\ Book(Shelved)!Merge(r, m) # Shelved.failed
  BY DocumentsOf, SameMerge, ShelvedIs
<1>2. /\ SoundUpTo(Shelved, r, m, Len(Shelved.names))
      /\ Book(Shelved)!Valid(Book(Shelved)!Merge(r, m))
      /\ Layer(Shelved, Book(Shelved)!Merge(r, m), r, m, Len(Shelved.names))
  BY <1>1, ShelvedFits, MergedLayer
<1> QED BY <1>2, SameBook, SameMerge DEF Layer

LEMMA CopyFits ==
    ASSUME NEW r \in Store!RootDocs, NEW m \in [Store!Modules -> Store!ModuleDocs \cup {Absent}],
           Store!Merge(r, m) # Failed
    PROVE  Fit(Store!Copy(r, m), TRUE)
<1> DEFINE c == Store!Copy(r, m)
<1>1. /\ c.root = r /\ c.modules = m /\ c.config = Store!Merge(r, m)
      /\ c = [root |-> c.root, modules |-> c.modules, config |-> c.config]
  BY DEF Store!Copy
<1> HIDE DEF c
<1>2. Fit(c, TRUE)
  BY <1>1, MergeFits DEF Fit, Store!SameValues
<1> QED BY <1>2 DEF c

\* A changed configuration with the ids it had, saved as a whole.
LEMMA SavedFits ==
    ASSUME NEW copy, NEW clean, Fit(copy, clean), NEW config \in Store!RootDocs,
           Store!Distinct(config.entries), Store!Valid(config),
           Store!Ids(config.entries) = Store!Ids(copy.config.entries)
    PROVE  LET next == Store!Saved(copy.root, copy.modules, config)
           IN  Fit([root |-> next.root, modules |-> next.modules, config |-> config], TRUE)
<1> DEFINE r == copy.root
           m == copy.modules
           next == Store!Saved(r, m, config)
           again == Store!Merge(next.root, next.modules)
<1>1. /\ r \in Store!RootDocs /\ m \in [Store!Modules -> Store!ModuleDocs \cup {Absent}]
      /\ Store!Merge(r, m) # Failed
      /\ Store!Ids(config.entries) = Store!Ids(Store!Merge(r, m).entries)
  BY DEF Fit
<1>2. /\ SoundUpTo(Shelved, r, m, Len(Shelved.names))
      /\ Store!Ids(config.entries) = IdsUpTo(Shelved, r, m, Len(Shelved.names))
  BY <1>1, MergeFits
<1>3. Documented(Shelved, r, m)
  BY <1>1, DocumentsOf
<1>4. MayBeSaved(Shelved, r, m, config)
  BY <1>1, <1>2, <1>3, SameBook, SameMerge, ShelvedIs DEF MayBeSaved
<1> HIDE DEF r, m
<1>5. Book(Shelved)!SaveReloads(r, m, config)
  BY <1>4, ShelvedFits, EverySaveReloads
<1>6. next = Book(Shelved)!Saved(r, m, config)
  BY SameSaved
<1>7. Documented(Shelved, next.root, next.modules)
  <2> HIDE DEF next
  <2> QED BY <1>4, <1>6, ShelvedFits, SavedSound
<1>8. next.root \in Store!RootDocs
  BY <1>7, SameBook DEF Documented
<1>9. next.modules \in [Store!Modules -> Store!ModuleDocs \cup {Absent}]
  <2>1. next.modules = [n \in Store!Modules |-> next.modules[n]]
    BY DEF Store!Saved
  <2> HIDE DEF next
  <2> QED BY <1>7, <2>1, SameBook, ShelvedIs DEF Documented
<1>10. again # Failed /\ Store!SameValues(again, config)
  <2> HIDE DEF next
  <2> QED BY <1>5, <1>6, SameMerge, ShelvedIs DEF Book!SaveReloads
<1>11. Store!Ids(config.entries) = Store!Ids(again.entries) /\ Store!SameValues(config, again)
  <2> HIDE DEF again
  <2> QED BY <1>10 DEF Store!SameValues, Store!Ids
<1> DEFINE new == [root |-> next.root, modules |-> next.modules, config |-> config]
<1>12. /\ new.root = next.root /\ new.modules = next.modules /\ new.config = config
       /\ new = [root |-> new.root, modules |-> new.modules, config |-> new.config]
  OBVIOUS
<1> HIDE DEF next
<1>13. Fit(new, TRUE)
  <2> HIDE DEF new
  <2> QED BY <1>8, <1>9, <1>10, <1>11, <1>12 DEF Fit
<1> QED BY <1>13 DEF next, r, m

\* The same when a write failed: the documents are as they were.
LEMMA UnsavedFits ==
    ASSUME NEW copy, NEW clean, Fit(copy, clean), NEW config \in Store!RootDocs,
           Store!Distinct(config.entries), Store!Valid(config),
           Store!Ids(config.entries) = Store!Ids(copy.config.entries),
           NEW new, new = [root |-> new.root, modules |-> new.modules, config |-> new.config],
           new.root = copy.root, new.modules = copy.modules, new.config = config
    PROVE  Fit(new, FALSE)
BY DEF Fit

StoreTyped ==
    /\ disk \in [Store!Paths -> Store!RootDocs \cup Store!ModuleDocs \cup {Absent, Broken}]
    /\ disk["root"] \in Store!RootDocs \cup {Absent, Broken}
    /\ \A p \in Store!Modules : disk[p] \in Store!ModuleDocs \cup {Absent, Broken}
    /\ half \in Store!RootDocs \cup {Absent, Broken, Nil}
    /\ running \in BOOLEAN /\ watching \in BOOLEAN /\ saved \in BOOLEAN
    /\ told \in BOOLEAN /\ recent \in BOOLEAN
    /\ timer \in {"no", "set", "due"}
    /\ spent \in [{"edits", "changes", "failures", "starts"} -> Nat]

\* The disk has what the program knows, or what it cannot load.
Followed ==
    LET onDisk == Store!Load(disk["root"], Store!OnDisk(disk))
    IN  onDisk = Failed \/ Store!SameValues(onDisk, Store!Merge(memory.root, memory.modules))

\* What the program does not know of the disk is on its way to it: an event, a timer, or a
\* reload that has the root the disk has.
StoreInv ==
    /\ StoreTyped
    /\ Fit(memory, saved)
    /\ running \/ (~watching /\ ~told /\ ~recent /\ timer = "no" /\ half = Nil)
    /\ (half # Nil /\ watching /\ ~told) => half = disk["root"]
    /\ (/\ running /\ watching /\ memory.config.settings.watch
        /\ ~told /\ timer = "no" /\ half = Nil) => Followed

-----------------------------------------------------------------------------
\* What is loaded from a disk.
LEMMA LoadIs ==
    ASSUME NEW r \in Store!RootDocs \cup {Absent, Broken}, NEW d,
           \A p \in Store!Modules : d[p] \in Store!ModuleDocs \cup {Absent, Broken}
    PROVE  Store!Load(r, Store!OnDisk(d)) # Failed =>
             /\ r \in Store!RootDocs
             /\ Store!OnDisk(d) \in [Store!Modules -> Store!ModuleDocs \cup {Absent}]
             /\ Store!Load(r, Store!OnDisk(d)) = Store!Merge(r, Store!OnDisk(d))
BY DEF Store!Load, Store!OnDisk

\* Documents of the kinds a save writes are loaded as they are merged.
LEMMA LoadOf ==
    ASSUME NEW r \in Store!RootDocs, NEW m \in [Store!Modules -> Store!ModuleDocs \cup {Absent}]
    PROVE  Store!Load(r, m) = Store!Merge(r, m)
BY StoreNames DEF Store!Load

LEMMA EnsureModuleFits ==
    ASSUME NEW r \in Store!RootDocs, NEW m \in [Store!Modules -> Store!ModuleDocs \cup {Absent}],
           Store!Merge(r, m) # Failed, NEW name \in Store!Modules
    PROVE  \E w \in [Store!Modules -> Store!ModuleDocs \cup {Absent}] :
             /\ Store!EnsureModule(Store!Copy(r, m), name) = Store!Copy(r, w)
             /\ Store!Merge(r, w) # Failed
<1> DEFINE copy == Store!Copy(r, m)
           new  == Library.generated[name]
           w    == Store!Ensured(copy.modules, name, <<new>>)
           d    == m[name]
<1>1. copy.root = r /\ copy.modules = m /\ copy.config = Store!Merge(r, m)
  BY DEF Store!Copy
<1>2. \/ Store!EnsureModule(copy, name) = copy
      \/ /\ Store!Merge(copy.root, w) # Failed
         /\ Store!EnsureModule(copy, name) = Store!Copy(copy.root, w)
  BY DEF Store!EnsureModule
<1>3. new \in Library.entries /\ <<new>> \in Seq(Library.entries)
  <2>1. new \in Library.entries
    BY LibraryAssumption
  <2> DEFINE E == Library.entries
  <2> HIDE DEF new, E
  <2>2. new \in E => <<new>> \in Seq(E)
    OBVIOUS
  <2> QED BY <2>1, <2>2 DEF E
<1> HIDE DEF copy
<1>4. w \in [Store!Modules -> Store!ModuleDocs \cup {Absent}]
  <2> DEFINE e == IF d = Absent
                  THEN [settings |-> NoSection, entries |-> <<new>>, replaces |-> FALSE]
                  ELSE [d EXCEPT !.entries = d.entries \o <<new>>]
  <2>1. w = [m EXCEPT ![name] = e]
    BY <1>1 DEF Store!Ensured
  <2>2. e \in Store!ModuleDocs
    <3>1. CASE d = Absent
      <4> HIDE DEF new
      <4> QED BY <1>3, <3>1 DEF Store!ModuleDocs
    <3>2. CASE d # Absent
      <4>1. d \in Store!ModuleDocs
        BY <3>2
      <4> HIDE DEF new, d
      <4>2. d = [settings |-> d.settings, entries |-> d.entries, replaces |-> d.replaces]
            /\ d.settings \in Store!Parts \cup {NoSection} /\ d.entries \in Seq(Library.entries)
            /\ d.replaces \in BOOLEAN
        BY <4>1 DEF Store!ModuleDocs
      <4>3. d.entries \o <<new>> \in Seq(Library.entries)
        BY <1>3, <4>2
      <4>4. e = [settings |-> d.settings, entries |-> d.entries \o <<new>>, replaces |-> d.replaces]
        BY <3>2, <4>2
      <4> HIDE DEF e
      <4> QED BY <4>2, <4>3, <4>4 DEF Store!ModuleDocs
    <3> QED BY <3>1, <3>2
  <2> HIDE DEF e, w
  <2> QED BY <2>1, <2>2
<1> HIDE DEF w
<1>5. Store!EnsureModule(copy, name) = copy \/ Store!EnsureModule(copy, name) = Store!Copy(r, w)
  BY <1>1, <1>2
<1> QED BY <1>1, <1>2, <1>4, <1>5 DEF copy

\* What build_app has after it offered each of the first N generated modules.
Ensurings(f, copy, N) ==
    f = [n \in 0 .. N |-> IF n = 0 THEN copy ELSE Store!EnsureModule(f[n - 1], Library.names[n])]

LEMMA EnsuringsExist ==
    ASSUME NEW copy, NEW N \in Nat
    PROVE  \E f : Ensurings(f, copy, N)
<1> DEFINE good == {n \in 0 .. N : \E f : Ensurings(f, copy, n)}
<1>1. 0 \in good
  <2> DEFINE f == [m \in 0 .. 0 |-> copy]
  <2>1. Ensurings(f, copy, 0)
    <3>1. \A m \in 0 .. 0 : m = 0
      OBVIOUS
    <3> QED BY <3>1 DEF Ensurings
  <2> QED BY <2>1
<1>2. ASSUME NEW n \in 1 .. N, n - 1 \in good
      PROVE  n \in good
  <2>1. n \in Nat /\ n > 0 /\ n \in 0 .. N
    OBVIOUS
  <2>2. PICK k : Ensurings(k, copy, n - 1)
    BY <1>2
  <2> DEFINE last == Store!EnsureModule(k[n - 1], Library.names[n])
             g == [m \in 0 .. n |-> IF m = n THEN last ELSE k[m]]
  <2>3. \A m \in 0 .. n - 1 :
          k[m] = IF m = 0 THEN copy ELSE Store!EnsureModule(k[m - 1], Library.names[m])
    BY <2>2 DEF Ensurings
  <2>4. \A m \in 0 .. n - 1 : g[m] = k[m]
    BY <2>1
  <2>5. g[n] = last
    BY <2>1
  <2>6. g = [m \in 0 .. n |-> g[m]]
    OBVIOUS
  <2> HIDE DEF g
  <2>7. ASSUME NEW m \in 0 .. n
        PROVE  g[m] = IF m = 0 THEN copy ELSE Store!EnsureModule(g[m - 1], Library.names[m])
    <3>1. CASE m = n
      <4>1. g[n - 1] = k[n - 1] /\ n # 0
        BY <2>1, <2>4
      <4> QED BY <2>5, <3>1, <4>1
    <3>2. CASE m # n
      <4>1. m \in 0 .. n - 1 /\ (m # 0 => m - 1 \in 0 .. n - 1)
        BY <2>1, <3>2
      <4> QED BY <2>3, <2>4, <4>1
    <3> QED BY <3>1, <3>2
  <2>8. Ensurings(g, copy, n)
    BY <2>6, <2>7 DEF Ensurings
  <2> QED BY <2>1, <2>8
<1> HIDE DEF good
<1>3. N \in good
  BY <1>1, <1>2, UpTo
<1> QED BY <1>3 DEF good

\* The generated modules that are added leave documents that merge.
LEMMA AllEnsuredFits ==
    ASSUME NEW r \in Store!RootDocs, NEW m \in [Store!Modules -> Store!ModuleDocs \cup {Absent}],
           Store!Merge(r, m) # Failed
    PROVE  \E w \in [Store!Modules -> Store!ModuleDocs \cup {Absent}] :
             /\ Store!AllEnsured(Store!Copy(r, m)) = Store!Copy(r, w)
             /\ Store!Merge(r, w) # Failed
<1> DEFINE N == Len(Library.names)
           copy == Store!Copy(r, m)
           f == CHOOSE g : Ensurings(g, copy, N)
           good == {n \in 0 .. N : \E w \in [Store!Modules -> Store!ModuleDocs \cup {Absent}] :
                      f[n] = Store!Copy(r, w) /\ Store!Merge(r, w) # Failed}
<1>1. N \in Nat /\ \A n \in 1 .. N : Library.names[n] \in Store!Modules
  BY ShelvedFits, ShelvedIs, SameBook, NamesAre
<1>2. Store!AllEnsured(copy) = f[N]
  BY DEF Store!AllEnsured, Ensurings
<1>3. Ensurings(f, copy, N)
  BY <1>1, EnsuringsExist
<1> HIDE DEF f, copy, N
<1>4. f[0] = copy /\ \A n \in 1 .. N : f[n] = Store!EnsureModule(f[n - 1], Library.names[n])
  BY <1>1, <1>3 DEF Ensurings
<1>5. 0 \in good
  BY <1>1, <1>4 DEF copy
<1>6. ASSUME NEW n \in 1 .. N, n - 1 \in good
      PROVE  n \in good
  <2>1. PICK w \in [Store!Modules -> Store!ModuleDocs \cup {Absent}] :
           f[n - 1] = Store!Copy(r, w) /\ Store!Merge(r, w) # Failed
    BY <1>6
  <2>2. PICK x \in [Store!Modules -> Store!ModuleDocs \cup {Absent}] :
           /\ Store!EnsureModule(Store!Copy(r, w), Library.names[n]) = Store!Copy(r, x)
           /\ Store!Merge(r, x) # Failed
    BY <1>1, <2>1, EnsureModuleFits
  <2>3. f[n] = Store!Copy(r, x)
    BY <1>4, <2>1, <2>2
  <2> QED BY <1>1, <2>2, <2>3
<1> HIDE DEF good
<1>7. N \in good
  BY <1>1, <1>5, <1>6, UpTo
<1> QED BY <1>2, <1>7 DEF good, copy

-----------------------------------------------------------------------------
\* The steps of the store.

LEMMA StorePaths ==
    /\ Store!Paths = {"root"} \cup Store!Modules
    /\ \A d \in [Store!Paths -> Store!RootDocs \cup Store!ModuleDocs \cup {Absent, Broken}] :
         d = [p \in Store!Paths |-> d[p]]
BY StoreNames DEF Store!Paths

LEMMA NothingFits == Fit(Store!Nothing, TRUE)
<1> DEFINE none == [name \in Store!Modules |-> Absent]
<1>1. none \in [Store!Modules -> Store!ModuleDocs \cup {Absent}]
  OBVIOUS
<1>2. Library.empty \in Store!RootDocs /\ Store!Nothing.config # Failed
  BY LibraryAssumption
<1>3. Store!Nothing = Store!Copy(Library.empty, none)
  BY DEF Store!Nothing
<1> HIDE DEF none
<1>4. Store!Merge(Library.empty, none) # Failed
  BY <1>2, <1>3 DEF Store!Copy
<1> QED BY <1>1, <1>2, <1>3, <1>4, CopyFits

\* What an editor leaves, and what the disk holds at first.
LEMMA EditsAre ==
    /\ Library.edits["root"] \subseteq Store!RootDocs \cup {Absent, Broken}
    /\ \A p \in Store!Modules : Library.edits[p] \subseteq Store!ModuleDocs \cup {Absent, Broken}
    /\ \A d \in Library.start :
         /\ d = [p \in Store!Paths |-> d[p]] /\ d["root"] \in Store!RootDocs \cup {Absent, Broken}
         /\ \A p \in Store!Modules : d[p] \in Store!ModuleDocs \cup {Absent, Broken}
<1>1. \A p \in Store!Paths :
         {d[p] : d \in Library.start} \cup Library.edits[p]
           \subseteq (IF p = Store!Root THEN Store!RootDocs ELSE Store!ModuleDocs) \cup {Absent, Broken}
  BY LibraryAssumption
<1>2. \A d \in Library.start : d = [p \in Store!Paths |-> d[p]]
  BY LibraryAssumption
<1>3. Store!Root = "root" /\ "root" \notin Store!Modules /\ Store!Paths = {"root"} \cup Store!Modules
  BY StoreNames, StorePaths
<1>4. \A p \in Store!Paths :
         /\ Library.edits[p] \subseteq (IF p = "root" THEN Store!RootDocs ELSE Store!ModuleDocs) \cup {Absent, Broken}
         /\ \A d \in Library.start :
              d[p] \in (IF p = "root" THEN Store!RootDocs ELSE Store!ModuleDocs) \cup {Absent, Broken}
  BY <1>1, <1>3
<1> QED BY <1>2, <1>3, <1>4

LEMMA TablesAre ==
    /\ Library.shipped \in Store!RootDocs
    /\ \A s \in Library.settings : s.watch \in BOOLEAN
    /\ \A s \in Library.settings, level \in Library.levels :
         /\ {"level", "watch"} \subseteq DOMAIN s /\ [s EXCEPT !.level = level] \in Library.settings
         /\ s \notin Library.rejected => [s EXCEPT !.level = level] \notin Library.rejected
    /\ \A e \in Library.entries :
         {"id", "enabled"} \subseteq DOMAIN e /\ [e EXCEPT !.enabled = ~@] \in Library.entries
BY LibraryAssumption

LEMMA InitStore == Store!Init => StoreInv
<1> SUFFICES ASSUME Store!Init
             PROVE  StoreInv
  OBVIOUS
<1>1. /\ disk \in Library.start /\ memory = Store!Nothing
      /\ running = FALSE /\ watching = FALSE /\ saved = TRUE
      /\ told = FALSE /\ recent = FALSE /\ timer = "no" /\ half = Nil
      /\ spent = [edits |-> 0, changes |-> 0, failures |-> 0, starts |-> 0]
  BY DEF Store!Init
<1>2. disk = [p \in Store!Paths |-> disk[p]]
  BY <1>1, EditsAre
<1>3. StoreTyped
  <2>1. spent \in [{"edits", "changes", "failures", "starts"} -> Nat]
    BY <1>1
  <2> QED BY <1>1, <1>2, <2>1, EditsAre, StorePaths DEF StoreTyped
<1>4. Fit(memory, saved)
  BY <1>1, NothingFits
<1> QED BY <1>1, <1>3, <1>4 DEF StoreInv

LEMMA QuitStore == StoreInv /\ Store!Quit => StoreInv'
<1> SUFFICES ASSUME StoreInv, Store!Quit
             PROVE  StoreInv'
  OBVIOUS
<1>1. /\ running' = FALSE /\ memory' = Store!Nothing /\ watching' = FALSE /\ told' = FALSE
      /\ recent' = FALSE /\ timer' = "no" /\ half' = Nil /\ saved' = TRUE
      /\ disk' = disk /\ spent' = spent
  BY DEF Store!Quit
<1>2. StoreTyped'
  BY <1>1 DEF StoreInv, StoreTyped
<1>3. Fit(memory', saved')
  BY <1>1, NothingFits
<1>4. Fit(memory, saved)'
  BY <1>3 DEF Fit
<1> QED BY <1>1, <1>2, <1>4 DEF StoreInv

LEMMA EditStore == ASSUME NEW p \in Store!Paths
                   PROVE  StoreInv /\ Store!Edit(p) => StoreInv'
<1> SUFFICES ASSUME StoreInv, Store!Edit(p)
             PROVE  StoreInv'
  OBVIOUS
<1>1. PICK document \in Library.edits[p] : disk' = [disk EXCEPT ![p] = document]
  BY DEF Store!Edit
<1>2. /\ told' = watching
      /\ spent' = [spent EXCEPT !["edits"] = @ + 1]
      /\ memory' = memory /\ running' = running /\ watching' = watching /\ saved' = saved
      /\ recent' = recent /\ timer' = timer /\ half' = half
  BY DEF Store!Edit, Store!Spend
<1>3. StoreTyped'
  <2>1. spent' \in [{"edits", "changes", "failures", "starts"} -> Nat]
    BY <1>2 DEF StoreInv, StoreTyped
  <2>2. p = "root" \/ p \in Store!Modules
    BY StorePaths
  <2>3. document \in (IF p = "root" THEN Store!RootDocs ELSE Store!ModuleDocs) \cup {Absent, Broken}
    BY <1>1, <2>2, EditsAre, StoreNames
  <2>4. /\ disk' \in [Store!Paths -> Store!RootDocs \cup Store!ModuleDocs \cup {Absent, Broken}]
        /\ disk'["root"] \in Store!RootDocs \cup {Absent, Broken}
        /\ \A q \in Store!Modules : disk'[q] \in Store!ModuleDocs \cup {Absent, Broken}
    BY <1>1, <2>2, <2>3, StorePaths, StoreNames DEF StoreInv, StoreTyped
  <2> QED BY <1>2, <2>1, <2>4 DEF StoreInv, StoreTyped
<1>4. Fit(memory, saved)'
  BY <1>2 DEF StoreInv, Fit
<1> QED BY <1>2, <1>3, <1>4 DEF StoreInv

\* Whether a configuration is watched is one of two.
LEMMA WatchIs ==
    ASSUME NEW copy, NEW clean, Fit(copy, clean)
    PROVE  copy.config.settings.watch \in BOOLEAN
BY TablesAre DEF Fit, Store!RootDocs

LEMMA BeginStore == StoreInv /\ Store!Begin => StoreInv'
<1> SUFFICES ASSUME StoreInv, Store!Begin
             PROVE  StoreInv'
  OBVIOUS
<1> DEFINE r    == IF disk["root"] = Absent THEN Library.shipped ELSE disk["root"]
           was  == Store!OnDisk(disk)
           good == Store!Load(r, was) # Failed
           copy == IF good THEN Store!AllEnsured(Store!Copy(r, was)) ELSE Store!Nothing
<1>1. /\ running' = TRUE /\ memory' = copy /\ saved' = TRUE
      /\ watching' = copy.config.settings.watch
      /\ disk' = [p \in Store!Paths |-> IF p = "root" THEN r
                                        ELSE IF good THEN copy.modules[p] ELSE disk[p]]
      /\ spent' = [spent EXCEPT !["starts"] = @ + 1]
      /\ told' = told /\ recent' = recent /\ timer' = timer /\ half' = half /\ ~running
  BY StoreNames DEF Store!Begin, Store!Spend
<1>2. StoreTyped /\ ~told /\ ~recent /\ timer = "no" /\ half = Nil
  BY <1>1 DEF StoreInv
<1>3. r \in Store!RootDocs \cup {Absent, Broken} /\ r \in Store!RootDocs \cup {Broken}
  BY <1>2, TablesAre DEF StoreTyped
<1>4. \A p \in Store!Modules : disk[p] \in Store!ModuleDocs \cup {Absent, Broken}
  BY <1>2 DEF StoreTyped
<1> HIDE DEF r
<1>5. was = [p \in Store!Modules |-> disk[p]]
  BY DEF Store!OnDisk
<1>6. good => /\ r \in Store!RootDocs /\ Store!Merge(r, was) # Failed
              /\ was \in [Store!Modules -> Store!ModuleDocs \cup {Absent}]
  BY <1>3, <1>4, LoadIs
<1>7. CASE good
  <2>1. PICK w \in [Store!Modules -> Store!ModuleDocs \cup {Absent}] :
           /\ Store!AllEnsured(Store!Copy(r, was)) = Store!Copy(r, w)
           /\ Store!Merge(r, w) # Failed
    BY <1>6, <1>7, AllEnsuredFits
  <2>2. copy = Store!Copy(r, w)
    BY <1>7, <2>1
  <2>3. copy.root = r /\ copy.modules = w /\ copy.config = Store!Merge(r, w)
    BY <2>2 DEF Store!Copy
  <2>4. Fit(copy, TRUE)
    BY <1>6, <1>7, <2>1, <2>2, CopyFits
  <2>5. disk' = [p \in Store!Paths |-> IF p = "root" THEN r ELSE w[p]]
    BY <1>1, <1>7, <2>3
  <2> HIDE DEF good, copy, was
  <2>6. disk'["root"] = r /\ Store!OnDisk(disk') = w
    BY <2>5, StorePaths, StoreNames DEF Store!OnDisk
  <2>7. Store!Load(r, w) = Store!Merge(r, w)
    BY <1>6, <1>7, LoadOf
  <2>8. Followed'
    BY <1>1, <2>3, <2>6, <2>7 DEF Followed, Store!SameValues
  <2>9. copy.config.settings.watch \in BOOLEAN
    BY <2>4, WatchIs
  <2>10. StoreTyped'
    <3>1. disk' \in [Store!Paths -> Store!RootDocs \cup Store!ModuleDocs \cup {Absent, Broken}]
      BY <1>6, <1>7, <2>5, StorePaths
    <3>2. spent' \in [{"edits", "changes", "failures", "starts"} -> Nat]
      BY <1>1, <1>2 DEF StoreTyped
    <3>3. \A p \in Store!Modules : disk'[p] \in Store!ModuleDocs \cup {Absent, Broken}
      BY <2>5, StorePaths, StoreNames
    <3> QED BY <1>1, <1>2, <1>6, <1>7, <2>6, <2>9, <3>1, <3>2, <3>3 DEF StoreTyped
  <2>11. Fit(memory, saved)'
    BY <1>1, <2>4 DEF Fit
  <2> QED BY <1>1, <1>2, <2>8, <2>10, <2>11 DEF StoreInv
<1>8. CASE ~good
  <2>1. copy = Store!Nothing
    BY <1>8
  <2>2. Fit(copy, TRUE)
    BY <2>1, NothingFits
  <2>3. disk' = [p \in Store!Paths |-> IF p = "root" THEN r ELSE disk[p]]
    BY <1>1, <1>8
  <2>4. Store!Load(r, was) = Failed
    BY <1>8
  <2> HIDE DEF good, copy
  <2>5. disk'["root"] = r /\ Store!OnDisk(disk') = was
    BY <1>5, <2>3, StorePaths, StoreNames DEF Store!OnDisk
  <2> HIDE DEF was
  <2>6. Followed'
    BY <2>4, <2>5 DEF Followed
  <2>7. copy.config.settings.watch \in BOOLEAN
    BY <2>2, WatchIs
  <2>8. StoreTyped'
    <3>1. disk' \in [Store!Paths -> Store!RootDocs \cup Store!ModuleDocs \cup {Absent, Broken}]
      BY <1>2, <1>3, <2>3, StorePaths DEF StoreTyped
    <3>2. spent' \in [{"edits", "changes", "failures", "starts"} -> Nat]
      BY <1>1, <1>2 DEF StoreTyped
    <3>3. \A p \in Store!Modules : disk'[p] \in Store!ModuleDocs \cup {Absent, Broken}
      BY <1>4, <2>3, StorePaths, StoreNames
    <3> QED BY <1>1, <1>2, <1>3, <2>5, <2>7, <3>1, <3>2, <3>3 DEF StoreTyped
  <2>9. Fit(memory, saved)'
    BY <1>1, <2>2 DEF Fit
  <2> QED BY <1>1, <1>2, <2>6, <2>8, <2>9 DEF StoreInv
<1> QED BY <1>7, <1>8

LEMMA FileEventStore == StoreInv /\ Store!FileEvent => StoreInv'
<1> SUFFICES ASSUME StoreInv, Store!FileEvent
             PROVE  StoreInv'
  OBVIOUS
<1>1. /\ running /\ told /\ half = Nil /\ told' \in BOOLEAN
      /\ disk' = disk /\ memory' = memory /\ running' = running /\ watching' = watching
      /\ saved' = saved /\ spent' = spent
  BY DEF Store!FileEvent
<1>2. \/ ~memory.config.settings.watch /\ recent' = recent /\ timer' = timer /\ half' = half
      \/ timer' = (IF timer = "no" THEN "set" ELSE timer) /\ recent' = recent /\ half' = half
      \/ recent' = TRUE /\ half' = disk["root"] /\ timer' = timer
  BY StoreNames DEF Store!FileEvent
<1>3. StoreTyped /\ disk["root"] # Nil /\ Fit(memory, saved)
  BY StoreNames DEF StoreInv, StoreTyped
<1>4. StoreTyped'
  <2>1. half' \in Store!RootDocs \cup {Absent, Broken, Nil} /\ recent' \in BOOLEAN
        /\ timer' \in {"no", "set", "due"}
    BY <1>1, <1>2, <1>3 DEF StoreTyped
  <2> QED BY <1>1, <1>3, <2>1 DEF StoreTyped
<1>5. Fit(memory, saved)'
  BY <1>1, <1>3 DEF Fit
<1>6. timer \in {"no", "set", "due"}
  BY <1>3 DEF StoreTyped
<1> QED BY <1>1, <1>2, <1>3, <1>4, <1>5, <1>6 DEF StoreInv

LEMMA WindowStore == StoreInv /\ Store!WindowPasses => StoreInv'
<1> SUFFICES ASSUME StoreInv, Store!WindowPasses
             PROVE  StoreInv'
  OBVIOUS
<1>1. /\ recent' = FALSE /\ timer' = (IF timer = "set" THEN "due" ELSE timer)
      /\ disk' = disk /\ memory' = memory /\ running' = running /\ watching' = watching
      /\ saved' = saved /\ told' = told /\ half' = half /\ spent' = spent
      /\ (recent \/ timer = "set")
  BY DEF Store!WindowPasses
<1>2. StoreTyped' /\ Fit(memory, saved)'
  BY <1>1 DEF StoreInv, StoreTyped, Fit
<1>3. running
  BY <1>1 DEF StoreInv
<1>4. Followed' = Followed
  BY <1>1 DEF Followed
<1>5. timer' = "no" => timer = "no"
  BY <1>1
<1> QED BY <1>1, <1>2, <1>3, <1>4, <1>5 DEF StoreInv

LEMMA TimerStore == StoreInv /\ Store!TimerFires => StoreInv'
<1> SUFFICES ASSUME StoreInv, Store!TimerFires
             PROVE  StoreInv'
  OBVIOUS
<1>1. /\ timer = "due" /\ half = Nil /\ timer' = "no" /\ half' = disk["root"]
      /\ disk' = disk /\ memory' = memory /\ running' = running /\ watching' = watching
      /\ saved' = saved /\ told' = told /\ recent' = recent /\ spent' = spent
  BY StoreNames DEF Store!TimerFires
<1>2. disk["root"] # Nil /\ running
  BY <1>1, StoreNames DEF StoreInv, StoreTyped
<1>3. StoreTyped' /\ Fit(memory, saved)'
  BY <1>1 DEF StoreInv, StoreTyped, Fit
<1> QED BY <1>1, <1>2, <1>3 DEF StoreInv

LEMMA ReloadStore == StoreInv /\ Store!Reload => StoreInv'
<1> SUFFICES ASSUME StoreInv, Store!Reload
             PROVE  StoreInv'
  OBVIOUS
<1> DEFINE was  == Store!OnDisk(disk)
           good == Store!Load(half, was) # Failed
<1>1. /\ half # Nil /\ half' = Nil
      /\ memory' = IF good THEN Store!Copy(half, was) ELSE memory
      /\ saved' = (saved \/ good)
      /\ disk' = disk /\ running' = running /\ watching' = watching /\ told' = told
      /\ recent' = recent /\ timer' = timer /\ spent' = spent
  BY DEF Store!Reload
<1>2. StoreTyped /\ Fit(memory, saved) /\ running /\ (watching /\ ~told => half = disk["root"])
  BY <1>1 DEF StoreInv
<1>3. half \in Store!RootDocs \cup {Absent, Broken}
      /\ \A p \in Store!Modules : disk[p] \in Store!ModuleDocs \cup {Absent, Broken}
  BY <1>1, <1>2 DEF StoreTyped
<1>4. StoreTyped'
  BY <1>1, <1>2 DEF StoreTyped
<1>5. CASE good
  <2>1. /\ half \in Store!RootDocs /\ Store!Merge(half, was) # Failed
        /\ was \in [Store!Modules -> Store!ModuleDocs \cup {Absent}]
        /\ Store!Load(half, was) = Store!Merge(half, was)
    BY <1>3, <1>5, LoadIs
  <2>2. Fit(Store!Copy(half, was), TRUE)
    BY <2>1, CopyFits
  <2>3. memory' = Store!Copy(half, was) /\ saved' = TRUE
    BY <1>1, <1>2, <1>5 DEF StoreTyped
  <2> HIDE DEF was, good
  <2>4. memory'.root = half /\ memory'.modules = was
    BY <2>3 DEF Store!Copy
  <2>5. Fit(memory, saved)'
    BY <2>2, <2>3 DEF Fit
  <2>6. watching /\ ~told => Followed'
    BY <1>1, <1>2, <2>1, <2>4 DEF Followed, Store!SameValues, was
  <2> QED BY <1>1, <1>2, <1>4, <2>5, <2>6 DEF StoreInv
<1>6. CASE ~good
  <2>1. memory' = memory /\ saved' = saved /\ Store!Load(half, was) = Failed
    BY <1>1, <1>2, <1>6 DEF StoreTyped
  <2> HIDE DEF good
  <2>2. Fit(memory, saved)'
    BY <1>2, <2>1 DEF Fit
  <2>3. watching /\ ~told => Followed'
    BY <1>1, <1>2, <2>1 DEF Followed
  <2> QED BY <1>1, <1>2, <1>4, <2>2, <2>3 DEF StoreInv
<1> QED BY <1>5, <1>6

\* A save that writes nothing leaves the documents as they are.
LEMMA WritesAre ==
    ASSUME NEW copy, NEW next,
           copy.modules \in [Store!Modules -> Store!ModuleDocs \cup {Absent}],
           next.modules \in [Store!Modules -> Store!ModuleDocs \cup {Absent}]
    PROVE  /\ Len(Store!Writes(copy, next)) \in Nat
           /\ Len(Store!Writes(copy, next)) = 0 =>
                next.root = copy.root /\ next.modules = copy.modules
<1> DEFINE X == {p \in Store!Paths : IF p = "root" THEN next.root = copy.root
                                     ELSE next.modules[p] = copy.modules[p]}
           s == <<"root">> \o Library.names
           w == Without(s, X)
<1>1. Store!Writes(copy, next) = w
  BY StoreNames DEF Store!Writes, Store!Without, Without
<1>2. /\ Len(Library.names) \in Nat /\ DOMAIN Library.names = 1 .. Len(Library.names)
      /\ \A n \in 1 .. Len(Library.names) : Library.names[n] \in Store!Modules
      /\ \A p \in Store!Modules : \E n \in 1 .. Len(Library.names) : p = Library.names[n]
      /\ Library.names \in Seq(Store!Modules)
  <2> DEFINE names == Library.names
  <2>1. Shelved.names = names /\ Book(Shelved)!Modules = Store!Modules /\ Book(Shelved)!Wellformed
    BY ShelvedFits, ShelvedIs, SameBook
  <2>2. names \in Seq(Store!Modules)
    BY <2>1 DEF Book!Wellformed
  <2> HIDE DEF names, s, X, w
  <2>3. /\ Len(names) \in Nat /\ DOMAIN names = 1 .. Len(names)
        /\ \A n \in 1 .. Len(names) : names[n] \in Store!Modules
        /\ \A p \in Store!Modules : \E n \in 1 .. Len(names) : p = names[n]
    BY <2>1, NamesAre
  <2> QED BY <2>2, <2>3 DEF names
<1>3. s \in Seq(Store!Paths) /\ ToSet(s) = Store!Paths
  <2> DEFINE N == Len(Library.names)
  <2>1. /\ s \in Seq(Store!Paths) /\ DOMAIN s = 1 .. 1 + N /\ s[1] = "root"
        /\ \A n \in 1 .. N : s[1 + n] = Library.names[n]
    <3> DEFINE P == Store!Paths
               names == Library.names
    <3>1. names \in Seq(P) /\ <<"root">> \in Seq(P) /\ Len(<<"root">>) = 1
      BY <1>2, StorePaths
    <3> HIDE DEF P, names
    <3>2. <<"root">> \o names \in Seq(P) /\ DOMAIN (<<"root">> \o names) = 1 .. 1 + Len(names)
          /\ \A i \in 1 .. 1 + Len(names) :
               (<<"root">> \o names)[i] = IF i <= 1 THEN <<"root">>[i] ELSE names[i - 1]
      BY <3>1, ConcatProperties
    <3>3. Len(names) \in Nat /\ <<"root">>[1] = "root"
      BY <3>1
    <3>4. \A n \in 1 .. Len(names) : 1 + n \in 1 .. 1 + Len(names) /\ ~(1 + n <= 1) /\ 1 + n - 1 = n
      BY <3>3
    <3>5. 1 \in 1 .. 1 + Len(names)
      BY <3>3
    <3> QED BY <3>2, <3>3, <3>4, <3>5 DEF P, names
  <2>4. N \in Nat
    BY <1>2
  <2> HIDE DEF s, N, X, w
  <2>2. \A p \in Store!Paths : p \in ToSet(s)
    <3> SUFFICES ASSUME NEW p \in Store!Paths
                 PROVE  \E i \in DOMAIN s : s[i] = p
      BY DEF ToSet
    <3>1. CASE p = "root"
      <4>1. 1 \in 1 .. 1 + N
        BY <2>4
      <4> QED BY <2>1, <3>1, <4>1
    <3>2. CASE p # "root"
      <4>1. PICK n \in 1 .. N : p = Library.names[n]
        BY <1>2, <3>2, StorePaths DEF N
      <4>2. 1 + n \in 1 .. 1 + N
        BY <2>4
      <4> QED BY <2>1, <4>1, <4>2
    <3> QED BY <3>1, <3>2
  <2>3. \A p \in ToSet(s) : p \in Store!Paths
    <3>1. ASSUME NEW E, NEW t \in Seq(E)
          PROVE  \A i \in DOMAIN t : t[i] \in E
      OBVIOUS
    <3>2. s \in Seq(Store!Paths)
      BY <2>1
    <3>3. \A i \in DOMAIN s : s[i] \in Store!Paths
      BY <3>1, <3>2
    <3> QED BY <3>3 DEF ToSet
  <2> QED BY <2>1, <2>2, <2>3
<1> HIDE DEF s, X
<1>4. w \in Seq(Store!Paths) /\ ToSet(w) = Store!Paths \ X
  BY <1>3, WithoutProperties
<1> HIDE DEF w
<1>5. Len(w) \in Nat /\ DOMAIN w = 1 .. Len(w)
  BY <1>4
<1>6. ASSUME Len(w) = 0
      PROVE  next.root = copy.root /\ next.modules = copy.modules
  <2>1. ToSet(w) = {}
    BY <1>5, <1>6 DEF ToSet
  <2>2. Store!Paths \subseteq X
    BY <1>4, <2>1
  <2>3. next.root = copy.root /\ \A p \in Store!Modules : next.modules[p] = copy.modules[p]
    BY <2>2, StorePaths, StoreNames DEF X
  <2> QED BY <2>3
<1> QED BY <1>1, <1>5, <1>6

\* A change of the settings page, saved as a whole, in part or not at all.
LEMMA ChangeStore ==
    ASSUME StoreInv, NEW config \in Store!RootDocs, Store!Change(config),
           Store!Distinct(config.entries), Store!Valid(config),
           Store!Ids(config.entries) = Store!Ids(memory.config.entries),
           config.settings.watch = memory.config.settings.watch
    PROVE  StoreInv'
<1> DEFINE next == Store!Saved(memory.root, memory.modules, config)
           writes == Store!Writes(memory, next)
<1>1. running /\ half = Nil /\ running' = running /\ watching' = watching /\ recent' = recent
      /\ timer' = timer /\ half' = half
  BY DEF Store!Change
<1>2. PICK done \in 0 .. Len(writes) : Store!SaveWrites(config, next, done)
  BY DEF Store!Change
<1> DEFINE whole == done = Len(writes)
           new  == [root |-> next.root, modules |-> next.modules, config |-> config]
<1>3. /\ disk' = Store!Written(next, {writes[i] : i \in 1 .. done})
      /\ told' = (told \/ (watching /\ done > 0)) /\ saved' = whole
      /\ memory' = IF whole THEN new ELSE [memory EXCEPT !.config = config]
      /\ spent' = [spent EXCEPT !.changes = @ + 1, !.failures = IF whole THEN @ ELSE @ + 1]
  BY <1>2 DEF Store!SaveWrites
<1>4. StoreTyped /\ Fit(memory, saved)
  BY DEF StoreInv
<1>5. Fit(new, TRUE)
  BY <1>4, SavedFits
<1>6. /\ next.root \in Store!RootDocs
      /\ next.modules \in [Store!Modules -> Store!ModuleDocs \cup {Absent}]
  <2>1. new.root = next.root /\ new.modules = next.modules
    OBVIOUS
  <2> HIDE DEF new, next
  <2> QED BY <1>5, <2>1 DEF Fit
<1> HIDE DEF next
<1>10. Len(writes) \in Nat
  BY <1>4, <1>6, WritesAre DEF Fit
<1>7. Fit(memory, saved)'
  <2>1. CASE whole
    <3>1. memory' = new /\ saved' = TRUE
      BY <1>3, <2>1
    <3> HIDE DEF new
    <3> QED BY <1>5, <3>1 DEF Fit
  <2>2. CASE ~whole
    <3> DEFINE other == [memory EXCEPT !.config = config]
    <3>1. memory' = other /\ saved' = FALSE
      BY <1>3, <2>2
    <3>2. other.root = memory.root /\ other.modules = memory.modules /\ other.config = config
      BY <1>4 DEF Fit
    <3>4. other = [root |-> other.root, modules |-> other.modules, config |-> other.config]
      BY <1>4 DEF Fit
    <3> HIDE DEF other
    <3>3. Fit(other, FALSE)
      BY <1>4, <3>2, <3>4, UnsavedFits
    <3> QED BY <3>1, <3>3 DEF Fit
  <2> QED BY <2>1, <2>2
<1>8. StoreTyped'
  <2>1. /\ disk' \in [Store!Paths -> Store!RootDocs \cup Store!ModuleDocs \cup {Absent, Broken}]
        /\ disk'["root"] \in Store!RootDocs \cup {Absent, Broken}
        /\ \A p \in Store!Modules : disk'[p] \in Store!ModuleDocs \cup {Absent, Broken}
    BY <1>3, <1>4, <1>6, StorePaths, StoreNames DEF Store!Written, StoreTyped
  <2>2. spent' \in [{"edits", "changes", "failures", "starts"} -> Nat]
    <3>1. spent \in [{"edits", "changes", "failures", "starts"} -> Nat]
      BY <1>4 DEF StoreTyped
    <3>2. \A n \in Nat : n + 1 \in Nat
      OBVIOUS
    <3>3. spent' = [k \in DOMAIN spent |->
                     IF k = "failures" THEN (IF whole THEN spent[k] ELSE spent[k] + 1)
                     ELSE IF k = "changes" THEN spent[k] + 1 ELSE spent[k]]
      BY <1>3, <3>1
    <3> HIDE DEF whole
    <3> QED BY <3>1, <3>2, <3>3
  <2>3. told' \in BOOLEAN /\ saved' \in BOOLEAN
    BY <1>3
  <2> HIDE DEF whole, new, writes
  <2> QED BY <1>1, <1>4, <2>1, <2>2, <2>3 DEF StoreTyped
<1>9. ASSUME watching, ~told', memory'.config.settings.watch, timer = "no"
      PROVE  Followed'
  <2>1. done = 0 /\ ~told
    <3>1. ~told /\ ~(watching /\ done > 0)
      BY <1>3, <1>9
    <3>2. \A n \in Nat : \A i \in 0 .. n : ~(i > 0) => i = 0
      OBVIOUS
    <3> HIDE DEF writes, whole, new
    <3> QED BY <1>9, <1>10, <3>1, <3>2
  <2>2. disk' = disk
    <3>1. {writes[i] : i \in 1 .. done} = {}
      BY <2>1
    <3>2. disk' = [p \in Store!Paths |-> disk[p]]
      BY <1>3, <3>1 DEF Store!Written
    <3> QED BY <1>4, <3>2, StorePaths DEF StoreTyped
  <2>3. memory'.root = memory.root /\ memory'.modules = memory.modules /\ memory'.config = config
    <3>1. CASE whole
      <4>1. memory'.root = next.root /\ memory'.modules = next.modules /\ memory'.config = config
        BY <1>3, <3>1
      <4>2. Len(Store!Writes(memory, next)) = 0
        BY <2>1, <3>1
      <4>3. memory.modules \in [Store!Modules -> Store!ModuleDocs \cup {Absent}]
        BY <1>4 DEF Fit
      <4> QED BY <1>6, <4>1, <4>2, <4>3, WritesAre
    <3>2. CASE ~whole
      <4>1. memory' = [memory EXCEPT !.config = config]
        BY <1>3, <3>2
      <4> HIDE DEF whole
      <4> QED BY <1>4, <4>1 DEF Fit
    <3> QED BY <3>1, <3>2
  <2>4. Followed
    <3> HIDE DEF whole, writes, new
    <3> QED BY <1>1, <1>9, <2>1, <2>3 DEF StoreInv
  <2> HIDE DEF whole, writes, new
  <2> QED BY <2>2, <2>3, <2>4 DEF Followed
<1> HIDE DEF whole, writes, new
<1> QED BY <1>1, <1>7, <1>8, <1>9 DEF StoreInv

LEMMA SetLevelStore == StoreInv /\ Store!SetLevel => StoreInv'
<1> SUFFICES ASSUME StoreInv, Store!SetLevel
             PROVE  StoreInv'
  OBVIOUS
<1> DEFINE c == memory.config
           s == c.settings
<1>1. PICK level \in Library.levels : Store!Change([c EXCEPT !.settings.level = level])
  BY DEF Store!SetLevel
<1> DEFINE config == [c EXCEPT !.settings.level = level]
           t      == [s EXCEPT !.level = level]
<1>2. Fit(memory, saved)
  BY DEF StoreInv
<1>3. /\ c \in Store!RootDocs /\ s \in Library.settings /\ s \notin Library.rejected
      /\ c = [settings |-> s, entries |-> c.entries] /\ c.entries \in Seq(Library.entries)
  BY <1>2 DEF Fit, Store!Valid, Store!RootDocs
<1>4. config = [settings |-> t, entries |-> c.entries]
  <2> HIDE DEF c
  <2> QED BY <1>3
<1>5. /\ t \in Library.settings /\ t \notin Library.rejected /\ {"level", "watch"} \subseteq DOMAIN s
  BY <1>3, TablesAre
<1>6. t.watch = s.watch
  <2> HIDE DEF s
  <2> QED BY <1>5
<1>7. config \in Store!RootDocs /\ config.settings = t /\ config.entries = c.entries
  <2> HIDE DEF t, c, config
  <2> QED BY <1>3, <1>4, <1>5 DEF Store!RootDocs
<1>8. Store!Change(config)
  BY <1>1
<1> HIDE DEF config, t
<1>9. Store!Distinct(config.entries) /\ Store!Valid(config)
      /\ Store!Ids(config.entries) = Store!Ids(memory.config.entries)
  BY <1>2, <1>5, <1>7 DEF Fit, Store!Valid, Store!KnownPages
<1> QED BY <1>6, <1>7, <1>8, <1>9, ChangeStore

LEMMA ToggleCardStore == StoreInv /\ Store!ToggleCard => StoreInv'
<1> SUFFICES ASSUME StoreInv, Store!ToggleCard
             PROVE  StoreInv'
  OBVIOUS
<1> DEFINE c == memory.config
           es == c.entries
<1>1. PICK i \in DOMAIN es : Store!Change([c EXCEPT !.entries[i].enabled = ~@])
  BY DEF Store!ToggleCard
<1> DEFINE config == [c EXCEPT !.entries[i].enabled = ~@]
           e      == [es[i] EXCEPT !.enabled = ~@]
           new    == [es EXCEPT ![i] = e]
<1>2. Fit(memory, saved)
  BY DEF StoreInv
<1>3. /\ c \in Store!RootDocs /\ c.settings \in Library.settings
      /\ c = [settings |-> c.settings, entries |-> es] /\ es \in Seq(Library.entries)
  BY <1>2 DEF Fit, Store!Valid, Store!RootDocs
<1>4. config = [settings |-> c.settings, entries |-> new]
  <2>1. config = [c EXCEPT !.entries = new]
    OBVIOUS
  <2> HIDE DEF c, new, config
  <2> QED BY <1>3, <2>1
<1>5. es[i] \in Library.entries /\ e \in Library.entries /\ {"id", "enabled"} \subseteq DOMAIN es[i]
  <2>1. es[i] \in Library.entries
    <3> HIDE DEF es
    <3> QED BY <1>3
  <2> QED BY <2>1, TablesAre
<1>6. e.id = es[i].id
  <2> HIDE DEF es
  <2> QED BY <1>5
<1> HIDE DEF e
<1>7. new \in Seq(Library.entries) /\ DOMAIN new = DOMAIN es
      /\ \A j \in DOMAIN es : new[j] = IF j = i THEN e ELSE es[j]
  <2> HIDE DEF es
  <2> QED BY <1>3, <1>5
<1> HIDE DEF new
<1>8. config \in Store!RootDocs /\ config.settings = c.settings /\ config.entries = new
  <2> HIDE DEF c, config
  <2> QED BY <1>3, <1>4, <1>7 DEF Store!RootDocs
<1>9. Store!Change(config)
  BY <1>1
<1> HIDE DEF config
<1>10. \A j \in DOMAIN es : new[j].id = es[j].id
  BY <1>6, <1>7
<1>11. Store!Distinct(new)
  <2>1. Store!Distinct(es)
    BY <1>2 DEF Fit
  <2> HIDE DEF es
  <2> QED BY <1>7, <1>10, <2>1 DEF Store!Distinct
<1>12. Store!Ids(new) = Store!Ids(es)
  <2> HIDE DEF es
  <2> QED BY <1>7, <1>10 DEF Store!Ids, Store!Range
<1>13. Store!Valid(config)
  <2>1. Store!Valid(c)
    BY <1>2 DEF Fit
  <2> QED BY <1>8, <1>12, <2>1 DEF Store!Valid, Store!KnownPages
<1> QED BY <1>8, <1>9, <1>11, <1>12, <1>13, ChangeStore

LEMMA NextStore == StoreInv /\ Store!Next => StoreInv'
BY BeginStore, QuitStore, EditStore, SetLevelStore, ToggleCardStore, FileEventStore, WindowStore,
   TimerStore, ReloadStore DEF Store!Next

\* What the settings page saved is what the disk has where the documents are the known ones,
\* and what the program follows is the documents.
LEMMA StoreFollows == StoreInv => Store!TypeOK /\ Store!ConfigFollowed /\ Store!SavedSurvives
<1> SUFFICES ASSUME StoreInv
             PROVE  Store!TypeOK /\ Store!ConfigFollowed /\ Store!SavedSurvives
  OBVIOUS
<1> DEFINE merged == Store!Merge(memory.root, memory.modules)
           onDisk == Store!Load(disk["root"], Store!OnDisk(disk))
<1>1. StoreTyped /\ Fit(memory, saved)
  BY DEF StoreInv
<1>2. saved => Store!SameValues(memory.config, merged)
  BY <1>1 DEF Fit
<1>3. Store!TypeOK
  BY <1>1, StoreNames DEF StoreTyped, Fit, Store!TypeOK
<1>4. Store!ConfigFollowed
  <2>1. ASSUME running, watching, memory.config.settings.watch, saved, ~told, timer = "no", half = Nil
        PROVE  onDisk = Failed \/ Store!SameValues(memory.config, onDisk)
    <3>1. onDisk = Failed \/ Store!SameValues(onDisk, merged)
      BY <2>1 DEF StoreInv, Followed
    <3> HIDE DEF merged, onDisk
    <3> QED BY <1>2, <2>1, <3>1 DEF Store!SameValues
  <2> QED BY <2>1, StoreNames DEF Store!ConfigFollowed
<1>5. Store!SavedSurvives
  <2>1. ASSUME saved, \A p \in Store!Paths :
                        disk[p] = IF p = "root" THEN memory.root ELSE memory.modules[p]
        PROVE  Store!SameValues(memory.config, onDisk)
    <3>1. memory.root \in Store!RootDocs
          /\ memory.modules \in [Store!Modules -> Store!ModuleDocs \cup {Absent}]
      BY <1>1 DEF Fit
    <3>2. disk["root"] = memory.root /\ Store!OnDisk(disk) = memory.modules
      BY <2>1, <3>1, StorePaths, StoreNames DEF Store!OnDisk
    <3>3. onDisk = merged
      BY <3>1, <3>2, LoadOf
    <3> QED BY <1>2, <2>1, <3>3
  <2> QED BY <2>1, StoreNames DEF Store!SavedSurvives
<1> QED BY <1>3, <1>4, <1>5

LEMMA NextStored == (machine = "store" => StoreInv) /\ [NextAll]_all => (machine = "store" => StoreInv)'
<1> SUFFICES ASSUME machine = "store" => StoreInv, [NextAll]_all, (machine = "store")'
             PROVE  StoreInv'
  OBVIOUS
<1>1. machine = "store" /\ StoreInv
  BY DEF NextAll, all
<1>2. CASE NextAll
  <2>1. Store!Next
    BY <1>1, <1>2, MachinesAssumption DEF NextAll, Others
  <2> QED BY <1>1, <2>1, NextStore
<1>3. CASE UNCHANGED all
  <2>1. UNCHANGED store
    BY <1>3 DEF all
  <2>2. /\ disk' = disk /\ memory' = memory /\ running' = running /\ watching' = watching
        /\ saved' = saved /\ told' = told /\ recent' = recent /\ timer' = timer
        /\ half' = half /\ spent' = spent
    BY <2>1 DEF store
  <2>3. StoreTyped' /\ Fit(memory, saved)' /\ Followed' = Followed
    BY <1>1, <2>2 DEF StoreInv, StoreTyped, Fit, Followed
  <2> QED BY <1>1, <2>2, <2>3 DEF StoreInv
<1> QED BY <1>2, <1>3

\* Whatever the program, the settings page and an editor do to the documents, and however
\* their events, the debounce timer and the two halves of a reload fall among it, a watched
\* configuration is that of the disk once no event, timer or reload is left, and a change
\* that was saved is what a restart loads (do_reload_config, setup_config_monitor,
\* ConfigManager::save): for any modules and documents and any number of edits, changes,
\* failing saves and restarts.
THEOREM ConfigAlwaysFollowed == SpecAll => []ConfigFollowed
<1>1. InitAll => (machine = "store" => StoreInv)
  BY InitStore DEF InitAll
<1>2. (machine = "store" => StoreInv) => ConfigFollowed
  BY StoreFollows DEF ConfigFollowed
<1> QED BY <1>1, NextStored, <1>2, PTL DEF SpecAll
=============================================================================
