----------------------------- MODULE TableInputs ------------------------------
(***************************************************************************)
(* Small sets of configurations for the tables of MCTables: a card, a      *)
(* runtime section and an action that is accepted, with up to two of its   *)
(* fields at the values around their bounds; the tables of a v3 document;  *)
(* the documents of a configuration; and the pictures of an animation.     *)
(***************************************************************************)
EXTENDS ConfigRules, SequencesExt

\* A record with one or two of its fields changed to one of their values.
Varied(base, values) ==
  {base} \cup
  UNION {{[base EXCEPT ![f] = v, ![g] = w] : v \in values[f], w \in values[g]} :
           f, g \in DOMAIN values}

Around(low, high) == {low - 1, low, high, high + 1}

-----------------------------------------------------------------------------
Colors == [accent |-> Omitted, value |-> 1, background |-> <<1>>, opacity |-> 100]

VisualState ==
  [name |-> 1, min |-> 1, max |-> 2, equals |-> Omitted, contains |-> Omitted,
   regex |-> Omitted, compiles |-> TRUE, colors |-> Colors]

Display ==
  [minimumChange |-> Omitted, columnsAfter |-> Omitted, columns |-> 2, width |-> Omitted,
   height |-> Omitted, transition |-> [ms |-> 0, easing |-> 1], colors |-> Colors,
   states |-> <<VisualState>>, background |-> Omitted,
   logo |-> [opacity |-> 50, size |-> 8, resolves |-> TRUE]]

Displays ==
  {Omitted} \cup
  {[Display EXCEPT !.minimumChange = v] : v \in {NotFinite, -1, 0}} \cup
  {[Display EXCEPT !.columns = v] : v \in Around(1, 64)} \cup
  {[Display EXCEPT !.states = <<[VisualState EXCEPT !.min = v]>>] : v \in {NotFinite, 2, 3}} \cup
  {[Display EXCEPT !.logo.size = v] : v \in Around(8, 64)}

Parser ==
  [type |-> "regex", pattern |-> 1, compiles |-> TRUE, path |-> Omitted, divisor |-> 1,
   multiplier |-> 1, decimals |-> 2, capture |-> Omitted]

Http ==
  [kind |-> "http", scheme |-> "https", method |-> "GET", timeout |-> 10, output |-> 1024,
   headers |-> 1, body |-> Omitted, parser |-> Parser]

SourceSamples ==
  {Omitted} \cup
  {[kind |-> "builtin", metric |-> m] : m \in {"event", "network_traffic", "sampled", "unheard"}} \cup
  {[kind |-> "file", path |-> n] : n \in {0, 1}} \cup {[kind |-> "text", length |-> 0]} \cup
  {[Http EXCEPT !.timeout = n] : n \in Around(1, MaxExternalTimeout)} \cup
  {[Http EXCEPT !.parser.divisor = n] : n \in {0, NotFinite}} \cup
  {[kind |-> "command", run |-> run, lines |-> 1, timeout |-> 10, output |-> n] :
     run \in {<<>>, <<1>>, <<1, 0>>}, n \in Around(1, MaxOutputBytes)}

Card ==
  [id |-> 1, title |-> 1, page |-> "monitor", order |-> 0, renderer |-> "value", enabled |-> TRUE,
   refresh |-> 30, cacheTtl |-> Omitted, timeout |-> 10, icon |-> Omitted,
   description |-> Omitted, schedule |-> Omitted, action |-> Omitted,
   runtime |-> DefaultRuntime, source |-> Omitted, display |-> Omitted]

Times == {0, 1, 59, 60, 90, 3599, 3600, 7200, 86400, 90000, MaxDurationSeconds,
          MaxDurationSeconds + 1}

CardValues ==
  [id |-> Around(1, 128), page |-> {"monitor", "gone"}, renderer |-> {"value", "chart"},
   order |-> {-1, 0}, enabled |-> BOOLEAN, refresh |-> Times, cacheTtl |-> {Omitted} \cup Times,
   timeout |-> Times, schedule |-> {Omitted, "evaluates", "refused"},
   action |-> {Omitted, "act", "gone"}, source |-> SourceSamples, display |-> Displays,
   runtime |-> Varied(DefaultRuntime,
                 [workload |-> {"auto"} \cup Workloads, inactive |-> Behaviors,
                  inactiveInterval |-> {Omitted, 0, 1, 60}, minimum |-> {Omitted, 0, 90}])]

CardSamples == Varied(Card, CardValues)

-----------------------------------------------------------------------------
RuntimeSection ==
  [quietStart |-> 23, quietEnd |-> 7, lease |-> 30, criticalEnter |-> 8, criticalExit |-> 12,
   lowEnter |-> 20, lowExit |-> 25, grace |-> 5, idleTimeout |-> 120, idleStability |-> 5,
   powerSample |-> 0, thermalSample |-> 15, attention |-> 30, brightness |-> 20]

RuntimeSamples ==
  Varied(RuntimeSection,
    [quietStart |-> {0, 23, 24}, lease |-> {0, 1, 300, 301}, criticalEnter |-> {8, 12},
     lowEnter |-> {11, 12, 25}, lowExit |-> {100, 101}, grace |-> {0, MaxDurationSeconds + 1},
     brightness |-> {0, 100, 101}])

ActionSamples ==
  Varied([id |-> 1, name |-> 1, page |-> "monitor", description |-> Omitted, icon |-> Omitted,
          timeout |-> 10, output |-> Omitted, command |-> <<1>>],
    [timeout |-> Around(1, MaxExternalTimeout), command |-> {Omitted, <<>>, <<1>>},
     output |-> {Omitted} \cup Around(1, MaxOutputBytes)])

GlobalBounds == {1, 2, MaxOutputBytes}

-----------------------------------------------------------------------------
\* A directory of three pictures, and the animations that name up to three of them.
Picture(file, header, pixels) == [file |-> file, header |-> header, pixels |-> pixels]

PictureSamples ==
  {Picture("picture", "within", 1), Picture("picture", "foreign", 2),
   Picture("picture", "foreign", 3), Picture("picture", "beyond", 1),
   Picture("unreadable", "within", 1), Picture("missing", "within", 1)}

Animations ==
  LET Directories == [{"a", "b", "c"} -> PictureSamples]
      Listings    == UNION {[1 .. n -> {"a", "b", "c"}] : n \in 0 .. 4}
  IN  {[directory |-> d, listing |-> l] : d \in Directories, l \in Listings}

\* what load_frames is called with
PathsOf(animation) ==
  [n \in DOMAIN animation.listing |->
     [name |-> animation.listing[n], picture |-> animation.directory[animation.listing[n]]]]
=============================================================================
