-------------------------- MODULE MCDailyProjects --------------------------
(***************************************************************************)
(* The small programs and libraries of the course's days and of the        *)
(* capstone, side by side: `machine` says which of them runs.  They share  *)
(* nothing, so a behaviour is one of the chosen machine while the others   *)
(* stay as they started.                                                   *)
(***************************************************************************)
EXTENDS RingBuffer, StockTracker, RateLimiter, Garage, PacketRouter, DNSResolver,
        TextEditor, Integers, FiniteSets

VARIABLES
  machine,
  users, tree, category, created,                                           \* categories
  phase, line, tokens, stack, output, result,                               \* evaluator
  trie, dictWords, counted,                                                 \* spell checker
  at, workers, files, fileClosed, localMap, wg, resultClosed, mp,           \* word count
  cliAt, file, scenario, tickN, closed, interrupted, vehicle,               \* scenario client
  tick, evIdx, lastState, fired, reported

categoryVars == <<users, tree, category, created>>
evaluatorVars == <<phase, line, tokens, stack, output, result>>
spellVars == <<trie, dictWords, counted>>
wordVars == <<at, workers, files, fileClosed, localMap, wg, resultClosed, mp>>
clientVars == <<cliAt, file, scenario, tickN, closed, interrupted, vehicle, tick, evIdx, lastState, fired, reported>>

allVars == <<machine, ringVars, stockVars, editorVars, routerVars, dnsVars, garageVars,
             limiterVars, categoryVars, evaluatorVars, spellVars, wordVars, clientVars>>

-----------------------------------------------------------------------------
(* The garage's plates, as typed and as accepted, and the other machines' instances *)

MCTyped == {<<"a", "1">>, <<"A", "-", "1">>, <<"b", "1">>, <<"B", "-", "2">>, <<"1">>}
MCIndianPlates == {<<"A", "1">>, <<"B", "1">>, <<"B", "2">>}

MCTexts == {<<>>, <<"a">>, <<"b">>, <<"a", "b">>}

Packet(ttl, traffic, priority) == [ttl |-> ttl, traffic |-> traffic, priority |-> priority]

MCInputs == {Packet(1, "other", 7), Packet(2, "other", 0), Packet(2, "syn", 3), Packet(0, "ping", 1)}

MCDomains == {<<"a", "x", "c">>, <<"x", "c">>}
MCAdded == {<<"a", "x", "c">>, <<"*", "x", "c">>}
MCHash(k) == IF Len(k) = 3 THEN 1 ELSE 3

Categories == INSTANCE CategoryBrowse WITH
  Paths <- {<<"a">>, <<"a", "b">>, <<"b", " ", "c">>, <<"c", "b">>, <<"ALL", "c">>, <<" ">>, <<"b", "b", "a">>},
  MaxUsers <- 1, MaxItems <- 3

Ops == {"-", "*", "/", "^"}

Lines ==
  UNION {[1..k -> {"1", ".", " ", "-", "^", "(", ")"}] : k \in 0..4}
  \cup {<<"1", "x">>}
  \cup {<<"1", a, "1", b, "1", c, "1">> : a \in Ops, b \in Ops, c \in Ops}
  \cup {<<"(", "1", a, "1", ")", b, "1">> : a \in Ops, b \in Ops}
  \cup {<<"1", a, "(", "1", b, "1", c, "1", ")">> : a \in Ops, b \in Ops, c \in Ops}

Evaluator == INSTANCE ExpressionEvaluator WITH Inputs <- Lines

Speller == INSTANCE SpellChecker WITH
  DictLines <- {<<"a">>, <<"a", "b">>, <<" ", "A", "a">>, <<"a", "b", "b">>, <<"b", "b", "a", "a">>, <<"#", "a">>, <<>>},
  Texts <- {<<"a", " ", "B", "b", " ", "b", "b">>, <<"b", "a", " ", "a", "b">>, <<>>},
  MaxLines <- 3, Limit <- 2

Counter == INSTANCE WordCount WITH
  Files <- <<<<"x", "y">>, <<>>, <<"x">>, <<"z", "x">>>>, Requested <- 4, Cores <- 3

Map == INSTANCE Scenario

Node(n) == [id |-> n, xy |-> <<n, 0>>]
Emergency(t) == [tick |-> t, type |-> "emergency", plate |-> "AMB", from |-> 0, to |-> 1]
Car == [plate |-> "CAR", type |-> "normal", from |-> 0, to |-> 0]

\* Three nodes in a row; the car is there already.
Row == [tickMs |-> 50, format |-> "objects", grid |-> <<>>, bidirectional |-> FALSE,
        intersections |-> <<Node(0), Node(1), Node(2)>>,
        roads |-> <<Map!Road(0, 0, 1, TRUE), Map!Road(0, 1, 2, TRUE)>>,
        vehicle |-> Car, events |-> <<>>]

\* Journeys with events, both formats with numbers that clash or not, grids, and files to refuse.
ScenarioFiles ==
  {[Row EXCEPT !.vehicle.to = 2, !.events = e] :
     e \in {<<>>, <<Emergency(1)>>, <<Emergency(3), Emergency(1)>>, <<Emergency(2), Emergency(2)>>}}
  \cup {[Row EXCEPT !.bidirectional = b, !.roads[1].id = i, !.roads[2].id = j] : b \in BOOLEAN, i \in {0, 3}, j \in {0, 2, 4}}
  \cup {[Row EXCEPT !.format = "arrays", !.bidirectional = b] : b \in BOOLEAN}
  \cup {[Row EXCEPT !.format = "grid", !.grid = [cols |-> c, rows |-> r, legal |-> TRUE]] : c \in 0..3, r \in 0..2}
  \cup {[Row EXCEPT !.roads[1].legal = FALSE], [Row EXCEPT !.roads[1].to = 3],
        [Row EXCEPT !.intersections[3] = Node(3), !.roads[2].to = 3], [Row EXCEPT !.intersections[3] = Node(1)],
        [Row EXCEPT !.intersections[2].xy = <<>>], [Row EXCEPT !.vehicle.type = "bus"],
        [Row EXCEPT !.vehicle.from = 2], [Row EXCEPT !.events = <<Emergency(0)>>], [Row EXCEPT !.tickMs = 0]}

Client == INSTANCE ScenarioCLI WITH Files <- ScenarioFiles, MaxTicks <- 3

-----------------------------------------------------------------------------

DailyInit ==
  /\ machine \in {"ring", "stock", "editor", "router", "dns", "garage", "limiter", "categories",
                  "evaluator", "speller", "counter", "client"}
  /\ RingInit /\ StockInit /\ EditorInit /\ GarageInit /\ LimiterInit /\ Categories!Init /\ Speller!Init /\ Counter!Init
  /\ RouterInit /\ (machine # "router" => queues[1].kind = "ring")
  /\ DNSInit /\ (machine # "dns" => store.kind = "custom")
  /\ Evaluator!Init /\ (machine # "evaluator" => line = <<>>)
  /\ Client!Init /\ (machine # "client" => file = Row)

RingStep ==
  /\ machine = "ring" /\ RingNext
  /\ UNCHANGED <<machine, stockVars, editorVars, routerVars, dnsVars, garageVars, limiterVars, categoryVars,
                 evaluatorVars, spellVars, wordVars, clientVars>>

StockStep ==
  /\ machine = "stock" /\ StockNext
  /\ UNCHANGED <<machine, ringVars, editorVars, routerVars, dnsVars, garageVars, limiterVars, categoryVars,
                 evaluatorVars, spellVars, wordVars, clientVars>>

EditorStep ==
  /\ machine = "editor" /\ EditorNext
  /\ UNCHANGED <<machine, ringVars, stockVars, routerVars, dnsVars, garageVars, limiterVars, categoryVars,
                 evaluatorVars, spellVars, wordVars, clientVars>>

RouterStep ==
  /\ machine = "router" /\ RouterNext
  /\ UNCHANGED <<machine, ringVars, stockVars, editorVars, dnsVars, garageVars, limiterVars, categoryVars,
                 evaluatorVars, spellVars, wordVars, clientVars>>

DNSStep ==
  /\ machine = "dns" /\ DNSNext
  /\ UNCHANGED <<machine, ringVars, stockVars, editorVars, routerVars, garageVars, limiterVars, categoryVars,
                 evaluatorVars, spellVars, wordVars, clientVars>>

GarageStep ==
  /\ machine = "garage" /\ GarageNext
  /\ UNCHANGED <<machine, ringVars, stockVars, editorVars, routerVars, dnsVars, limiterVars, categoryVars,
                 evaluatorVars, spellVars, wordVars, clientVars>>

LimiterStep ==
  /\ machine = "limiter" /\ LimiterNext
  /\ UNCHANGED <<machine, ringVars, stockVars, editorVars, routerVars, dnsVars, garageVars, categoryVars,
                 evaluatorVars, spellVars, wordVars, clientVars>>

CategoryStep ==
  /\ machine = "categories" /\ Categories!Next
  /\ UNCHANGED <<machine, ringVars, stockVars, editorVars, routerVars, dnsVars, garageVars, limiterVars,
                 evaluatorVars, spellVars, wordVars, clientVars>>

EvaluatorStep ==
  /\ machine = "evaluator" /\ Evaluator!Next
  /\ UNCHANGED <<machine, ringVars, stockVars, editorVars, routerVars, dnsVars, garageVars, limiterVars,
                 categoryVars, spellVars, wordVars, clientVars>>

SpellerStep ==
  /\ machine = "speller" /\ Speller!Next
  /\ UNCHANGED <<machine, ringVars, stockVars, editorVars, routerVars, dnsVars, garageVars, limiterVars,
                 categoryVars, evaluatorVars, wordVars, clientVars>>

CounterStep ==
  /\ machine = "counter" /\ Counter!Next
  /\ UNCHANGED <<machine, ringVars, stockVars, editorVars, routerVars, dnsVars, garageVars, limiterVars,
                 categoryVars, evaluatorVars, spellVars, clientVars>>

ClientStep ==
  /\ machine = "client" /\ Client!Next
  /\ UNCHANGED <<machine, ringVars, stockVars, editorVars, routerVars, dnsVars, garageVars, limiterVars,
                 categoryVars, evaluatorVars, spellVars, wordVars>>

DailyNext ==
  \/ RingStep \/ StockStep \/ EditorStep \/ RouterStep \/ DNSStep \/ GarageStep
  \/ LimiterStep \/ CategoryStep \/ EvaluatorStep \/ SpellerStep \/ CounterStep \/ ClientStep

\* The goroutines of the two concurrent machines run.
DailyFairness ==
  /\ WF_wordVars(CounterStep)
  /\ WF_clientVars(machine = "client" /\ Client!CLI) /\ WF_clientVars(machine = "client" /\ Client!Tick)
  /\ WF_clientVars(machine = "client" /\ Client!CloseTicks) /\ WF_clientVars(machine = "client" /\ Client!VehicleStep)

DailySpec == DailyInit /\ [][DailyNext]_allVars /\ DailyFairness

-----------------------------------------------------------------------------
(* The machines' properties; the others are the definitions of the modules extended. *)

\* The answers of category browsing (tree.go), the spell checker (trie.go) and the
\* evaluator (parser.go) are those of their definitions, and the graphs of scenario files
\* and of the server (scenario.go, topology.go) are sound.
AnswersRight ==
  /\ Categories!BrowseExact /\ Speller!SpellcheckRight /\ Evaluator!EvaluatesRight
  /\ machine = "client" => Client!ScenarioSound

\* The word count ends with the right counts (code_4/main.go); the scenario client ends
\* with the vehicle's arrival if there was one in time, having fired each event at its
\* tick (cmd/cli/main.go).
ProgramsEnd ==
  /\ machine = "counter" => Counter!CountsComplete
  /\ machine = "client" => []Client!EventsOnTime /\ Client!ScenarioEnds
=============================================================================
