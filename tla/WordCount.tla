----------------------------- MODULE WordCount -----------------------------
(***************************************************************************)
(* The concurrent word counter (10-day/snippets/code_4): a feeder sends    *)
(* the files over an unbuffered channel to workers that count their words, *)
(* every worker sends its map to main over another one, and a closer       *)
(* closes that channel when the WaitGroup has emptied.                     *)
(***************************************************************************)
EXTENDS Integers, Sequences, FiniteSets

CONSTANTS
  Files,      \* the files named on the command line: the words each holds, none if it cannot be opened
  Requested,  \* the -workers flag
  Cores       \* runtime.NumCPU

VARIABLES
  at,            \* where main, the feeder and the closer stand
  workers,       \* where each worker stands
  files,         \* files the feeder still has to send
  fileClosed,    \* whether fileChan is closed
  localMap,      \* by worker: its counts
  wg,            \* counter of the WaitGroup
  resultClosed,  \* whether resultChan is closed
  mp             \* main's counts

wordVars == <<at, workers, files, fileClosed, localMap, wg, resultClosed, mp>>

maxWorkers == IF Cores < Requested THEN Cores ELSE Requested
Workers == 1..maxWorkers

WordsOf(file) == {file[i] : i \in DOMAIN file}
Words == UNION {WordsOf(Files[i]) : i \in DOMAIN Files}
NoCounts == [w \in Words |-> 0]

Init ==
  /\ at = [main |-> "launch", feeder |-> "send", closer |-> "absent"]
  /\ workers = [w \in Workers |-> "absent"]
  /\ files = Files /\ fileClosed = FALSE
  /\ localMap = [w \in Workers |-> NoCounts] /\ wg = 0
  /\ resultClosed = FALSE /\ mp = NoCounts

-----------------------------------------------------------------------------

\* Main adds to the WaitGroup before it starts the next worker, and starts the closer last.
Launch ==
  /\ at.main = "launch"
  /\ LET absent == {w \in Workers : workers[w] = "absent"}
     IN  IF absent = {}
         THEN at' = [at EXCEPT !.closer = "wait", !.main = "merge"] /\ UNCHANGED <<workers, wg>>
         ELSE /\ workers' = [workers EXCEPT ![CHOOSE w \in absent : \A v \in absent : w <= v] = "range"]
              /\ wg' = wg + 1 /\ UNCHANGED at
  /\ UNCHANGED <<files, fileClosed, localMap, resultClosed, mp>>

\* process: one more of each word in the file.
process(file, counts) == [w \in Words |-> counts[w] + Cardinality({i \in DOMAIN file : file[i] = w})]

\* The feeder and a worker meet on fileChan; the worker counts the file before it ranges again.
Take(w) ==
  /\ at.feeder = "send" /\ files # <<>> /\ workers[w] = "range"
  /\ files' = Tail(files) /\ localMap' = [localMap EXCEPT ![w] = process(Head(files), @)]
  /\ UNCHANGED <<at, workers, fileClosed, wg, resultClosed, mp>>

CloseFiles ==
  /\ at.feeder = "send" /\ files = <<>>
  /\ fileClosed' = TRUE /\ at' = [at EXCEPT !.feeder = "end"]
  /\ UNCHANGED <<workers, files, localMap, wg, resultClosed, mp>>

Drained(w) ==
  /\ workers[w] = "range" /\ fileClosed
  /\ workers' = [workers EXCEPT ![w] = "result"]
  /\ UNCHANGED <<at, files, fileClosed, localMap, wg, resultClosed, mp>>

\* Main meets a worker on resultChan and merges its map; sending on a closed channel panics.
Merge(w) ==
  /\ workers[w] = "result"
  /\ IF resultClosed
     THEN at' = [g \in DOMAIN at |-> "panic"] /\ UNCHANGED <<workers, mp>>
     ELSE /\ at.main = "merge"
          /\ UNCHANGED at /\ workers' = [workers EXCEPT ![w] = "done"]
          /\ mp' = [x \in Words |-> mp[x] + localMap[w][x]]
  /\ UNCHANGED <<files, fileClosed, localMap, wg, resultClosed>>

\* The deferred wg.Done.
Done(w) ==
  /\ workers[w] = "done" /\ wg' = wg - 1 /\ workers' = [workers EXCEPT ![w] = "end"]
  /\ UNCHANGED <<at, files, fileClosed, localMap, resultClosed, mp>>

CloseResults ==
  /\ at.closer = "wait" /\ wg = 0
  /\ resultClosed' = TRUE /\ at' = [at EXCEPT !.closer = "end"]
  /\ UNCHANGED <<workers, files, fileClosed, localMap, wg, mp>>

EndMerge ==
  /\ at.main = "merge" /\ resultClosed
  /\ at' = [at EXCEPT !.main = "end"]
  /\ UNCHANGED <<workers, files, fileClosed, localMap, wg, resultClosed, mp>>

Next ==
  \/ Launch \/ CloseFiles \/ CloseResults \/ EndMerge
  \/ \E w \in Workers : Take(w) \/ Drained(w) \/ Merge(w) \/ Done(w)

\* Goroutines that can run are run; every step brings the program nearer its end.
Spec == Init /\ [][Next]_wordVars /\ WF_wordVars(Next)

-----------------------------------------------------------------------------

Occurrences(word) == UNION {{<<i, j>> : j \in {k \in DOMAIN Files[i] : Files[i][k] = word}} : i \in DOMAIN Files}

\* CountsComplete: the program ends with every word of every file counted once,
\* whichever worker took which file, and no goroutine left behind.
CountsComplete ==
  <>[](/\ \A g \in DOMAIN at : at[g] = "end"
       /\ \A w \in Workers : workers[w] = "end"
       /\ mp = [w \in Words |-> Cardinality(Occurrences(w))])
=============================================================================
