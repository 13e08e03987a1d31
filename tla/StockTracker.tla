---------------------------- MODULE StockTracker ----------------------------
(***************************************************************************)
(* The stock price tracker (02-day/project): the last WindowSize prices of *)
(* a symbol in a Go slice that grows by append, slides by reslicing and is *)
(* copied when too much memory hangs behind it.  Prices are whole numbers. *)
(***************************************************************************)
EXTENDS Integers, Sequences

CONSTANTS
  WindowSize,       \* STOCK_WINDOW_SIZE, positive
  InitialCapacity,  \* InitialWindowCapacity, 10 in the code
  FirstPrice,       \* initialPriceForSymbol
  MaxPrice,         \* bound on the prices
  SizeClass         \* bound on how many items append may add beyond doubling

ASSUME StockConstants ==
  /\ WindowSize \in Nat \ {0} /\ InitialCapacity \in Nat \ {0} /\ SizeClass \in Nat
  /\ MaxPrice \in Nat /\ FirstPrice \in 1..MaxPrice

VARIABLES
  points,     \* Window: the prices
  capacity,   \* cap(Window)
  windowSum,
  status,
  lastPrice   \* LastGeneratedPrice

stockVars == <<points, capacity, windowSum, status, lastPrice>>

StockInit ==
  /\ points = <<>> /\ capacity = InitialCapacity /\ windowSum = 0
  /\ status = "NO_DATA" /\ lastPrice = FirstPrice

\* Broken variant: the sum keeps the price that slides out.
Slid_KeepsSum(window, sum) ==
  IF Len(window) > WindowSize THEN [points |-> Tail(window), sum |-> sum] ELSE [points |-> window, sum |-> sum]

\* A window over its size loses the first price.
Slid(window, sum) ==
  IF Len(window) > WindowSize
  THEN [points |-> Tail(window), sum |-> sum - Head(window)]
  ELSE [points |-> window, sum |-> sum]

\* What append makes of the capacity: the runtime doubles it and rounds up to a size class.
AppendCapacity(cap) == IF Len(points) < cap THEN {cap} ELSE (2 * cap)..(2 * cap + SizeClass)

\* What is left of a capacity when the window slides, and after the manual shrink.
SlidCapacity(cap) == IF cap - 1 > 2 * WindowSize THEN WindowSize ELSE cap - 1

AddPrice(price) ==
  /\ LET slid == Slid(Append(points, price), windowSum + price)
     IN  points' = slid.points /\ windowSum' = slid.sum
  /\ \E cap \in AppendCapacity(capacity) :
       capacity' = IF Len(points) + 1 > WindowSize THEN SlidCapacity(cap) ELSE cap
  /\ status' = "LIVE"

SeedInitialPoint == status = "NO_DATA" /\ AddPrice(lastPrice) /\ UNCHANGED lastPrice

\* A random walk that stays at 1 or above.
NextPricePoint ==
  /\ status = "LIVE"
  /\ \E change \in -1..1 :
       lastPrice' = (IF lastPrice + change < 1 THEN 1 ELSE lastPrice + change) /\ lastPrice' <= MaxPrice
  /\ AddPrice(lastPrice')

StockNext == SeedInitialPoint \/ NextPricePoint

StockSpec == StockInit /\ [][StockNext]_stockVars

-----------------------------------------------------------------------------

Total[i \in 0..Len(points)] == IF i = 0 THEN 0 ELSE Total[i - 1] + points[i]

PriceWindow == INSTANCE SlidingWindow WITH window <- points, Samples <- 1..MaxPrice, Cap <- WindowSize

\* The average's sum is the window's, and what the slice holds on to is bounded.
SumAndMemory ==
  /\ windowSum = Total[Len(points)]
  /\ Len(points) <= capacity
  /\ capacity <= 2 * (IF WindowSize > InitialCapacity THEN WindowSize ELSE InitialCapacity) + SizeClass

\* StockWindow: the dashboard averages the last WindowSize prices, however often the
\* slice is regrown, resliced and copied.
StockWindow == PriceWindow!WindowSpec /\ [][SumAndMemory']_stockVars
=============================================================================
