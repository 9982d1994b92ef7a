----------------------------- MODULE RequestLimit -----------------------------
(***************************************************************************)
(* The limit on requests per minute of an Agent or an address                *)
(* (agentRateLimiter, httpapi/agents.go): a fixed window per key, and a      *)
(* table that forgets the windows that are over, looking for them at most    *)
(* once per window.                                                          *)
(***************************************************************************)
EXTENDS Naturals, Sequences
CONSTANTS
  Key,         \* addresses, or Agents
  Limit,       \* requests a window admits
  Window,      \* its length
  MaxInstant   \* bound: the time
VARIABLES
  window,      \* Key -> its entry in the table
  sweptAt,     \* when the table was last swept
  instant,     \* the time
  admitted,    \* history: the times of each key's admissions
  called       \* history: the time of the last call

limitVars == <<window, sweptAt, instant, admitted, called>>

Instant == 1 .. MaxInstant
NoEntry == [start |-> 0, count |-> 0]

TypeOK ==
  /\ window \in [Key -> [start : 0 .. MaxInstant, count : 0 .. Limit]]
  /\ sweptAt \in 0 .. MaxInstant /\ instant \in Instant /\ called \in 0 .. MaxInstant
  /\ admitted \in [Key -> Seq(Instant)]

Init ==
  /\ window = [k \in Key |-> NoEntry] /\ sweptAt = 0 /\ instant = 1 /\ called = 0
  /\ admitted = [k \in Key |-> <<>>]
-----------------------------------------------------------------------------
Over(entry) == instant - entry.start >= Window

\* Mutant: the table is swept when it has not been looked at for a window.
SweptWhenQuiet ==
  IF called # 0 /\ instant - called < Window THEN window
  ELSE [k \in Key |-> IF Over(window[k]) THEN NoEntry ELSE window[k]]

\* sweep: nothing within a window of the last one.
Swept ==
  IF sweptAt # 0 /\ instant - sweptAt < Window THEN window
  ELSE [k \in Key |-> IF Over(window[k]) THEN NoEntry ELSE window[k]]

SweepTime == IF sweptAt # 0 /\ instant - sweptAt < Window THEN sweptAt ELSE instant

\* A request opens a window or counts in the one that is open.
Counted(entry) ==
  IF entry.start = 0 \/ Over(entry) THEN [start |-> instant, count |-> 1]
  ELSE [entry EXCEPT !.count = @ + 1]

\* Allow sweeps first; the mutex makes it one step.
Allow(k) ==
  LET entry == Swept[k]
      full  == entry.start # 0 /\ ~ Over(entry) /\ entry.count >= Limit
  IN  /\ sweptAt' = SweepTime /\ called' = instant
      /\ window' = IF full THEN Swept ELSE [Swept EXCEPT ![k] = Counted(entry)]
      /\ admitted' = IF full THEN admitted ELSE [admitted EXCEPT ![k] = Append(@, instant)]
      /\ UNCHANGED instant

Tick ==
  /\ instant < MaxInstant /\ instant' = instant + 1
  /\ UNCHANGED <<window, sweptAt, admitted, called>>

Next == Tick \/ \E k \in Key : Allow(k)

Spec == Init /\ [][Next]_limitVars
-----------------------------------------------------------------------------
\* Any stretch of time as long as a window, wherever it begins, sees less than twice the
\* limit of one key: of twice the limit in a row, the last comes a window after the
\* first.  Two windows touch the stretch, and the first opened before it (Allow).
TwiceTheLimit ==
  \A k \in Key : \A n, m \in DOMAIN admitted[k] :
    m = n + 2 * Limit - 1 => admitted[k][m] - admitted[k][n] >= Window

\* The table keeps no key longer than two windows after its own began, while requests
\* of any key go on, however they are spread over time (sweep).
TableForgets ==
  \A k \in Key : window[k].start # 0 => called - window[k].start < 2 * Window

\* The limiter (agentRateLimiter) limits, and forgets.
LimitSafe == TwiceTheLimit /\ TableForgets
=============================================================================
