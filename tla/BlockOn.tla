------------------------------ MODULE BlockOn ------------------------------
(***************************************************************************)
(* block_on: the synchronous calls of a scan wait for asynchronous object- *)
(* store requests, on whatever thread the host transport runs them.        *)
(*                                                                         *)
(* A future makes progress only while something drives its runtime.  The   *)
(* process-wide runtime has threads that do nothing else.  The threads of  *)
(* a host's runtime also run the calls, so calls that block them can wait  *)
(* for themselves.  A request that fails in transit is sent again after a  *)
(* sleep, a bounded number of times.                                       *)
(***************************************************************************)
EXTENDS Naturals, FiniteSets

CONSTANTS
  Calls,     \* the calls that are served at the same time
  Cores,     \* the worker threads of a multi-thread host
  Requests,  \* the requests of a call, its listings and fetches
  Retries    \* how often a request is sent again

ASSUME CoresAssumption == Cores \in Nat \ {0}
ASSUME RequestsAssumption == Requests \in Nat
ASSUME RetriesAssumption == Retries \in Nat

VARIABLES
  host,   \* the ambient runtime of the calls, or "wasm"
  pc,     \* of each call: "queued", "running", "blocked", "done" or "panicked"
  waits,  \* of each blocked call: "io", "timer", or "none" once it can go on
  tries,  \* of each call: how often its request was sent again
  left    \* of each call: the requests still to be made

vars == <<host, pc, waits, tries, left>>

Init ==
  /\ host \in {"none", "multi_thread", "current_thread", "wasm"}
  /\ pc = [c \in Calls |-> "queued"]
  /\ waits = [c \in Calls |-> "none"]
  /\ tries = [c \in Calls |-> 0]
  /\ left = [c \in Calls |-> Requests]

\* Mutant of Way: the flavour of the ambient runtime is not looked at.
WayInPlace ==
  CASE host \in {"multi_thread", "current_thread"} -> "in_place"
    [] host = "none" -> "direct"
    [] host = "wasm" -> "thread_local"

\* How a call waits: in place on a multi-thread host's runtime, on the process's
\* from a scoped thread or directly, or on a runtime of its thread's own.
Way ==
  CASE host = "multi_thread" -> "in_place"
    [] host = "current_thread" -> "scoped"
    [] host = "none" -> "direct"
    [] host = "wasm" -> "thread_local"

\* No thread may block on a runtime while it runs tasks of one, unless it gave
\* its place to another thread first, which only a multi-thread runtime can.
MayBlock ==
  CASE Way = "in_place" -> host = "multi_thread"
    [] Way = "direct" -> host \notin {"multi_thread", "current_thread"}
    [] OTHER -> TRUE

\* Nothing parks on a socket in wasm, whose transport blocks inline.
Drivers == IF Way = "thread_local" THEN {"timer"} ELSE {"io", "timer"}

\* The calls that take up a thread of the host, and whether one is left to run a
\* call or to drive the host's runtime.
OnHostThreads ==
  {c \in Calls : pc[c] = "running" \/ (pc[c] = "blocked" /\ Way # "in_place")}

Free ==
  CASE host = "multi_thread" -> Cardinality(OnHostThreads) < Cores
    [] host = "current_thread" -> OnHostThreads = {}
    [] OTHER -> TRUE

Start(c) ==
  /\ pc[c] = "queued" /\ Free
  /\ pc' = [pc EXCEPT ![c] = "running"]
  /\ UNCHANGED <<host, waits, tries, left>>

\* The request is sent; in wasm the answer is there when the send returns.
Send(c) == waits' = [waits EXCEPT ![c] = IF host = "wasm" THEN "none" ELSE "io"]

Request(c) ==
  /\ pc[c] = "running" /\ left[c] > 0
  /\ pc' = [pc EXCEPT ![c] = IF MayBlock THEN "blocked" ELSE "panicked"]
  /\ tries' = [tries EXCEPT ![c] = 0]
  /\ left' = [left EXCEPT ![c] = @ - 1]
  /\ Send(c)
  /\ UNCHANGED host

\* The runtime a call is blocked on wakes it: a thread of the host's must be free,
\* the process's has its own, and a thread-local one is driven by its block_on.
Wake(c) ==
  /\ pc[c] = "blocked" /\ waits[c] \in Drivers
  /\ Way = "in_place" => Free
  /\ IF waits[c] = "io" THEN waits' = [waits EXCEPT ![c] = "none"] ELSE Send(c)
  /\ UNCHANGED <<host, pc, tries, left>>

\* The answer was a failure worth another try.
Backoff(c) ==
  /\ pc[c] = "blocked" /\ waits[c] = "none" /\ tries[c] < Retries
  /\ tries' = [tries EXCEPT ![c] = @ + 1]
  /\ waits' = [waits EXCEPT ![c] = "timer"]
  /\ UNCHANGED <<host, pc, left>>

\* block_on returns bytes, or a failure that stays and fails the call.
Return(c) ==
  /\ pc[c] = "blocked" /\ waits[c] = "none"
  /\ \E next \in {"running", "done"} : pc' = [pc EXCEPT ![c] = next]
  /\ UNCHANGED <<host, waits, tries, left>>

Complete(c) ==
  /\ pc[c] = "running" /\ left[c] = 0
  /\ pc' = [pc EXCEPT ![c] = "done"]
  /\ UNCHANGED <<host, waits, tries, left>>

Ended == (\A c \in Calls : pc[c] \in {"done", "panicked"}) /\ UNCHANGED vars

Step(c) ==
  \/ Start(c) \/ Request(c) \/ Wake(c) \/ Backoff(c) \/ Return(c) \/ Complete(c)

Next == (\E c \in Calls : Step(c)) \/ Ended

\* The operating system runs every thread, and a driver wakes what is ready.
Spec == Init /\ [][Next]_vars /\ \A c \in Calls : WF_vars(Step(c))

---------------------------------------------------------------------------
(* Properties *)

\* Every call comes back from every request it waits for (cloud.rs:150-151,
\* 168-173), on any host, however many calls there are for its threads: none
\* waits for a thread that waits for it.
EveryCallReturns == \A c \in Calls : <>(pc[c] = "done")
=============================================================================
