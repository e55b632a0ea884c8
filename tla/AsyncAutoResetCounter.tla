----------------------- MODULE AsyncAutoResetCounter -----------------------
(***************************************************************************)
(* The awaitable counter of Izhg.Lib.Threading (Async/Task Based/           *)
(* AsyncAutoResetCounter.cs).  Await(val) returns a task that ends when the  *)
(* counter reaches val.  The class has no lock: apart from the two           *)
(* Interlocked operations every read and every write of a field is a step.   *)
(***************************************************************************)
EXTENDS Integers, FiniteSets

CONSTANTS Callers,     \* threads that call Increment and Decrement
          Wanted       \* the argument of Await

VARIABLES counter, value,
          tcs,            \* the current TaskCompletionSource, numbered
          completed,      \* the sources whose task has ended
          callPc, seen,   \* each caller, and the counter it read
          awaitPc,        \* the caller of Await
          awaited         \* the source whose task Await returned

counterVars == <<counter, value, tcs, completed, callPc, seen, awaitPc, awaited>>

CounterInit ==
    /\ counter = 0 /\ value = -1 /\ tcs = 0 /\ completed = {}
    /\ callPc = [c \in Callers |-> "idle"] /\ seen = [c \in Callers |-> 0]
    /\ awaitPc = "idle" /\ awaited = 0

CallGoto(c, l) == callPc' = [callPc EXCEPT ![c] = l]

\* Interlocked.Increment and Interlocked.Decrement
Increment(c) ==
    /\ callPc[c] = "idle"
    /\ counter' = counter + 1
    /\ CallGoto(c, "read")
    /\ UNCHANGED <<value, tcs, completed, seen, awaitPc, awaited>>
Decrement(c) ==
    /\ callPc[c] = "idle"
    /\ counter' = counter - 1
    /\ CallGoto(c, "read")
    /\ UNCHANGED <<value, tcs, completed, seen, awaitPc, awaited>>

\* if (counter == value) reads counter, then value.
ReadCounter(c) ==
    /\ callPc[c] = "read"
    /\ seen' = [seen EXCEPT ![c] = counter]
    /\ CallGoto(c, "compare")
    /\ UNCHANGED <<counter, value, tcs, completed, awaitPc, awaited>>
CompareValue(c) ==
    /\ callPc[c] = "compare"
    /\ CallGoto(c, IF seen[c] = value THEN "set" ELSE "idle")
    /\ UNCHANGED <<counter, value, tcs, completed, seen, awaitPc, awaited>>

\* tcs.SetResult() throws when another caller has set it.
SetResult(c) ==
    /\ callPc[c] = "set"
    /\ CallGoto(c, IF tcs \in completed THEN "thrown" ELSE "tcs")
    /\ completed' = completed \cup {tcs}
    /\ UNCHANGED <<counter, value, tcs, seen, awaitPc, awaited>>

\* InitReset: three assignments
InitReset(c) ==
    /\ \/ /\ callPc[c] = "tcs" /\ CallGoto(c, "counter")
          /\ tcs' = Cardinality(completed) /\ UNCHANGED <<counter, value>>
       \/ /\ callPc[c] = "counter" /\ CallGoto(c, "value")
          /\ counter' = 0 /\ UNCHANGED <<tcs, value>>
       \/ /\ callPc[c] = "value" /\ CallGoto(c, "idle")
          /\ value' = -1 /\ UNCHANGED <<tcs, counter>>
    /\ UNCHANGED <<completed, seen, awaitPc, awaited>>

CallStep(c) == ReadCounter(c) \/ CompareValue(c) \/ SetResult(c) \/ InitReset(c)

\* Await(Wanted): the counter is read, value is stored, tcs is read.
Await ==
    /\ \/ /\ awaitPc = "check"
          /\ awaitPc' = IF counter = Wanted THEN "finished" ELSE "store"
          /\ UNCHANGED <<value, awaited>>
       \/ /\ awaitPc = "store" /\ awaitPc' = "task"
          /\ value' = Wanted /\ UNCHANGED awaited
       \/ /\ awaitPc = "task" /\ awaitPc' = "pending"
          /\ awaited' = tcs /\ UNCHANGED value
       \/ /\ awaitPc = "pending" /\ awaited \in completed
          /\ awaitPc' = "finished" /\ UNCHANGED <<value, awaited>>
    /\ UNCHANGED <<counter, tcs, completed, callPc, seen>>

CounterTypeOK ==
    /\ counter \in Int /\ value \in {-1, Wanted}
    /\ tcs \in Nat /\ completed \subseteq Nat /\ awaited \in Nat
    /\ callPc \in [Callers -> {"idle", "read", "compare", "set", "tcs", "counter", "value", "thrown"}]
    /\ seen \in [Callers -> Int]
    /\ awaitPc \in {"idle", "check", "store", "task", "pending", "finished"}

\* "When the value reaches the required one, the await ends" (the summary of the class, in
\* Russian): no await stays pending on a counter that has reached its value.
AwaitFinishes ==
    awaitPc = "pending" /\ counter = Wanted /\ (\A c \in Callers : callPc[c] = "idle")
        => awaited \in completed
=============================================================================
