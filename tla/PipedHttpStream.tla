--------------------------- MODULE PipedHttpStream ---------------------------
(***************************************************************************)
(* PipedHttpStream.ParseMessagesAsync (Izhg.Lib.Http.Piped): three tasks    *)
(* share a Pipe, a queue of parsed messages and the AsyncAutoResetEvent     *)
(* `sync'.  fillPipe copies the source into the pipe, produceMsg cuts the   *)
(* pipe into messages and signals each one, the caller awaits the signals   *)
(* and hands the messages to its consumer until the token is canceled.      *)
(*                                                                         *)
(* The source is a sequence of pieces, the units in which bytes arrive and  *)
(* are parsed; a line may come in several pieces, of which the last one     *)
(* holds the line feed.  HttpObject.Push walks over the buffer that one     *)
(* ReadAsync returned, a piece or a run of pieces at a time; a step of the  *)
(* walk is an action, and nothing of it is seen by the other tasks before   *)
(* the message is queued or the buffer is advanced.  Each session is one    *)
(* call of ParseMessagesAsync with a CancellationTokenSource of its own.    *)
(***************************************************************************)
EXTENDS Integers, Sequences

CONSTANTS Stream,          \* the pieces of the source, in order
          Messages,        \* the HTTP messages it consists of
          End,             \* End[m] is the position of the last piece of message m
          Closing,         \* the empty lines after the field "Connection: close"
          MaxSessions,     \* calls of ParseMessagesAsync
          ExternalCancel   \* whether the caller's source may be canceled from outside

\* A "part" of a line, a field "line", the empty line "blank" with what AnalyzBodyLength
\* makes of the fields above it (Chunked, or the length of the body, 0 for none), a piece of
\* a body, the "size" line of a chunk of len pieces of "data", the "crlf" after them, the
\* "zero" line and the "end" of a chunked body.
Chunked == -2
Piece == [what : {"part", "line", "blank", "body", "size", "data", "crlf", "zero", "end"}, len : Nat]
         \cup [what : {"blank"}, len : {Chunked}]
LineFeeds == {"line", "blank", "size", "crlf", "zero", "end"}
Empty == {"blank", "crlf", "end"}    \* lines of length 2

\* The pieces first..last are one HTTP message.
IsMessage(first, last) ==
    \E blank \in first..last :
        /\ Stream[blank].what = "blank"
        /\ \A p \in first..(blank - 1) : Stream[p].what \in {"part", "line"}
        /\ \/ /\ Stream[blank].len \in Nat /\ last = blank + Stream[blank].len
              /\ \A p \in (blank + 1)..last : Stream[p].what = "body"
           \/ /\ Stream[blank].len = Chunked
              /\ blank < last - 1
              /\ Stream[last - 1].what = "zero" /\ Stream[last].what = "end"
              /\ \A p \in (blank + 1)..(last - 2) :
                    /\ Stream[p].what \in {"part", "size", "data", "crlf"}
                    /\ Stream[p].what = "size" =>
                         /\ Stream[p].len > 0 /\ p + Stream[p].len < last - 1
                         /\ \A d \in (p + 1)..(p + Stream[p].len) : Stream[d].what = "data"

ASSUME StreamAssumption ==
    /\ Stream \in Seq(Piece) /\ MaxSessions \in Nat /\ ExternalCancel \in BOOLEAN
    /\ Closing \subseteq {p \in DOMAIN Stream : Stream[p].what = "blank"}
    /\ Messages \in Nat /\ End \in [0..Messages -> 0..Len(Stream)]
    /\ End[0] = 0 /\ End[Messages] = Len(Stream)
    /\ \A m \in 1..Messages : End[m - 1] < End[m] /\ IsMessage(End[m - 1] + 1, End[m])

VARIABLES waits, signals, isCanceled, cancellationToken, cachedCanceled, pc, tok, registered,
          fired, callbacks, resetPc, resetFails, resets, sets, released,   \* sync
          session,       \* the current call; its token has the same number
          filled,        \* pieces written to the pipe
          advanced,      \* pieces the reader has consumed
          reading,       \* a buffer that ReadAsync returned is not given back yet
          seen,          \* the last piece of that buffer
          pos,           \* pieces taken, the `consumed' of Push
          begun, mode, left,  \* the HttpObject `current': the pieces before it, what it reads,
                         \* and the pieces its body or chunk still lacks (leftToRead)
          queue,         \* completed messages, each the run of pieces it was made of
          delivered,     \* messages handed to the consumer
          fillPc, producePc, mainPc

Caller == "caller"
sync == INSTANCE AsyncAutoResetEvent WITH
            Waiters <- {Caller}, Tokens <- 1..MaxSessions, NoToken <- 0,
            Torn <- MaxSessions + 1, Canceled <- "canceled",
            MaxSets <- Len(Stream), MaxWaits <- Len(Stream) + MaxSessions,
            MaxResets <- MaxSessions

syncVars == <<waits, signals, isCanceled, cancellationToken, cachedCanceled, pc, tok, registered,
              fired, callbacks, resetPc, resetFails, resets, sets, released>>
pipeVars == <<filled, advanced, reading, seen>>
current == <<begun, mode, left>>
parserVars == <<pipeVars, pos, current>>
pcs == <<fillPc, producePc, mainPc>>
vars == <<syncVars, session, parserVars, queue, delivered, pcs>>

Init ==
    /\ sync!Init
    /\ session = 0 /\ filled = 0 /\ advanced = 0 /\ reading = FALSE /\ seen = 0 /\ pos = 0
    /\ begun = 0 /\ mode = "fields" /\ left = 0
    /\ queue = << >> /\ delivered = << >>
    /\ fillPc = "done" /\ producePc = "done" /\ mainPc = "idle"

IsCancellationRequested == session \in fired

-----------------------------------------------------------------------------
(* fillPipe *)

\* Read the source and flush to the pipe; a read of 0 bytes only repeats the loop.
FillPipe ==
    /\ fillPc = "loop" /\ ~IsCancellationRequested
    /\ filled < Len(Stream)
    /\ filled' = filled + 1
    /\ UNCHANGED <<syncVars, session, advanced, reading, seen, pos, current, queue, delivered, pcs>>

\* The loop condition, or the OperationCanceledException of ReadAsync or FlushAsync.
FillStops ==
    /\ fillPc = "loop" /\ IsCancellationRequested
    /\ fillPc' = "done"
    /\ UNCHANGED <<syncVars, session, parserVars, queue, delivered, producePc, mainPc>>

\* Any other exception of the source ends the task: nothing catches it before WhenAll.
FillFails ==
    /\ fillPc = "loop" /\ ~IsCancellationRequested
    /\ fillPc' = "done"
    /\ UNCHANGED <<syncVars, session, parserVars, queue, delivered, producePc, mainPc>>

-----------------------------------------------------------------------------
(* produceMsg *)

\* reader.ReadAsync(cts.Token) returns what is in the pipe.
ProduceRead ==
    /\ producePc = "loop" /\ ~IsCancellationRequested
    /\ ~reading /\ filled > advanced
    /\ reading' = TRUE /\ seen' = filled /\ pos' = advanced
    /\ producePc' = "push"
    /\ UNCHANGED <<syncVars, session, filled, advanced, current, queue, delivered, fillPc, mainPc>>

\* An earlier call left its buffer without AdvanceTo: ReadAsync throws, the task ends.
ReadThrows ==
    /\ producePc = "loop" /\ ~IsCancellationRequested /\ reading
    /\ producePc' = "done"
    /\ UNCHANGED <<syncVars, session, parserVars, queue, delivered, fillPc, mainPc>>

\* Mutant: a canceled read is caught inside a loop without a condition.
ProduceStopsNever ==
    /\ producePc = "loop" /\ IsCancellationRequested
    /\ UNCHANGED vars

\* The loop condition, or the OperationCanceledException of ReadAsync.
ProduceStops ==
    /\ producePc = "loop" /\ IsCancellationRequested
    /\ producePc' = "done"
    /\ UNCHANGED <<syncVars, session, parserVars, queue, delivered, fillPc, mainPc>>

\* Push returns with an unfinished message.
PushEnds == producePc' = "redirect" /\ UNCHANGED queue
\* Push throws: the buffer is not given back, and the task ends.
PushThrows == producePc' = "done" /\ UNCHANGED queue

\* Mutant: a completed message is signaled and not queued.
CompleteForgets(last, consumed) ==
    /\ pos' = consumed
    /\ UNCHANGED queue
    /\ begun' = consumed /\ mode' = "fields" /\ left' = 0
    /\ producePc' = "set"

\* The message that ends with piece `last' is queued and a new HttpObject rented.
Complete(last, consumed) ==
    /\ pos' = consumed
    /\ queue' = Append(queue, [from |-> begun + 1, to |-> last])
    /\ begun' = consumed /\ mode' = "fields" /\ left' = 0
    /\ producePc' = "set"

\* The line of the buffer that ends at q, and a buffer without a whole line.
LineTo(q) ==
    /\ q \in (pos + 1)..seen /\ Stream[q].what \in LineFeeds
    /\ \A p \in (pos + 1)..(q - 1) : Stream[p].what \notin LineFeeds
NoLine == \A p \in (pos + 1)..seen : Stream[p].what \notin LineFeeds

\* What AnalyzBodyLength or ParseHex makes of a line.
Length(q) == IF Stream[q].what \in {"blank", "size"} THEN Stream[q].len ELSE 0

\* ParseLines takes the next line.
ParseLine(q) ==
    /\ mode = "fields" /\ LineTo(q) /\ Stream[q].what \notin Empty
    /\ pos' = q
    /\ UNCHANGED <<current, queue, producePc>>

\* After the empty line the fields tell how the body is read, if there is one.
EndHead(q) ==
    /\ mode = "fields" /\ LineTo(q) /\ Stream[q].what \in Empty
    /\ \/ Length(q) = 0 /\ Complete(q, q)
       \/ /\ Length(q) # 0
          /\ pos' = q
          /\ mode' = IF Length(q) = Chunked THEN "chunks" ELSE "body"
          /\ left' = IF Length(q) = Chunked THEN 0 ELSE Length(q)
          /\ UNCHANGED <<begun, queue, producePc>>

\* A line that is not complete stays in the pipe.
ParseLinesEnds ==
    /\ mode = "fields" /\ NoLine
    /\ PushEnds /\ UNCHANGED <<pos, current>>

\* What a later call finds in the middle of a message need not parse as a head.
ParseLinesThrows ==
    /\ mode = "fields" /\ ~NoLine
    /\ begun \notin {End[m] : m \in 0..Messages}
    /\ PushThrows /\ UNCHANGED <<pos, current>>

\* Mutant: the body takes the whole buffer, the beginning of the next message too.
FillBodyWhole ==
    /\ mode = "body"
    /\ IF seen - pos >= left
       THEN Complete(seen, seen)
       ELSE /\ pos' = seen /\ left' = left - (seen - pos)
            /\ PushEnds /\ UNCHANGED <<begun, mode>>

\* FillBody copies the whole buffer into the rest of the body: a buffer that is longer, as
\* when the next message follows at once, does not fit and CopyTo throws.
FillBody ==
    /\ mode = "body"
    /\ IF seen - pos > left
       THEN PushThrows /\ UNCHANGED <<pos, current>>
       ELSE IF seen - pos = left
       THEN Complete(seen, seen)
       ELSE /\ pos' = seen /\ left' = left - (seen - pos)
            /\ PushEnds /\ UNCHANGED <<begun, mode>>

\* FillBodyChunked takes what it can get of a chunk an earlier buffer began.
FillChunk ==
    /\ mode = "chunk"
    /\ IF seen - pos < left
       THEN pos' = seen /\ left' = left - (seen - pos) /\ PushEnds /\ UNCHANGED mode
       ELSE pos' = pos + left /\ left' = 0 /\ mode' = "chunks" /\ UNCHANGED <<queue, producePc>>
    /\ UNCHANGED begun

\* The CRLF after a chunk.
SkipLine(q) ==
    /\ mode = "chunks" /\ LineTo(q) /\ Stream[q].what \in Empty
    /\ pos' = q
    /\ UNCHANGED <<current, queue, producePc>>

\* A size line with the whole chunk behind it.
TakeChunk(q) ==
    /\ mode = "chunks" /\ LineTo(q) /\ Stream[q].what \notin Empty
    /\ Length(q) \in 1..(seen - q)
    /\ pos' = q + Length(q)
    /\ UNCHANGED <<current, queue, producePc>>

\* A size line with a part of the chunk behind it.
BeginChunk(q) ==
    /\ mode = "chunks" /\ LineTo(q) /\ Stream[q].what \notin Empty
    /\ q < seen /\ Length(q) > seen - q
    /\ pos' = seen /\ mode' = "chunk" /\ left' = Length(q) - (seen - q)
    /\ PushEnds
    /\ UNCHANGED begun

\* The zero line ends the body, and so does a size line that is the last thing in the buffer,
\* for which no byte can be taken.  The closing CRLF is counted as consumed, whether it is in
\* the buffer or not.
EndChunks(q) ==
    /\ mode = "chunks" /\ LineTo(q) /\ Stream[q].what \notin Empty
    /\ Length(q) = 0 \/ q = seen
    /\ \/ q = seen /\ Complete(q, q + 1)
       \/ q < seen /\ Complete(q + 1, q + 1)

\* The buffer is used up; or it ends within a line, and the loop finds no position for ever,
\* whatever becomes of the token.
ChunksEnd ==
    /\ mode = "chunks" /\ NoLine
    /\ IF pos = seen THEN PushEnds ELSE producePc' = "spin" /\ UNCHANGED queue
    /\ UNCHANGED <<pos, current>>

\* current.Push(buffer)
Push ==
    /\ producePc = "push"
    /\ \/ \E q \in (pos + 1)..seen :
             \/ ParseLine(q) \/ EndHead(q)
             \/ SkipLine(q) \/ TakeChunk(q) \/ BeginChunk(q) \/ EndChunks(q)
       \/ ParseLinesEnds \/ ParseLinesThrows \/ FillBody \/ FillChunk \/ ChunksEnd
    /\ UNCHANGED <<syncVars, session, pipeVars, delivered, fillPc, mainPc>>

SyncSet ==
    /\ producePc = "set"
    /\ sync!Set
    /\ producePc' = "redirect"
    /\ UNCHANGED <<session, parserVars, queue, delivered, fillPc, mainPc>>

\* The consumed bytes go to the redirect stream; reader.AdvanceTo.  More bytes than the
\* buffer has make Slice or GetPosition throw.
Redirect ==
    /\ producePc = "redirect"
    /\ IF pos > seen
       THEN producePc' = "done" /\ UNCHANGED <<advanced, reading>>
       ELSE producePc' = "loop" /\ advanced' = pos /\ reading' = FALSE
    /\ UNCHANGED <<syncVars, session, filled, seen, pos, current, queue, delivered, fillPc, mainPc>>

\* redirect.WriteAsync throws.
RedirectFails ==
    /\ producePc = "redirect"
    /\ producePc' = "done"
    /\ UNCHANGED <<syncVars, session, parserVars, queue, delivered, fillPc, mainPc>>

-----------------------------------------------------------------------------
(* The caller of ParseMessagesAsync *)

SyncReset ==
    /\ \/ /\ mainPc = "idle" /\ session < MaxSessions
          /\ sync!ResetCached
          /\ session' = session + 1 /\ mainPc' = "reset"
       \/ /\ mainPc = "reset" /\ UNCHANGED <<session, mainPc>>
          /\ sync!ResetToken \/ sync!ResetFlag \/ sync!ResetCheck \/ sync!ResetSignals
    /\ UNCHANGED <<parserVars, queue, delivered, fillPc, producePc>>

\* Reset threw, or the two tasks are started; a new HttpObject is rented and begins a head.
Started ==
    /\ mainPc = "reset" /\ resetPc = "idle"
    /\ IF resetFails
       THEN mainPc' = "idle" /\ UNCHANGED <<fillPc, producePc, pos, current>>
       ELSE /\ mainPc' = "wait" /\ fillPc' = "loop" /\ producePc' = "loop"
            /\ pos' = advanced /\ begun' = advanced /\ mode' = "fields" /\ left' = 0
    /\ UNCHANGED <<syncVars, session, pipeVars, queue, delivered>>

\* sync.WaitAsync(cts.Token), step by step.
SyncWait ==
    /\ \/ mainPc = "wait" /\ sync!WaitAsync(Caller, session) /\ mainPc' = "await"
       \/ /\ mainPc = "await" /\ UNCHANGED mainPc
          /\ \/ sync!CheckToken(Caller) \/ sync!StoreToken(Caller) \/ sync!RegisterToken(Caller)
             \/ sync!VerifyToken(Caller) \/ sync!EnterWait(Caller)
    /\ UNCHANGED <<session, parserVars, queue, delivered, fillPc, producePc>>

\* The await returns, or WaitAsync threw and the call ends with its tasks running.
Awaited ==
    /\ mainPc = "await"
    /\ sync!Resume(Caller)
    /\ mainPc' = CASE pc[Caller] = "completed" -> "dequeue"
                   [] pc[Caller] = "canceled"  -> "drain"
                   [] OTHER                    -> "failed"
    /\ UNCHANGED <<session, parserVars, queue, delivered, fillPc, producePc>>

\* CheckCloseConnection looks at all lines of the message.
Closes(msg) == \E p \in msg.from..msg.to : p \in Closing

Consume ==
    /\ delivered' = Append(delivered, Head(queue))
    /\ queue' = Tail(queue)

\* while (!queue.TryDequeue(out msg)) { }; a closing message cancels the source.
Dequeue ==
    /\ mainPc = "dequeue" /\ queue # << >>
    /\ Consume
    /\ IF Closes(Head(queue)) /\ ~IsCancellationRequested
       THEN sync!CancelToken(session) /\ mainPc' = "canceling"
       ELSE /\ mainPc' = IF Closes(Head(queue)) THEN "out" ELSE "wait"
            /\ UNCHANGED syncVars
    /\ UNCHANGED <<session, parserVars, fillPc, producePc>>

\* cts.Cancel() runs the registered callbacks before it returns.
Canceling ==
    /\ mainPc = "canceling" /\ callbacks = 0
    /\ mainPc' = "out"
    /\ UNCHANGED <<syncVars, session, parserVars, queue, delivered, fillPc, producePc>>

\* A canceled await empties the queue and leaves the loop.
Drain ==
    /\ mainPc = "drain"
    /\ IF queue # << >> THEN Consume /\ UNCHANGED mainPc
                        ELSE mainPc' = "out" /\ UNCHANGED <<queue, delivered>>
    /\ UNCHANGED <<syncVars, session, parserVars, fillPc, producePc>>

\* await Task.WhenAll(fillPipe, produceMsg)
WhenAll ==
    /\ mainPc = "out" /\ fillPc = "done" /\ producePc = "done"
    /\ mainPc' = "idle"
    /\ UNCHANGED <<syncVars, session, parserVars, queue, delivered, fillPc, producePc>>

\* The owner of the source cancels it while the call runs.
CancelFromOutside ==
    /\ ExternalCancel /\ session > 0 /\ mainPc # "idle"
    /\ sync!CancelToken(session)
    /\ UNCHANGED <<session, parserVars, queue, delivered, pcs>>

Callback ==
    /\ sync!RunCallback
    /\ UNCHANGED <<session, parserVars, queue, delivered, pcs>>

Fill == FillPipe \/ FillStops \/ FillFails
Produce == \/ ProduceRead \/ ReadThrows \/ ProduceStops \/ Push
           \/ SyncSet \/ Redirect \/ RedirectFails
Main == SyncReset \/ Started \/ SyncWait \/ Awaited \/ Dequeue \/ Canceling \/ Drain \/ WhenAll
Next == Fill \/ Produce \/ Main \/ CancelFromOutside \/ Callback

\* Task.Run schedules every task that can run, the source delivers what it has, and
\* a canceled source runs its callbacks.
Fairness == WF_vars(Fill) /\ WF_vars(Produce) /\ WF_vars(Main) /\ WF_vars(Callback)
Spec == Init /\ [][Next]_vars /\ Fairness

-----------------------------------------------------------------------------
(* Properties *)

\* The event, the pipe and the three tasks have the types of their fields.
Run == [from : 1..Len(Stream), to : 1..Len(Stream)]
TypeOK ==
    /\ sync!TypeOK
    /\ session \in 0..MaxSessions
    /\ filled \in 0..Len(Stream) /\ advanced \in 0..filled /\ seen \in 0..filled
    /\ pos \in 0..(Len(Stream) + 1) /\ begun \in 0..(Len(Stream) + 1) /\ left \in 0..Len(Stream)
    /\ reading \in BOOLEAN /\ mode \in {"fields", "body", "chunks", "chunk"}
    /\ queue \in Seq(Run) /\ delivered \in Seq(Run)
    /\ fillPc \in {"loop", "done"}
    /\ producePc \in {"loop", "push", "spin", "set", "redirect", "done"}
    /\ mainPc \in {"idle", "reset", "wait", "await", "dequeue", "canceling", "drain", "out", "failed"}

\* A completed await always finds its message: the busy loop
\* `while (!queue.TryDequeue(out msg)) { }' never spins, in any session.
SpinFindsMessage == mainPc = "dequeue" => queue # << >>

\* produceMsg counted more bytes as consumed than its buffer has, and ends or has ended.
Overrun == producePc \in {"set", "redirect"} /\ pos > seen
\* Within one call the consumer gets the messages of the source one by one: none is lost,
\* repeated, reordered, or runs into the next one, whatever the cancellation interrupts and
\* wherever the reads cut the source.  Only a chunked message may come without its end (the
\* read stopped after a size line or before the last CRLF), and then it is the last one,
\* for the task that parses ends.
DeliveredInOrder ==
    session <= 1 =>
        \A i \in 1..Len(delivered) :
            /\ delivered[i].from = End[i - 1] + 1
            /\ \/ delivered[i].to = End[i]
               \/ /\ delivered[i].to < End[i]
                  /\ i = Len(delivered) /\ queue = << >>
                  /\ Overrun \/ producePc = "done"

\* The first call, once it received a closing message or a canceled await, returns: its tasks
\* end, unless the parser spins within a line of a chunked body.  (A callback of the first
\* token that runs late can cancel the await of the second call, whose tasks do not end.)
CloseEndsParse ==
    session = 1 /\ mainPc \in {"canceling", "drain", "out"} ~> mainPc = "idle" \/ producePc = "spin"

\* "do not dequeue for consumers to consume awaits" (AsyncAutoResetEvent.cs): after
\* the token fired, a consumer that awaits once more consumes a canceled await, so
\* the call returns.
CancelEndsParse == 1 \in fired ~> mainPc = "idle"
=============================================================================
