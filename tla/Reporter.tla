------------------------------ MODULE Reporter ------------------------------
(***************************************************************************)
(* Usage events and their files (src/telemetry/reporter.cpp): runs of the  *)
(* program, several at a time, that record events, keep them on disk, send *)
(* them in batches, end in every way there is, and report how the runs     *)
(* before them ended.                                                      *)
(*                                                                         *)
(* The loop over the sessions on disk goes step by step, one file at a     *)
(* time, since another run may be in the same loop; every other method is  *)
(* one step.  A batch is limited by its number of events only.  What the   *)
(* events say, the counters and the lengths of delays are left out.        *)
(***************************************************************************)
EXTENDS Integers, Sequences, SequencesExt

CONSTANTS
  MaxRuns,      \* bound: runs of the program
  MaxQueued,    \* kMaxQueuedEvents
  MaxBatch,     \* kMaxBatchEvents
  MaxExtras     \* bound: events beside a run's start and exit, and batches the
                \* server does not answer with 2xx, together

VARIABLES
  runs, files,
  seen   \* owed: events recorded that the server did not take or refuse, a full
         \* queue did not drop, the user did not forget and no run killed in begin()
         \* lost; told: the reports on how runs ended; how they did; the extras
vars == <<runs, files, seen>>

Runs == 1..MaxRuns
Event(run, kind, n) == [run |-> run, kind |-> kind, n |-> n]
Nobody == [of |-> 0, step |-> "none"]
NewRun == [phase |-> "off", queue |-> <<>>, inFlight |-> 0, reply |-> <<>>, blocked |-> FALSE,
           todo |-> {}, reading |-> Nobody]
NoFiles == [lock |-> "none", json |-> FALSE, crash |-> FALSE, queue |-> <<>>]


\* The first run is over when the model begins, and has sent nothing.
Left(how) ==
  [lock |-> IF how = "closed" THEN "none" ELSE "stale", json |-> how # "closed",
   crash |-> how = "crash",
   queue |-> <<Event(1, "start", 0)>> \o IF how = "closed" THEN <<Event(1, "exit", 0)>> ELSE <<>>]

Init == \E how \in {"closed", "killed", "crash"} :
  /\ runs = [r \in Runs |-> IF r = 1 THEN [NewRun EXCEPT !.phase = "gone"] ELSE NewRun]
  /\ files = [r \in Runs |-> IF r = 1 THEN Left(how) ELSE NoFiles]
  /\ seen = [owed |-> ToSet(Left(how).queue), told |-> {}, extras |-> 0,
             ends |-> [r \in Runs |-> IF r = 1 THEN how ELSE "none"]]

Begun(r) == runs[r].phase \in {"live", "finished"}

-----------------------------------------------------------------------------
(* The calls of a run's methods are passed on as one record: the run x, its *)
(* files f and what was seen.                                               *)

Of(r) == [x |-> runs[r], f |-> files[r], seen |-> seen]
Becomes(r, b) ==
  /\ runs' = [runs EXCEPT ![r] = b.x]
  /\ files' = [files EXCEPT ![r] = b.f]
  /\ seen' = b.seen

SaveQueue(b) == [b EXCEPT !.f.queue = b.x.queue]

Queued(b, event) == [b EXCEPT !.x.queue = Append(@, event), !.seen.owed = @ \cup {event}]

\* Mutant: the batch in flight stays as long as it was.
OverflowKeepsBatch(b) ==
  LET excess == Len(b.x.queue) - MaxQueued
  IN IF excess <= 0 THEN b
     ELSE [b EXCEPT !.x.queue = SubSeq(@, excess + 1, Len(@)),
                    !.seen.owed = @ \ ToSet(SubSeq(b.x.queue, 1, excess))]

Overflow(b) ==
  LET excess == Len(b.x.queue) - MaxQueued
  IN IF excess <= 0 THEN b
     ELSE [b EXCEPT !.x.queue = SubSeq(@, excess + 1, Len(@)),
                    !.x.inFlight = IF @ > excess THEN @ - excess ELSE 0,
                    !.seen.owed = @ \ ToSet(SubSeq(b.x.queue, 1, excess))]

Record(b, event) == SaveQueue(Overflow(Queued(b, event)))

\* Mutant: only full batches go.
SendFull(b) ==
  IF b.x.reply # <<>> \/ Len(b.x.queue) < MaxBatch \/ b.x.blocked THEN b
  ELSE [b EXCEPT !.x.inFlight = MaxBatch, !.x.reply = SubSeq(b.x.queue, 1, MaxBatch)]

Send(b) ==
  IF b.x.reply # <<>> \/ b.x.queue = <<>> \/ b.x.blocked THEN b
  ELSE LET n == IF Len(b.x.queue) < MaxBatch THEN Len(b.x.queue) ELSE MaxBatch
       IN [b EXCEPT !.x.inFlight = n, !.x.reply = SubSeq(b.x.queue, 1, n)]

-----------------------------------------------------------------------------
(* begin() and reportEarlierRuns() *)

OnDisk == {r \in Runs : files[r] # NoFiles}

Begin(r) ==
  /\ runs[r].phase = "off" /\ \A earlier \in 1..(r - 1) : runs[earlier].phase # "off"
  /\ runs' = [runs EXCEPT ![r] = [NewRun EXCEPT !.phase = "adopting", !.todo = OnDisk \ {r}]]
  /\ files' = [files EXCEPT ![r].lock = "held"]
  /\ UNCHANGED seen

Adopting(r) == runs[r].phase = "adopting"
Free(r) == Adopting(r) /\ runs[r].reading = Nobody

\* IsRunning(): a session whose lock is held is left alone; else its queue is read.
LookAt(r, j) ==
  LET looked == [runs[r] EXCEPT !.todo = @ \ {j}]
      taken == [looked EXCEPT !.queue = @ \o files[j].queue,
                              !.reading = [of |-> j, step |-> "crash"]]
  IN /\ Free(r) /\ j \in runs[r].todo
     /\ runs' = [runs EXCEPT ![r] = IF files[j].lock = "held" THEN looked ELSE taken]
     /\ UNCHANGED <<files, seen>>

Reads(r, step) == Adopting(r) /\ runs[r].reading.step = step

\* A report of the kind asked for, if its file is there
Report(r, kind, there) ==
  LET j == runs[r].reading.of
  IN IF there THEN [Queued(Of(r), Event(j, kind, 0)) EXCEPT !.seen.told = @ \cup {[of |-> j, as |-> kind]}]
     ELSE Of(r)

ReadCrash(r) ==
  /\ Reads(r, "crash")
  /\ LET there == files[runs[r].reading.of].crash
     IN Becomes(r, [Report(r, "crash", there) EXCEPT
                      !.x.reading.step = IF there THEN "remove json" ELSE "json"])

ReadMarker(r) ==
  /\ Reads(r, "json")
  /\ Becomes(r, [Report(r, "unclean_exit", files[runs[r].reading.of].json) EXCEPT
                   !.x.reading.step = "remove json"])

\* Mutant: the crash report goes first.
RemovedCrashFirst(f, step) ==
  CASE step = "remove json" -> [f EXCEPT !.crash = FALSE]
    [] step = "remove crash" -> [f EXCEPT !.json = FALSE]
    [] step = "remove rest" -> [f EXCEPT !.queue = <<>>, !.lock = "none"]

\* RemoveSession()'s loop; nothing tells its last two files apart.
Removed(f, step) ==
  CASE step = "remove json" -> [f EXCEPT !.json = FALSE]
    [] step = "remove crash" -> [f EXCEPT !.crash = FALSE]
    [] step = "remove rest" -> [f EXCEPT !.queue = <<>>, !.lock = "none"]

Following(step) ==
  CASE step = "remove json" -> "remove crash"
    [] step = "remove crash" -> "remove rest"
    [] step = "remove rest" -> "none"

RemoveFile(r) ==
  LET reading == runs[r].reading
      next == Following(reading.step)
  IN /\ Adopting(r) /\ reading.step \in {"remove json", "remove crash", "remove rest"}
     /\ files' = [files EXCEPT ![reading.of] = Removed(@, reading.step)]
     /\ runs' = [runs EXCEPT ![r].reading = IF next = "none" THEN Nobody ELSE [@ EXCEPT !.step = next]]
     /\ UNCHANGED seen

\* The rest of begin()
Start(r) ==
  /\ Free(r) /\ runs[r].todo = {}
  /\ LET b == [Overflow(Of(r)) EXCEPT !.f.json = TRUE, !.x.phase = "live"]
     IN Becomes(r, Send(Record(b, Event(r, "start", 0))))

-----------------------------------------------------------------------------
(* A run that has begun *)

MayBeMore == seen.extras < MaxExtras
More(b) == [b EXCEPT !.seen.extras = @ + 1]

RecordEvent(r) ==
  /\ runs[r].phase = "live" /\ MayBeMore
  /\ Becomes(r, Record(More(Of(r)), Event(r, "error", seen.extras)))

SendTimer(r) == Begun(r) /\ Send(Of(r)) # Of(r) /\ Becomes(r, Send(Of(r)))
DelayEnds(r) == Begun(r) /\ runs[r].blocked /\ Becomes(r, [Of(r) EXCEPT !.x.blocked = FALSE])

\* sent(): as many events go as are still in flight.
SentOff(b) ==
  SaveQueue([b EXCEPT !.x.queue = SubSeq(@, b.x.inFlight + 1, Len(@)), !.x.blocked = FALSE])

Answered(b) == [b EXCEPT !.x.inFlight = 0, !.x.reply = <<>>]

Batch(r) == ToSet(runs[r].reply)
Waiting(r) == Begun(r) /\ runs[r].reply # <<>>

\* 2xx
Taken(r) ==
  /\ Waiting(r)
  /\ Becomes(r, Send(Answered(SentOff([Of(r) EXCEPT !.seen.owed = @ \ Batch(r)]))))

\* 400 and 413
Refused(r) ==
  /\ Waiting(r) /\ MayBeMore
  /\ Becomes(r, More(Answered(SentOff([Of(r) EXCEPT !.seen.owed = @ \ Batch(r)]))))

\* 429, any other status, or no answer to a batch the server may have taken
Delayed(r) ==
  /\ Waiting(r) /\ MayBeMore
  /\ \E taken \in {{}, Batch(r)} :
       Becomes(r, More(Answered([Of(r) EXCEPT !.x.blocked = TRUE, !.seen.owed = @ \ taken])))

Finish(r) ==
  /\ runs[r].phase = "live"
  /\ LET b == Record([Of(r) EXCEPT !.x.phase = "finished"], Event(r, "exit", 0))
     IN Becomes(r, Send([b EXCEPT !.f.json = FALSE]))

-----------------------------------------------------------------------------
(* Ends *)

Gone(r, b, how) == [b EXCEPT !.x = [NewRun EXCEPT !.phase = "gone"], !.seen.ends[r] = how]

\* ~Reporter(), which the application calls after finish()
Quit(r) ==
  /\ runs[r].phase = "finished"
  /\ \E taken \in {{}, Batch(r)} :
       LET b == SaveQueue([Of(r) EXCEPT !.seen.owed = @ \ taken])
       IN Becomes(r, Gone(r, [b EXCEPT !.f.crash = FALSE, !.f.lock = "none"], "closed"))

\* A crash writes its report; a kill writes nothing.  The server may have taken
\* the batch that was out.
End(r, how) ==
  /\ Begun(r)
  /\ \E taken \in {{}, Batch(r)} :
       LET b == [Of(r) EXCEPT !.f.lock = "stale", !.f.crash = (how = "crash"),
                              !.seen.owed = @ \ taken]
       IN Becomes(r, Gone(r, b, IF how = "killed" /\ runs[r].phase = "finished" THEN "closed" ELSE how))

\* Until record() has saved them, events of earlier runs are in memory only.
KilledInBegin(r) ==
  /\ Adopting(r)
  /\ Becomes(r, Gone(r, [Of(r) EXCEPT !.f.lock = "stale", !.seen.owed = @ \ ToSet(runs[r].queue)],
                     "begin"))

\* setEnabled(false): forget() and ForgetAll()
Forget(r) ==
  LET lost == {r} \cup {j \in Runs : files[j].lock # "held"}
  IN /\ runs[r].phase = "live"
     /\ runs' = [runs EXCEPT ![r] = [NewRun EXCEPT !.phase = "gone"]]
     /\ files' = [j \in Runs |-> IF j \in lost THEN NoFiles ELSE files[j]]
     /\ seen' = [seen EXCEPT !.ends = [j \in Runs |-> IF j \in lost /\ files[j] # NoFiles
                                                       THEN "forgotten" ELSE @[j]],
                             !.owed = @ \ (ToSet(runs[r].queue) \cup UNION {ToSet(files[j].queue) : j \in lost})]

Adopts(r) ==
  \/ \E j \in Runs : LookAt(r, j)
  \/ ReadCrash(r) \/ ReadMarker(r) \/ RemoveFile(r) \/ Start(r)
Serves(r) == Taken(r) \/ Refused(r) \/ Delayed(r)

Next == \E r \in Runs :
  \/ Begin(r) \/ Adopts(r)
  \/ RecordEvent(r) \/ SendTimer(r) \/ DelayEnds(r) \/ Serves(r)
  \/ Finish(r) \/ Quit(r) \/ End(r, "crash") \/ End(r, "killed") \/ KilledInBegin(r) \/ Forget(r)

Spec == Init /\ [][Next]_vars

\* Timers fire, and the server answers or the request ends.
Fairness == \A r \in Runs :
  WF_vars(SendTimer(r)) /\ WF_vars(DelayEnds(r)) /\ WF_vars(Serves(r))
FairSpec == Spec /\ Fairness

-----------------------------------------------------------------------------

Queues == UNION {ToSet(runs[r].queue) \cup ToSet(files[r].queue) : r \in Runs}

\* src/telemetry/README.md: events stay on disk "until the jam server takes
\* them": an answer drops what was in its batch and nothing else, however many
\* events came, overflowed or were taken over meanwhile.
EventsAreKept == seen.owed \subseteq Queues

Told(j, kind) == [of |-> j, as |-> kind] \in seen.told
Unread(j) == files[j] # NoFiles \/ \E r \in Runs : runs[r].reading.of = j

\* README: a dead run is reported, "crash if its .crash reads as a report,
\* otherwise unclean_exit from its .json", also when two runs look at once.
EndsAreToldRight == \A j \in Runs :
  /\ Told(j, "crash") => seen.ends[j] \in {"crash", "forgotten"}
  /\ Told(j, "unclean_exit") => seen.ends[j] \in {"killed", "forgotten"}
  /\ seen.ends[j] = "killed" /\ ~ Unread(j) => Told(j, "unclean_exit")
  /\ seen.ends[j] = "crash" /\ ~ Unread(j) => Told(j, "crash")

\* A run that stays alive does not keep events back for ever.
QueuesEmpty == \A r \in Runs : []<>(~ Begun(r) \/ runs[r].queue = <<>>)
=============================================================================
