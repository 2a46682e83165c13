-------------------------- MODULE DataTransferTask --------------------------
(***************************************************************************)
(* One dump: AsyncTask, DataTransferTask and GameCardImageDumpTask, and    *)
(* the DataTransferTaskFrame that shows it.  Two threads: the UI thread,   *)
(* which starts the task, polls it from a RepeatingTask every 100 ms,      *)
(* takes the B button and destroys the frame together with the task; and   *)
(* the background thread, which runs DoInBackground.                       *)
(*                                                                         *)
(* A poll runs under m_mtx from start to end and is one step; what the     *)
(* background thread does outside m_mtx is cut at each block.  Time is     *)
(* only whether a second has passed since the last progress update.        *)
(***************************************************************************)
EXTENDS Naturals

CONSTANTS
    Blocks,      \* blocks of the image, none of them empty
    MayThrow     \* DoInBackground may throw an exception

ASSUME BlocksAssumption == Blocks \in Nat \ {0} /\ MayThrow \in BOOLEAN

VARIABLES
    status,      \* m_status
    cancelled,   \* m_cancelled
    future,      \* m_future
    total,       \* m_progress.total_size
    xfer,        \* m_progress.xfer_size
    result,      \* m_result, set by Finish
    bg,          \* where the background thread is
    bgXfer,      \* its own count of blocks
    bgResult,    \* what the future holds
    file,        \* the output file
    finished,    \* the finished flag of the RepeatingTask
    prevXfer,    \* prev_xfer_size
    first,       \* first_publish_progress
    longRunning, \* g_longRunningProcess
    frame,       \* what the frame shows
    pops,        \* calls of popView
    note,        \* notification of the frame
    told,        \* a listener was called with the finished flag set
    object,      \* the task object
    crashed      \* an exception left the main loop

taskVars  == <<status, cancelled, result>>
bgVars    == <<bg, bgXfer, bgResult, file>>
uiVars    == <<finished, prevXfer, first, longRunning>>
frameVars == <<frame, pops, note, told>>
vars == <<taskVars, future, total, xfer, bgVars, uiVars, frameVars, object, crashed>>

TypeOK ==
    /\ status \in {"pending", "running", "finished"} /\ cancelled \in BOOLEAN
    /\ future \in {"none", "waiting", "ready", "taken"}
    /\ total \in {0, Blocks} /\ xfer \in 0..Blocks /\ bgXfer \in 0..Blocks
    /\ result \in {"none", "ok", "error"}
    /\ bg \in {"off", "size", "open", "loop", "io", "publish", "end"}
    /\ bgResult \in {"none", "ok", "error", "exception"}
    /\ file \in {"none", "partial", "whole", "removed"}
    /\ finished \in BOOLEAN /\ prevXfer \in 0..Blocks /\ first \in BOOLEAN
    /\ longRunning \in BOOLEAN
    /\ frame \in {"none", "progress", "error", "popped"} /\ pops \in Nat
    /\ note \in {"none", "complete", "cancelled"} /\ told \in BOOLEAN
    /\ object \in {"alive", "waiting", "gone"} /\ crashed \in BOOLEAN

Init ==
    /\ status = "pending" /\ cancelled = FALSE /\ future = "none" /\ result = "none"
    /\ total = 0 /\ xfer = 0
    /\ bg = "off" /\ bgXfer = 0 /\ bgResult = "none" /\ file = "none"
    /\ finished = FALSE /\ prevXfer = 0 /\ first = TRUE /\ longRunning = FALSE
    /\ frame = "none" /\ pops = 0 /\ note = "none" /\ told = FALSE
    /\ object = "alive" /\ crashed = FALSE
-----------------------------------------------------------------------------
(***************************************************************************)
(* The background thread.                                                  *)
(***************************************************************************)

\* PublishProgress.
PublishProgress(t, x) ==
    IF status = "running" /\ ~cancelled THEN total' = t /\ xfer' = x
    ELSE UNCHANGED <<total, xfer>>

\* DoInBackground returns or throws: the FileWriter is destroyed, the future
\* becomes ready.  An exception cancels the task.
Return(res) ==
    /\ bg' = "end" /\ bgResult' = res /\ future' = "ready"
    /\ file' = IF file = "none" THEN "none"
               ELSE IF bgXfer = Blocks THEN "whole" ELSE "removed"
    /\ cancelled' = (cancelled \/ res = "exception")

Failures == {"error"} \cup (IF MayThrow THEN {"exception"} ELSE {})

\* The image size is read and published.
BgSize ==
    /\ bg = "size"
    /\ \/ bg' = "open" /\ PublishProgress(Blocks, 0)
          /\ UNCHANGED <<cancelled, future, bgResult, file>>
       \/ \E res \in Failures : Return(res) /\ UNCHANGED <<total, xfer>>
    /\ UNCHANGED <<status, result, bgXfer, uiVars, frameVars, object, crashed>>

\* The output file is opened.
BgOpen ==
    /\ bg = "open"
    /\ \/ bg' = "loop" /\ file' = "partial"
          /\ UNCHANGED <<cancelled, future, bgResult>>
       \/ \E res \in Failures : Return(res)
    /\ UNCHANGED <<status, result, total, xfer, bgXfer, uiVars, frameVars, object, crashed>>

\* The condition of the dump loop, and the break on a cancel.
DumpEnds == bgXfer = Blocks \/ cancelled

\* The head of the dump loop.
BgLoop ==
    /\ bg = "loop"
    /\ IF DumpEnds THEN Return("ok")
       ELSE bg' = "io" /\ UNCHANGED <<cancelled, future, bgResult, file>>
    /\ UNCHANGED <<status, result, total, xfer, bgXfer, uiVars, frameVars, object, crashed>>

\* A block is read from the card and written to the file.
BgIo ==
    /\ bg = "io"
    /\ \/ bg' = "publish" /\ bgXfer' = bgXfer + 1
          /\ UNCHANGED <<cancelled, future, bgResult, file>>
       \/ bgXfer' = bgXfer /\ \E res \in Failures : Return(res)
    /\ UNCHANGED <<status, result, total, xfer, uiVars, frameVars, object, crashed>>

BgPublish ==
    /\ bg = "publish"
    /\ bg' = "loop" /\ PublishProgress(Blocks, bgXfer)
    /\ UNCHANGED <<taskVars, future, bgXfer, bgResult, file, uiVars, frameVars, object, crashed>>
-----------------------------------------------------------------------------
(***************************************************************************)
(* The UI thread: the frame and its task.                                  *)
(***************************************************************************)

\* The frame is built: OnPreExecute, then the thread is started.
Execute ==
    /\ status = "pending" /\ object = "alive"
    /\ status' = "running" /\ future' = "waiting" /\ bg' = "size"
    /\ longRunning' = TRUE
    /\ frame' = "progress"
    /\ UNCHANGED <<cancelled, result, total, xfer, bgXfer, bgResult, file, finished, prevXfer,
                   first, pops, note, told, object, crashed>>

\* Cancel: nothing happens once the task has finished.
Cancelled == cancelled \/ status # "finished"

\* onCancel of the frame: Cancel, popView.
Pop == frame' = "popped" /\ pops' = pops + 1

\* The listener returns early when the task was cancelled.
ListenerStops == cancelled

\* The frame's listener, with the finished flag and m_result as they are then.
Listener(fin, res) ==
    /\ told' = (told \/ fin)
    /\ \/ ListenerStops
          /\ note' = "cancelled" /\ UNCHANGED <<frame, pops>>
       \/ ~ListenerStops /\ ~fin
          /\ UNCHANGED <<frame, pops, note>>
       \/ ~ListenerStops /\ fin /\ res = "error"
          /\ frame' = "error" /\ UNCHANGED <<pops, note>>
       \/ ~ListenerStops /\ fin /\ res # "error"
          /\ note' = "complete" /\ Pop

\* Whether OnProgressUpdate fires the event, from the progress, the status and
\* whether a second has passed.
Progressed == xfer > prevXfer \/ (xfer = prevXfer /\ (total = 0 \/ xfer >= total \/ first))
Throttled(st, second) ==
    ~cancelled /\ ~second /\ ((total # 0 /\ xfer < total) \/ st = "running")

OnProgressUpdate(st, fin, res) ==
    \E second \in BOOLEAN :
        IF Progressed /\ ~Throttled(st, second)
        THEN prevXfer' = xfer /\ first' = FALSE /\ Listener(fin, res)
        ELSE UNCHANGED <<prevXfer, first, frameVars>>

Polls == status = "running" /\ object = "alive" /\ ~finished /\ ~crashed

\* LoopCallback while the thread runs.
PollProgress ==
    /\ Polls /\ future = "waiting"
    /\ OnProgressUpdate("running", finished, result)
    /\ UNCHANGED <<taskVars, future, total, xfer, bgVars, finished, longRunning, object, crashed>>

\* Mutant of Outcome: the error is dropped.
OutcomeDropped == "ok"

\* What GetResult returns after an empty or a set optional; an exception left
\* an empty one.
Outcome == IF bgResult = "error" THEN "error" ELSE "ok"

\* LoopCallback once the future is ready: Finish and PostExecutionCallback,
\* whose fireNow sets the finished flag before the last progress update.
PollFinish ==
    /\ Polls /\ future = "ready"
    /\ future' = "taken"
    /\ status' = "finished" /\ result' = Outcome
    /\ finished' = TRUE
    /\ OnProgressUpdate("finished", TRUE, Outcome)
    /\ longRunning' = FALSE
    /\ crashed' = (bgResult = "exception")
    /\ UNCHANGED <<cancelled, total, xfer, bgVars, object>>

\* The user presses B.  Pushing or popping a view blocks the input.
PressB ==
    /\ frame \in {"progress", "error"} /\ ~crashed
    /\ cancelled' = Cancelled
    /\ Pop
    /\ UNCHANGED <<status, result, future, total, xfer, bgVars, uiVars, note, told, object, crashed>>

\* Mutants of MustWait: the destructor waits for a finished task too; never.
MustWaitAlways == status # "pending"
MustWaitNever == FALSE

\* ~AsyncTask returns right away if the task is not running.
MustWait == status = "running"

\* The frame's destructor runs when its animation has ended; ~DataTransferTask
\* stops the RepeatingTask, ~AsyncTask cancels a running task and waits for it.
Destroy ==
    /\ frame = "popped" /\ object = "alive" /\ ~crashed
    /\ cancelled' = (cancelled \/ MustWait)
    /\ object' = IF MustWait THEN "waiting" ELSE "gone"
    /\ UNCHANGED <<status, result, future, total, xfer, bgVars, uiVars, frameVars, crashed>>

DestroyReturns ==
    /\ object = "waiting" /\ future = "ready"
    /\ object' = "gone"
    /\ UNCHANGED <<taskVars, future, total, xfer, bgVars, uiVars, frameVars, crashed>>
-----------------------------------------------------------------------------
Background == BgSize \/ BgOpen \/ BgLoop \/ BgIo \/ BgPublish
Poll == PollProgress \/ PollFinish
Ui == Execute \/ Poll \/ PressB \/ Destroy \/ DestroyReturns

Next == Background \/ Ui

Spec == Init /\ [][Next]_vars

\* The background thread runs and its I/O returns; the main loop polls, ends
\* its animations and runs the destructor.
FairSpec ==
    /\ Spec
    /\ WF_vars(Background) /\ WF_vars(PollFinish) /\ WF_vars(Destroy)
    /\ WF_vars(DestroyReturns)
-----------------------------------------------------------------------------
(***************************************************************************)
(* Properties.                                                             *)
(***************************************************************************)

\* The frame says what became of the file: complete only when it is whole, an
\* error only when it is not.
ReportIsTrue ==
    /\ note = "complete" => file = "whole"
    /\ frame = "error" => file # "whole" /\ result = "error"

\* However a cancel, the end of the thread and the polls interleave, the frame
\* takes one view off the stack: a second popView would take the menu below.
PopsOnce == pops <= 1

\* The task object outlives its thread.
ThreadEndsFirst == object = "gone" => bg \in {"off", "end"}

\* A frame the user left, or that closed itself, is destroyed in the end and
\* the UI thread is not left waiting for a thread that has gone.
FrameGoes == frame = "popped" ~> (object = "gone" \/ crashed)

\* Three things that documentation says and the code does not keep.

\* data_transfer_task.hpp: the last progress update reaches the listeners, so
\* that the frame learns that the task finished.
FinalUpdateDelivered == status = "finished" => told

\* nxdt_utils.h: the long running state ends with the process it was set for.
LongRunningEnds == object = "gone" => ~longRunning

\* async_task.hpp: a task counts as cancelled if it was cancelled before it
\* completed normally.
CancelledBeforeDone == [][file = "whole" /\ ~cancelled => ~cancelled']_vars
=============================================================================
