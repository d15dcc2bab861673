--------------------------- MODULE DesktopWorker ---------------------------
(***************************************************************************)
(* The desktop application: the user-interface thread starts an operation  *)
(* on a thread of its own, which reports progress and one result through a *)
(* channel; the user interface empties the channel at every frame.         *)
(*                                                                         *)
(* All operations write to one output path, which other programs create    *)
(* and remove.  What a panic does depends on the build: where panics       *)
(* unwind, it ends its thread without a result; the release profiles abort *)
(* on a panic, and it ends the application.                                *)
(***************************************************************************)
EXTENDS Naturals, Sequences

CONSTANTS
  Builds,    \* subset of {"unwind", "abort"}: what a panic does
  TOTAL,     \* reports of progress an operation makes at most
  MaxTasks   \* bound on the operations started

ASSUME WorkerAssumption ==
  TOTAL \in Nat /\ MaxTasks \in Nat /\ Builds \subseteq {"unwind", "abort"}

Ids   == 1..MaxTasks
None  == 0
Tasks == [op : {"encrypt", "decrypt", "inspect"}, sfx : BOOLEAN,
          force : BOOLEAN]

VARIABLES
  worker,     \* the operation whose receiver the application holds, or None
  busy,       \* the controls are disabled
  processed,  \* bytes shown
  status,     \* the line of text shown
  thread,     \* [state, task, bytes, result] of each operation's thread
  queue,      \* messages in each operation's channel
  exists,     \* there is a file at the output path
  started,    \* operations started so far
  shown,      \* history: results shown of each operation
  build,      \* the build that runs, one of Builds; never changes
  alive       \* the application runs

ui      == <<worker, busy, processed, status, started, shown>>
process == <<build, alive>>
vars    == <<ui, thread, queue, exists, process>>

(* panic = "abort" in the profile the application was built with.          *)
Aborts == build = "abort"

Progress(bytes)  == [kind |-> "progress", bytes |-> bytes]
Finished(result) == [kind |-> "finished", result |-> result]

(* Nothing has been started under this number, or its thread has ended;    *)
(* an ended thread has dropped its end of the channel.                     *)
Unborn == [state |-> "unborn"]

Init ==
  /\ worker = None /\ busy = FALSE /\ processed = 0 /\ status = "none"
  /\ started = 0
  /\ thread = [i \in Ids |-> Unborn]
  /\ queue = [i \in Ids |-> <<>>]
  /\ shown = [i \in Ids |-> <<>>]
  /\ exists \in BOOLEAN
  /\ build \in Builds /\ alive = TRUE

Taken(task) == exists /\ ~task.force
-----------------------------------------------------------------------------
(* Mutant: the bytes of the operation before stay on display. *)
KeepProgressMutant(task) ==
  /\ started' = started + 1
  /\ worker' = started' /\ busy' = TRUE /\ status' = "processing"
  /\ thread' = [thread EXCEPT ![started'] =
                  [state |-> "begun", task |-> task, bytes |-> 0,
                   result |-> "none"]]
  /\ UNCHANGED <<processed, queue, shown>>

StartTask(task) ==
  /\ started' = started + 1
  /\ worker' = started' /\ busy' = TRUE /\ status' = "processing"
  /\ processed' = 0
  /\ thread' = [thread EXCEPT ![started'] =
                  [state |-> "begun", task |-> task, bytes |-> 0,
                   result |-> "none"]]
  /\ UNCHANGED <<queue, shown>>

(* begin_selected_operation, from an enabled button; the dialog may also   *)
(* be cancelled or give the input path, which changes at most the status.  *)
Begin(task) ==
  /\ ~busy /\ started < MaxTasks
  /\ task.sfx => task.op = "encrypt"
  /\ IF task.op # "inspect" /\ Taken(task)
     THEN /\ status' = "error"
          /\ UNCHANGED <<worker, busy, processed, started, shown, thread,
                         queue>>
     ELSE StartTask(task)
  /\ UNCHANGED exists

(* The other controls: choosing another mode or file clears the status,    *)
(* generating a key pair sets it.                                          *)
UseControls ==
  /\ ~busy
  /\ status' \in {"none", "success", "error"}
  /\ UNCHANGED <<worker, busy, processed, started, shown, thread, queue,
                 exists>>

Show(result) ==
  /\ busy' = FALSE /\ worker' = None
  /\ status' = result
  /\ shown' = [shown EXCEPT ![worker] = Append(@, result)]
  /\ UNCHANGED <<processed, started>>

PollMessage ==
  /\ worker # None
  /\ queue[worker] # <<>>
  /\ queue' = [queue EXCEPT ![worker] = Tail(@)]
  /\ LET message == Head(queue[worker])
     IN  IF message.kind = "progress"
         THEN /\ processed' = message.bytes
              /\ UNCHANGED <<worker, busy, status, started, shown>>
         ELSE Show(message.result)
  /\ UNCHANGED <<thread, exists>>

(* Mutant: an empty channel is taken for a closed one. *)
EmptyIsClosedMutant ==
  /\ worker # None
  /\ queue[worker] = <<>>
  /\ Show("unexpected")
  /\ UNCHANGED <<thread, queue, exists>>

(* Mutant: a closed channel is taken for an empty one. *)
ClosedIsEmptyMutant ==
  worker # None /\ queue[worker] = <<>> /\ UNCHANGED vars

(* try_recv reports a closed channel only when it is empty. *)
PollDisconnected ==
  /\ worker # None
  /\ queue[worker] = <<>> /\ thread[worker].state = "ended"
  /\ Show("unexpected")
  /\ UNCHANGED <<thread, queue, exists>>

(* One pass of the loop in poll_worker. *)
Poll == alive /\ (PollMessage \/ PollDisconnected) /\ UNCHANGED process
-----------------------------------------------------------------------------
Go(i, state) == thread' = [thread EXCEPT ![i].state = state]

(* run_task returns. *)
Return(i, result) ==
  thread' = [thread EXCEPT ![i].state = "returned", ![i].result = result]

(* run_task and the checks at the beginning of run_crypto.                 *)
CheckTask(i) ==
  /\ thread[i].state = "begun"
  /\ LET task == thread[i].task
     IN  IF task.op = "inspect" THEN Return(i, "success")
         ELSE IF Taken(task) THEN Return(i, "error")
         ELSE Go(i, "crypto")
  /\ UNCHANGED <<ui, queue, exists>>

(* Mutant: one report more than there are batches. *)
ExtraReportMutant(i) ==
  /\ thread[i].state = "crypto"
  /\ thread[i].bytes <= TOTAL
  /\ thread' = [thread EXCEPT ![i].bytes = @ + 1]
  /\ queue' = [queue EXCEPT ![i] = Append(@, Progress(thread'[i].bytes))]
  /\ UNCHANGED <<ui, exists>>

(* The progress callback, after a batch. *)
ReportProgress(i) ==
  /\ thread[i].state = "crypto"
  /\ thread[i].bytes < TOTAL
  /\ thread' = [thread EXCEPT ![i].bytes = @ + 1]
  /\ queue' = [queue EXCEPT ![i] = Append(@, Progress(thread'[i].bytes))]
  /\ UNCHANGED <<ui, exists>>

(* The stream ends and replaces the output path; see EncryptStream and     *)
(* DecryptStream.  For a self-extractor its output is a private directory. *)
FinishCrypto(i) ==
  /\ thread[i].state = "crypto"
  /\ IF thread[i].task.sfx
     THEN Go(i, "sfx") /\ UNCHANGED exists
     ELSE exists' = TRUE /\ Return(i, "success")
  /\ UNCHANGED <<ui, queue>>

(* build_sfx_file: without force the rename does not replace. *)
BuildSfx(i) ==
  /\ thread[i].state = "sfx"
  /\ IF Taken(thread[i].task)
     THEN Return(i, "error") /\ UNCHANGED exists
     ELSE exists' = TRUE /\ Return(i, "success")
  /\ UNCHANGED <<ui, queue>>

Running(i) == thread[i].state \in {"begun", "crypto", "sfx"}

(* Any error of the operation. *)
Fail(i) ==
  /\ Running(i)
  /\ Return(i, "error")
  /\ UNCHANGED <<ui, queue, exists>>

(* A panic unwinds the thread and drops the sender, or ends the process.   *)
Panic(i) ==
  /\ Running(i)
  /\ IF Aborts
     THEN alive' = FALSE /\ UNCHANGED thread
     ELSE /\ thread' = [thread EXCEPT ![i].state = "ended",
                                      ![i].result = "unexpected"]
          /\ UNCHANGED alive
  /\ UNCHANGED <<ui, queue, exists, build>>

SendResult(i) ==
  /\ thread[i].state = "returned"
  /\ queue' = [queue EXCEPT ![i] = Append(@, Finished(thread[i].result))]
  /\ Go(i, "ended")
  /\ UNCHANGED <<ui, exists>>

Work(i) ==
  /\ alive
  /\ \/ CheckTask(i) \/ ReportProgress(i) \/ FinishCrypto(i) \/ BuildSfx(i)
     \/ SendResult(i)
  /\ UNCHANGED process

(* Another program creates or removes the output file. *)
EditOutput ==
  /\ exists' = ~exists
  /\ UNCHANGED <<ui, thread, queue>>

Next ==
  \/ \E task \in Tasks : alive /\ Begin(task) /\ UNCHANGED process
  \/ alive /\ UseControls /\ UNCHANGED process
  \/ Poll
  \/ \E i \in Ids : Work(i)
  \/ \E i \in Ids : alive /\ Fail(i) /\ UNCHANGED process
  \/ \E i \in Ids : alive /\ Panic(i)
  \/ EditOutput /\ UNCHANGED process

(* While it is busy the application asks for a frame every 100 ms, and the *)
(* threads are scheduled.                                                  *)
Spec ==
  Init /\ [][Next]_vars /\ WF_vars(Poll) /\ \A i \in Ids : WF_vars(Work(i))
-----------------------------------------------------------------------------
Results == {"success", "error", "unexpected"}

TypeOK ==
  /\ worker \in Ids \cup {None} /\ busy \in BOOLEAN
  /\ processed \in 0..TOTAL
  /\ status \in Results \cup {"none", "processing"}
  /\ started \in 0..MaxTasks
  /\ exists \in BOOLEAN /\ alive \in BOOLEAN /\ build \in Builds
  /\ \A i \in Ids :
       \/ thread[i] = Unborn
       \/ /\ thread[i].task \in Tasks
          /\ thread[i].bytes \in 0..TOTAL
          /\ thread[i].result \in Results \cup {"none"}

(* The application shows of every operation at most one result, and it is  *)
(* the one its thread ended with: "ended unexpectedly" only after a panic. *)
(* While one operation runs no other does, and "Processing..." is on       *)
(* display exactly then.                                                   *)
OneOutcome ==
  /\ \A i \in Ids :
       shown[i] # <<>> =>
         thread[i].state = "ended" /\ shown[i] = <<thread[i].result>>
  /\ \A i \in Ids \ {worker} : thread[i].state \in {"unborn", "ended"}
  /\ busy = (worker # None) /\ busy = (status = "processing")

(* The bytes on display are never more than the operation on display has   *)
(* processed, and during one operation they never go back.                 *)
ProgressOfTask ==
  [][busy' => /\ processed' <= thread'[worker'].bytes
              /\ worker' = worker => processed' >= processed]_vars

(* Every operation's result is shown in the end, after an error too, and   *)
(* the controls are then enabled again.  After a panic that holds only in  *)
(* a build that unwinds; the one way for a result to stay away is that a   *)
(* panic ended the application, in a build that aborts.                    *)
ResultArrives ==
  \A i \in Ids : started >= i ~> shown[i] # <<>> \/ (Aborts /\ ~alive)
=============================================================================
