------------------------ MODULE DesktopWorkerProofs ------------------------
(***************************************************************************)
(* Proofs about DesktopWorker, for any number of operations and of reports *)
(* and every interleaving of the user interface, the threads and other     *)
(* programs: every operation shows one outcome, its own, and the bytes on  *)
(* display are those of the operation on display, in every build.          *)
(***************************************************************************)
EXTENDS DesktopWorker, SequenceTheorems, TLAPS

Threads ==
  [state : {"begun", "crypto", "sfx", "returned", "ended"}, task : Tasks,
   bytes : 0..TOTAL, result : Results \cup {"none"}]

Messages ==
  [kind : {"progress"}, bytes : 0..TOTAL] \cup [kind : {"finished"}, result : Results]

(* What may be in the channel q of a thread t while low bytes are shown:   *)
(* reports that do not go back, none below what is shown or above what is  *)
(* done, and behind them, when the thread has ended and did not panic, its *)
(* result.                                                                 *)
QueueOK(q, t, low) ==
  /\ \A j \in 1..Len(q) :
       \/ q[j].kind = "progress" /\ low <= q[j].bytes /\ q[j].bytes <= t.bytes
       \/ /\ q[j].kind = "finished" /\ j = Len(q)
          /\ t.state = "ended" /\ q[j].result = t.result
  /\ \A j, k \in 1..Len(q) :
       j < k /\ q[k].kind = "progress" => q[j].bytes <= q[k].bytes
  /\ t.state = "ended" =>
       t.result = "unexpected" \/ (q # <<>> /\ q[Len(q)].kind = "finished")

(* The types of the variables, and threads as they are numbered.           *)
ShapeInv ==
  /\ worker \in Ids \cup {None} /\ busy \in BOOLEAN /\ processed \in 0..TOTAL
  /\ status \in Results \cup {"none", "processing"}
  /\ started \in 0..MaxTasks /\ exists \in BOOLEAN
  /\ thread \in [Ids -> {Unborn} \cup Threads]
  /\ queue \in [Ids -> Seq(Messages)]
  /\ shown \in [Ids -> Seq(Results)]
  /\ \A i \in Ids : i > started => thread[i] = Unborn /\ shown[i] = <<>>

(* The operation on display is the last one started. *)
WorkerInv ==
  worker # None =>
    /\ worker = started
    /\ thread[worker] \in Threads /\ shown[worker] = <<>>
    /\ processed <= thread[worker].bytes
    /\ thread[worker].state \in {"returned", "ended"} =>
         thread[worker].result \in Results
    /\ QueueOK(queue[worker], thread[worker], processed)

(* All the others have ended, and everything they sent has been seen.      *)
OthersInv ==
  \A i \in Ids \ {worker} :
    /\ thread[i].state \in {"unborn", "ended"}
    /\ queue[i] = <<>>
    /\ shown[i] # <<>> =>
         thread[i].state = "ended" /\ shown[i] = <<thread[i].result>>

BusyInv == busy = (worker # None) /\ busy = (status = "processing")

DInv == ShapeInv /\ WorkerInv /\ OthersInv /\ BusyInv

ProcessInv == alive \in BOOLEAN /\ build \in Builds
-----------------------------------------------------------------------------
LEMMA QueueKept ==
  ASSUME NEW q \in Seq(Messages), NEW t, NEW u, NEW low, QueueOK(q, t, low),
         t.state # "ended", u.bytes = t.bytes,
         u.state # "ended" \/ u.result = "unexpected"
  PROVE  QueueOK(q, u, low)
BY DEF QueueOK

LEMMA ReportQueued ==
  ASSUME NEW q \in Seq(Messages), NEW t \in Threads, NEW u \in Threads,
         NEW low \in Nat, QueueOK(q, t, low), low <= t.bytes,
         t.state # "ended", u.state # "ended", u.bytes = t.bytes + 1
  PROVE  /\ Append(q, Progress(u.bytes)) \in Seq(Messages)
         /\ QueueOK(Append(q, Progress(u.bytes)), u, low)
<1> DEFINE m == Progress(u.bytes)
           r == Append(q, m)
           n == Len(q)
<1>1. /\ t.bytes \in Nat /\ u.bytes \in 0..TOTAL /\ n \in Nat
  BY LenProperties, WorkerAssumption DEF Threads
<1>2. m \in Messages /\ m.kind = "progress" /\ m.bytes = u.bytes
  BY <1>1 DEF Progress, Messages
<1> HIDE DEF m
<1>3. /\ r \in Seq(Messages) /\ Len(r) = n + 1 /\ r[n + 1] = m
      /\ \A j \in 1..n : r[j] = q[j]
  BY <1>2, AppendProperties
<1> HIDE DEF r
<1>4. \A j \in 1..n : /\ q[j].kind = "progress"
                      /\ low <= q[j].bytes /\ q[j].bytes <= t.bytes
                      /\ q[j].bytes \in Nat
  <2> TAKE j \in 1..n
  <2>1. /\ q[j].kind = "progress" /\ low <= q[j].bytes /\ q[j].bytes <= t.bytes
    BY DEF QueueOK
  <2>2. q[j] \in Messages
    BY <1>1, ElementOfSeq
  <2>3. q[j].bytes \in Nat
    BY <2>1, <2>2, WorkerAssumption DEF Messages
  <2> QED
    BY <2>1, <2>3
<1>5. \A j \in 1..Len(r) : /\ r[j].kind = "progress" /\ low <= r[j].bytes
                           /\ r[j].bytes <= u.bytes
  <2> TAKE j \in 1..Len(r)
  <2>1. CASE j = n + 1
    BY <1>1, <1>2, <1>3, <2>1
  <2>2. CASE j \in 1..n
    BY <1>1, <1>3, <1>4, <2>2
  <2>3. j = n + 1 \/ j \in 1..n
    BY <1>1, <1>3
  <2> QED
    BY <2>1, <2>2, <2>3
<1>6. ASSUME NEW j \in 1..Len(r), NEW k \in 1..Len(r), j < k
      PROVE  r[j].bytes <= r[k].bytes
  <2>1. j \in 1..n
    BY <1>1, <1>3, <1>6
  <2>2. CASE k = n + 1
    BY <1>1, <1>2, <1>3, <1>4, <2>1, <2>2
  <2>3. CASE k \in 1..n
    BY <1>3, <1>4, <1>6, <2>1, <2>3 DEF QueueOK
  <2>4. k = n + 1 \/ k \in 1..n
    BY <1>1, <1>3
  <2> QED
    BY <2>2, <2>3, <2>4
<1> QED
  BY <1>3, <1>5, <1>6 DEF QueueOK, r, m

LEMMA ResultQueued ==
  ASSUME NEW q \in Seq(Messages), NEW t \in Threads, NEW u,
         NEW low \in Nat, QueueOK(q, t, low),
         t.state # "ended", t.result \in Results,
         u.state = "ended", u.bytes = t.bytes, u.result = t.result
  PROVE  /\ Append(q, Finished(t.result)) \in Seq(Messages)
         /\ QueueOK(Append(q, Finished(t.result)), u, low)
<1> DEFINE m == Finished(t.result)
           r == Append(q, m)
           n == Len(q)
<1>1. n \in Nat
  BY LenProperties
<1>2. m \in Messages /\ m.kind = "finished" /\ m.result = t.result
  BY DEF Finished, Messages
<1> HIDE DEF m
<1>3. /\ r \in Seq(Messages) /\ Len(r) = n + 1 /\ r[n + 1] = m
      /\ \A j \in 1..n : r[j] = q[j]
  BY <1>2, AppendProperties
<1>4. r # <<>>
  BY <1>1, <1>3, EmptySeq
<1> HIDE DEF r
<1>5. \A j \in 1..Len(r) :
        \/ r[j].kind = "progress" /\ low <= r[j].bytes /\ r[j].bytes <= u.bytes
        \/ /\ r[j].kind = "finished" /\ j = Len(r)
           /\ u.state = "ended" /\ r[j].result = u.result
  <2> TAKE j \in 1..Len(r)
  <2>1. CASE j = n + 1
    BY <1>2, <1>3, <2>1
  <2>2. CASE j \in 1..n
    BY <1>3, <2>2 DEF QueueOK
  <2>3. j = n + 1 \/ j \in 1..n
    BY <1>1, <1>3
  <2> QED
    BY <2>1, <2>2, <2>3
<1>6. ASSUME NEW j \in 1..Len(r), NEW k \in 1..Len(r), j < k, r[k].kind = "progress"
      PROVE  r[j].bytes <= r[k].bytes
  <2>1. k # n + 1
    BY <1>2, <1>3, <1>6
  <2>2. k \in 1..n /\ j \in 1..n
    BY <1>1, <1>3, <1>6, <2>1
  <2> QED
    BY <1>3, <1>6, <2>2 DEF QueueOK
<1> QED
  BY <1>2, <1>3, <1>4, <1>5, <1>6 DEF QueueOK, r, m

LEMMA ReportSeen ==
  ASSUME NEW q \in Seq(Messages), NEW t, NEW low, QueueOK(q, t, low),
         q # <<>>, Head(q).kind = "progress"
  PROVE  /\ Tail(q) \in Seq(Messages)
         /\ low <= Head(q).bytes /\ Head(q).bytes <= t.bytes
         /\ Head(q).bytes \in 0..TOTAL
         /\ QueueOK(Tail(q), t, Head(q).bytes)
<1> DEFINE r == Tail(q)
           n == Len(q)
<1>1. /\ n \in Nat /\ n > 0 /\ Head(q) = q[1] /\ q[1] \in Messages
      /\ r \in Seq(Messages) /\ Len(r) = n - 1
      /\ \A j \in 1..Len(r) : r[j] = q[j + 1]
  BY LenProperties, EmptySeq, HeadTailProperties, ElementOfSeq
<1>2. low <= q[1].bytes /\ q[1].bytes <= t.bytes /\ q[1].bytes \in 0..TOTAL
  <2>1. 1 \in 1..n
    BY <1>1
  <2>2. low <= q[1].bytes /\ q[1].bytes <= t.bytes
    BY <1>1, <2>1 DEF QueueOK
  <2>3. q[1].bytes \in 0..TOTAL
    BY <1>1 DEF Messages
  <2> QED
    BY <2>2, <2>3
<1> HIDE DEF r
<1>3. \A j \in 1..Len(r) :
        \/ r[j].kind = "progress" /\ q[1].bytes <= r[j].bytes /\ r[j].bytes <= t.bytes
        \/ /\ r[j].kind = "finished" /\ j = Len(r)
           /\ t.state = "ended" /\ r[j].result = t.result
  <2> TAKE j \in 1..Len(r)
  <2>1. /\ j + 1 \in 1..n /\ 1 \in 1..n /\ 1 < j + 1 /\ r[j] = q[j + 1]
        /\ j + 1 = n => j = Len(r)
    BY <1>1
  <2> QED
    BY <2>1 DEF QueueOK
<1>4. ASSUME NEW j \in 1..Len(r), NEW k \in 1..Len(r), j < k, r[k].kind = "progress"
      PROVE  r[j].bytes <= r[k].bytes
  <2>1. /\ j + 1 \in 1..n /\ k + 1 \in 1..n /\ j + 1 < k + 1
        /\ r[j] = q[j + 1] /\ r[k] = q[k + 1]
    BY <1>1, <1>4
  <2> QED
    BY <1>4, <2>1 DEF QueueOK
<1>5. t.state = "ended" =>
        t.result = "unexpected" \/ (r # <<>> /\ r[Len(r)].kind = "finished")
  <2> SUFFICES ASSUME t.state = "ended", t.result # "unexpected"
               PROVE  r # <<>> /\ r[Len(r)].kind = "finished"
    OBVIOUS
  <2>1. q[n].kind = "finished"
    BY DEF QueueOK
  <2>2. n # 1
    BY <1>1, <2>1
  <2>3. Len(r) \in 1..Len(r) /\ Len(r) + 1 = n
    BY <1>1, <2>2
  <2>4. r # <<>>
    BY <2>3, EmptySeq
  <2> QED
    BY <1>1, <2>1, <2>3, <2>4
<1> QED
  BY <1>1, <1>2, <1>3, <1>4, <1>5 DEF QueueOK, r

LEMMA ResultSeen ==
  ASSUME NEW q \in Seq(Messages), NEW t, NEW low, QueueOK(q, t, low),
         q # <<>>, Head(q).kind # "progress"
  PROVE  Tail(q) = <<>> /\ t.state = "ended" /\ Head(q).result = t.result
<1> DEFINE r == Tail(q)
           n == Len(q)
<1>1. /\ n \in Nat /\ n > 0 /\ Head(q) = q[1] /\ 1 \in 1..n
      /\ r \in Seq(Messages) /\ Len(r) = n - 1
  BY LenProperties, EmptySeq, HeadTailProperties
<1>2. t.state = "ended" /\ q[1].result = t.result /\ 1 = n
  BY <1>1 DEF QueueOK
<1> HIDE DEF r, n
<1>3. Len(r) = 0
  BY <1>1, <1>2
<1>4. r = <<>>
  BY <1>1, <1>3, EmptySeq
<1> QED
  BY <1>1, <1>2, <1>4 DEF r
-----------------------------------------------------------------------------
LEMMA InitInv == Init => DInv
<1> SUFFICES ASSUME Init PROVE DInv
  OBVIOUS
<1>1. ShapeInv
  <2>1. \A S : <<>> \in Seq(S)
    BY EmptySeq
  <2>2. /\ thread \in [Ids -> {Unborn} \cup Threads]
        /\ queue \in [Ids -> Seq(Messages)] /\ shown \in [Ids -> Seq(Results)]
        /\ \A i \in Ids : thread[i] = Unborn /\ shown[i] = <<>>
    BY <2>1 DEF Init
  <2>3. 0 \in 0..TOTAL /\ 0 \in 0..MaxTasks
    BY WorkerAssumption
  <2>4. processed = 0 /\ started = 0 /\ worker = None /\ status = "none"
        /\ busy = FALSE /\ exists \in BOOLEAN
    BY DEF Init
  <2> QED
    BY <2>2, <2>3, <2>4 DEF ShapeInv
<1>2. WorkerInv
  BY DEF Init, WorkerInv
<1>3. OthersInv
  BY DEF Init, OthersInv, Unborn
<1>4. BusyInv
  BY DEF Init, BusyInv
<1> QED
  BY <1>1, <1>2, <1>3, <1>4 DEF DInv

(* A step of the thread i, which has not ended: it becomes u, its channel r. *)
LEMMA ThreadStep ==
  ASSUME DInv, NEW i \in Ids, thread[i].state \notin {"unborn", "ended"},
         NEW u \in Threads, thread' = [thread EXCEPT ![i] = u],
         NEW r \in Seq(Messages), queue' = [queue EXCEPT ![i] = r],
         UNCHANGED ui, exists' \in BOOLEAN,
         processed <= u.bytes,
         u.state \in {"returned", "ended"} => u.result \in Results,
         QueueOK(r, u, processed)
  PROVE  DInv'
<1> USE DEF DInv, ui
<1>1. i = worker /\ worker # None
  BY DEF OthersInv, Ids, None
<1>2. /\ thread'[i] = u /\ queue'[i] = r
      /\ \A k \in Ids \ {i} : thread'[k] = thread[k] /\ queue'[k] = queue[k]
      /\ thread' \in [Ids -> {Unborn} \cup Threads]
      /\ queue' \in [Ids -> Seq(Messages)]
  BY DEF ShapeInv
<1>3. ShapeInv'
  <2>1. i <= started
    BY <1>1, WorkerAssumption DEF WorkerInv, ShapeInv
  <2>2. \A k \in Ids : k > started => k # i
    BY <2>1, WorkerAssumption DEF Ids, ShapeInv
  <2> QED
    BY <1>2, <2>2 DEF ShapeInv
<1>4. WorkerInv'
  BY <1>1, <1>2 DEF WorkerInv
<1>5. OthersInv'
  BY <1>1, <1>2 DEF OthersInv
<1>6. BusyInv'
  BY DEF BusyInv
<1> QED
  BY <1>3, <1>4, <1>5, <1>6

(* What is known of a thread that has not ended. *)
LEMMA Working ==
  ASSUME DInv, NEW i \in Ids, thread[i].state \notin {"unborn", "ended"}
  PROVE  /\ i = worker /\ thread[i] \in Threads /\ queue[i] \in Seq(Messages)
         /\ processed \in Nat /\ processed <= thread[i].bytes
         /\ thread[i].state = "returned" => thread[i].result \in Results
         /\ QueueOK(queue[i], thread[i], processed)
<1>1. i = worker /\ worker # None
  BY DEF DInv, OthersInv, Ids, None
<1> QED
  BY <1>1, WorkerAssumption DEF DInv, WorkerInv, ShapeInv

(* A step that sends nothing and reports nothing. *)
LEMMA QuietStep ==
  ASSUME DInv, NEW i \in Ids, thread[i].state \notin {"unborn", "ended"},
         NEW u \in Threads, thread' = [thread EXCEPT ![i] = u],
         u.bytes = thread[i].bytes,
         u.state # "ended" \/ u.result = "unexpected",
         u.state \in {"returned", "ended"} => u.result \in Results,
         UNCHANGED <<ui, queue>>, exists' \in BOOLEAN
  PROVE  DInv'
<1>1. /\ queue[i] \in Seq(Messages) /\ processed <= u.bytes
      /\ QueueOK(queue[i], thread[i], processed)
  BY Working
<1>2. QueueOK(queue[i], u, processed)
  BY <1>1, QueueKept
<1>3. queue' = [queue EXCEPT ![i] = queue[i]]
  BY DEF DInv, ShapeInv
<1> QED
  BY <1>1, <1>2, <1>3, ThreadStep

LEMMA Moved ==
  ASSUME DInv, NEW i \in Ids, thread[i].state \notin {"unborn", "ended"},
         NEW state \in {"crypto", "sfx", "returned", "ended"},
         NEW result \in Results \cup {"none"},
         thread' = [thread EXCEPT ![i] =
                      [thread[i] EXCEPT !.state = state, !.result = result]],
         state # "ended" \/ result = "unexpected",
         state = "returned" => result \in Results,
         UNCHANGED <<ui, queue>>, exists' \in BOOLEAN
  PROVE  DInv'
<1> DEFINE u == [thread[i] EXCEPT !.state = state, !.result = result]
<1>1. thread[i] \in Threads
  BY Working
<1>2. /\ u \in Threads /\ u.bytes = thread[i].bytes
      /\ u.state = state /\ u.result = result
  BY <1>1 DEF Threads
<1>3. thread' = [thread EXCEPT ![i] = u]
  OBVIOUS
<1>4. /\ u.state # "ended" \/ u.result = "unexpected"
      /\ u.state \in {"returned", "ended"} => u.result \in Results
  BY <1>2 DEF Results
<1> HIDE DEF u
<1> QED
  BY <1>2, <1>3, <1>4, QuietStep

LEMMA Returned ==
  ASSUME DInv, NEW i \in Ids, thread[i].state \notin {"unborn", "ended"},
         NEW result \in Results, Return(i, result),
         UNCHANGED <<ui, queue>>, exists' \in BOOLEAN
  PROVE  DInv'
<1>1. thread' = [thread EXCEPT ![i] =
                   [thread[i] EXCEPT !.state = "returned", !.result = result]]
  BY DEF Return
<1> QED
  BY <1>1, Moved

LEMMA Gone ==
  ASSUME DInv, NEW i \in Ids, thread[i].state \notin {"unborn", "ended"},
         NEW state \in {"crypto", "sfx"}, Go(i, state),
         UNCHANGED <<ui, queue>>, exists' \in BOOLEAN
  PROVE  DInv'
<1>1. thread[i] \in Threads
  BY Working
<1>2. /\ thread' = [thread EXCEPT ![i] =
                      [thread[i] EXCEPT !.state = state, !.result = thread[i].result]]
      /\ thread[i].result \in Results \cup {"none"}
  BY <1>1 DEF Go, Threads
<1> QED
  BY <1>2, Moved

(* The steps of a thread before it sends its result. *)
LEMMA TaskStep ==
  ASSUME DInv, NEW i \in Ids,
         CheckTask(i) \/ FinishCrypto(i) \/ BuildSfx(i) \/ Fail(i) \/ (Panic(i) /\ ~Aborts)
  PROVE  DInv'
<1>1. "success" \in Results /\ "error" \in Results /\ "unexpected" \in Results
  BY DEF Results
<1>2. exists \in BOOLEAN
  BY DEF DInv, ShapeInv
<1>3. CASE CheckTask(i)
  <2>1. /\ thread[i].state \notin {"unborn", "ended"}
        /\ UNCHANGED <<ui, queue>> /\ exists' \in BOOLEAN
        /\ Return(i, "success") \/ Return(i, "error") \/ Go(i, "crypto")
    BY <1>2, <1>3 DEF CheckTask
  <2> QED
    BY <1>1, <2>1, Returned, Gone
<1>4. CASE FinishCrypto(i)
  <2>1. /\ thread[i].state \notin {"unborn", "ended"}
        /\ UNCHANGED <<ui, queue>> /\ exists' \in BOOLEAN
        /\ Return(i, "success") \/ Go(i, "sfx")
    BY <1>2, <1>4 DEF FinishCrypto
  <2> QED
    BY <1>1, <2>1, Returned, Gone
<1>5. CASE BuildSfx(i)
  <2>1. /\ thread[i].state \notin {"unborn", "ended"}
        /\ UNCHANGED <<ui, queue>> /\ exists' \in BOOLEAN
        /\ Return(i, "success") \/ Return(i, "error")
    BY <1>2, <1>5 DEF BuildSfx
  <2> QED
    BY <1>1, <2>1, Returned
<1>6. CASE Fail(i)
  <2>1. /\ thread[i].state \notin {"unborn", "ended"}
        /\ UNCHANGED <<ui, queue>> /\ exists' \in BOOLEAN /\ Return(i, "error")
    BY <1>2, <1>6 DEF Fail, Running
  <2> QED
    BY <1>1, <2>1, Returned
<1>7. CASE Panic(i) /\ ~Aborts
  <2>1. /\ thread[i].state \notin {"unborn", "ended"}
        /\ UNCHANGED <<ui, queue>> /\ exists' \in BOOLEAN
        /\ thread' = [thread EXCEPT ![i] = [thread[i] EXCEPT
                         !.state = "ended", !.result = "unexpected"]]
    BY <1>2, <1>7 DEF Panic, Running
  <2> QED
    BY <1>1, <2>1, Moved
<1> QED
  BY <1>3, <1>4, <1>5, <1>6, <1>7

LEMMA ReportProgressStep ==
  ASSUME DInv, NEW i \in Ids, ReportProgress(i)
  PROVE  DInv'
<1> DEFINE t == thread[i]
           u == [t EXCEPT !.bytes = t.bytes + 1]
           r == Append(queue[i], Progress(u.bytes))
<1>1. /\ t \in Threads /\ t.state = "crypto" /\ t.bytes < TOTAL
      /\ queue[i] \in Seq(Messages) /\ QueueOK(queue[i], t, processed)
      /\ processed \in Nat /\ processed <= t.bytes
      /\ UNCHANGED ui /\ exists' \in BOOLEAN
  BY Working DEF ReportProgress, DInv, ShapeInv
<1>2. t.bytes \in Nat /\ t.bytes + 1 \in 0..TOTAL
  BY <1>1, WorkerAssumption DEF Threads
<1>3. /\ u \in Threads /\ u.state = "crypto" /\ u.bytes = t.bytes + 1
  BY <1>1, <1>2 DEF Threads
<1>4. thread' = [thread EXCEPT ![i] = u]
  BY DEF ReportProgress
<1>5. thread \in [Ids -> {Unborn} \cup Threads]
  BY DEF DInv, ShapeInv
<1>6. thread'[i] = u
  BY <1>4, <1>5
<1>7. queue' = [queue EXCEPT ![i] = r]
  BY <1>6 DEF ReportProgress
<1>8. processed <= u.bytes
  BY <1>1, <1>2, <1>3
<1> HIDE DEF u
<1>9. r \in Seq(Messages) /\ QueueOK(r, u, processed)
  BY <1>1, <1>3, ReportQueued
<1> HIDE DEF r
<1>10. u.state \notin {"returned", "ended"} /\ t.state \notin {"unborn", "ended"}
  BY <1>1, <1>3
<1> QED
  BY <1>1, <1>3, <1>4, <1>7, <1>8, <1>9, <1>10, ThreadStep

LEMMA SendResultStep ==
  ASSUME DInv, NEW i \in Ids, SendResult(i)
  PROVE  DInv'
<1> DEFINE t == thread[i]
           u == [t EXCEPT !.state = "ended"]
           r == Append(queue[i], Finished(t.result))
<1>1. /\ t.state = "returned"
      /\ UNCHANGED ui /\ exists' \in BOOLEAN
      /\ queue' = [queue EXCEPT ![i] = r]
      /\ thread' = [thread EXCEPT ![i] = u]
  BY DEF SendResult, Go, DInv, ShapeInv
<1>2. /\ t \in Threads /\ t.result \in Results
      /\ queue[i] \in Seq(Messages) /\ QueueOK(queue[i], t, processed)
      /\ processed \in Nat /\ processed <= t.bytes
  BY <1>1, Working
<1>3. /\ u \in Threads /\ u.state = "ended" /\ u.bytes = t.bytes
      /\ u.result = t.result
  BY <1>2 DEF Threads
<1> HIDE DEF u
<1>4. r \in Seq(Messages) /\ QueueOK(r, u, processed)
  BY <1>1, <1>2, <1>3, ResultQueued
<1> HIDE DEF r
<1> QED
  BY <1>1, <1>2, <1>3, <1>4, ThreadStep
-----------------------------------------------------------------------------
(* Only the line of text and the output file change. *)
LEMMA DisplayStep ==
  ASSUME DInv,
         UNCHANGED <<worker, busy, processed, started, shown, thread, queue>>,
         exists' \in BOOLEAN, status' \in Results \cup {"none", "processing"},
         (status' = "processing") <=> (status = "processing")
  PROVE  DInv'
<1>1. ShapeInv'
  BY DEF DInv, ShapeInv
<1>2. WorkerInv'
  BY DEF DInv, WorkerInv
<1>3. OthersInv'
  BY DEF DInv, OthersInv
<1>4. BusyInv'
  BY DEF DInv, BusyInv, ShapeInv
<1> QED
  BY <1>1, <1>2, <1>3, <1>4 DEF DInv

LEMMA StartTaskStep ==
  ASSUME DInv, NEW task \in Tasks, ~busy, started < MaxTasks, StartTask(task),
         UNCHANGED exists
  PROVE  DInv'
<1> DEFINE n == started + 1
           u == [state |-> "begun", task |-> task, bytes |-> 0, result |-> "none"]
<1>1. /\ worker = None /\ started \in Nat /\ n \in Ids /\ n # None
      /\ n \in 0..MaxTasks /\ n > started
  <2>1. worker = None /\ started \in 0..MaxTasks
    BY DEF DInv, BusyInv, ShapeInv
  <2> QED
    BY <2>1, WorkerAssumption DEF Ids, None
<1>2. /\ started' = n /\ worker' = n /\ busy' = TRUE /\ status' = "processing"
      /\ processed' = 0 /\ thread' = [thread EXCEPT ![n] = u]
      /\ UNCHANGED <<queue, shown, exists>>
  BY DEF StartTask
<1>3. u \in Threads /\ u.state = "begun" /\ u.bytes = 0
  BY WorkerAssumption DEF Threads
<1>4. queue[n] = <<>> /\ shown[n] = <<>>
  BY <1>1 DEF DInv, OthersInv, ShapeInv
<1> HIDE DEF u
<1>5. /\ thread'[n] = u /\ \A i \in Ids \ {n} : thread'[i] = thread[i]
      /\ thread' \in [Ids -> {Unborn} \cup Threads]
  BY <1>1, <1>2, <1>3 DEF DInv, ShapeInv
<1>6. QueueOK(<<>>, u, 0)
  BY <1>3 DEF QueueOK
<1>7. ShapeInv'
  <2>1. ASSUME NEW i \in Ids, i > n PROVE thread'[i] = Unborn /\ shown'[i] = <<>>
    <3>1. i # n /\ i > started
      BY <1>1, <2>1 DEF Ids
    <3> QED
      BY <1>2, <1>5, <3>1 DEF DInv, ShapeInv
  <2>2. 0 \in 0..TOTAL
    BY WorkerAssumption
  <2> QED
    BY <1>1, <1>2, <1>5, <2>1, <2>2 DEF DInv, ShapeInv
<1>8. WorkerInv'
  BY <1>2, <1>3, <1>4, <1>5, <1>6 DEF WorkerInv
<1>9. OthersInv'
  BY <1>1, <1>2, <1>5 DEF DInv, OthersInv, Ids, None
<1>10. BusyInv'
  BY <1>1, <1>2 DEF BusyInv
<1> QED
  BY <1>7, <1>8, <1>9, <1>10 DEF DInv

LEMMA BeginStep ==
  ASSUME DInv, NEW task \in Tasks, Begin(task)
  PROVE  DInv'
<1>1. CASE StartTask(task)
  BY <1>1, StartTaskStep DEF Begin
<1>2. CASE ~StartTask(task)
  <2>1. /\ UNCHANGED <<worker, busy, processed, started, shown, thread, queue>>
        /\ status' = "error" /\ UNCHANGED exists /\ ~busy
    BY <1>2 DEF Begin
  <2>2. /\ exists' \in BOOLEAN /\ status' \in Results \cup {"none", "processing"}
        /\ status' # "processing" /\ status # "processing"
    BY <2>1 DEF DInv, ShapeInv, BusyInv, Results
  <2> QED
    BY <2>1, <2>2, DisplayStep
<1> QED
  BY <1>1, <1>2

(* Showing the result that the thread on display ended with. *)
LEMMA ShowStep ==
  ASSUME DInv, worker # None, NEW result \in Results, Show(result),
         thread[worker].state = "ended", result = thread[worker].result,
         queue' = [queue EXCEPT ![worker] = <<>>], UNCHANGED <<thread, exists>>
  PROVE  DInv'
<1>1. /\ worker \in Ids /\ worker = started /\ shown[worker] = <<>>
      /\ shown \in [Ids -> Seq(Results)] /\ queue \in [Ids -> Seq(Messages)]
      /\ started \in 0..MaxTasks
  BY DEF DInv, ShapeInv, WorkerInv, None
<1>2. Append(<<>>, result) = <<result>> /\ <<result>> \in Seq(Results)
  OBVIOUS
<1>3. /\ shown' \in [Ids -> Seq(Results)] /\ shown'[worker] = <<result>>
      /\ \A i \in Ids \ {worker} : shown'[i] = shown[i]
  BY <1>1, <1>2 DEF Show
<1>4. /\ queue' \in [Ids -> Seq(Messages)] /\ queue'[worker] = <<>>
      /\ \A i \in Ids \ {worker} : queue'[i] = queue[i]
  BY <1>1, EmptySeq
<1>5. /\ worker' = None /\ busy' = FALSE /\ status' = result
      /\ UNCHANGED <<processed, started>>
  BY DEF Show
<1>6. ShapeInv'
  <2>1. ASSUME NEW i \in Ids, i > started PROVE i # worker
    BY <1>1, <2>1, WorkerAssumption DEF Ids
  <2> QED
    BY <1>3, <1>4, <1>5, <2>1 DEF DInv, ShapeInv
<1>7. WorkerInv'
  BY <1>5 DEF WorkerInv
<1>8. OthersInv'
  BY <1>1, <1>3, <1>4, <1>5 DEF DInv, OthersInv, None, Ids
<1>9. BusyInv'
  BY <1>5 DEF BusyInv, Results
<1> QED
  BY <1>6, <1>7, <1>8, <1>9 DEF DInv

LEMMA PollMessageStep ==
  ASSUME DInv, PollMessage
  PROVE  /\ DInv'
         /\ busy' => worker' = worker /\ processed' >= processed
<1> DEFINE q == queue[worker]
           m == Head(q)
<1>1. /\ worker \in Ids /\ worker # None /\ q \in Seq(Messages) /\ q # <<>>
      /\ QueueOK(q, thread[worker], processed) /\ processed \in Nat
      /\ thread[worker] \in Threads
      /\ queue' = [queue EXCEPT ![worker] = Tail(q)] /\ UNCHANGED <<thread, exists>>
  BY WorkerAssumption DEF PollMessage, DInv, ShapeInv, WorkerInv
<1>2. CASE m.kind = "progress"
  <2>1. /\ Tail(q) \in Seq(Messages) /\ processed <= m.bytes
        /\ m.bytes <= thread[worker].bytes /\ m.bytes \in 0..TOTAL
        /\ QueueOK(Tail(q), thread[worker], m.bytes)
    BY <1>1, <1>2, ReportSeen
  <2>2. processed' = m.bytes /\ UNCHANGED <<worker, busy, status, started, shown>>
    BY <1>2 DEF PollMessage
  <2> DEFINE r == Tail(q)
             b == m.bytes
  <2>3. /\ r \in Seq(Messages) /\ b <= thread[worker].bytes /\ b \in 0..TOTAL
        /\ QueueOK(r, thread[worker], b) /\ processed' = b
        /\ queue' = [queue EXCEPT ![worker] = r] /\ processed <= b
    BY <1>1, <2>1, <2>2
  <2> HIDE DEF r, b
  <2>4. /\ queue' \in [Ids -> Seq(Messages)] /\ queue'[worker] = r
        /\ \A i \in Ids \ {worker} : queue'[i] = queue[i]
    BY <1>1, <2>3 DEF DInv, ShapeInv
  <2>5. ShapeInv'
    BY <1>1, <2>2, <2>3, <2>4 DEF DInv, ShapeInv
  <2>6. WorkerInv'
    BY <1>1, <2>2, <2>3, <2>4 DEF DInv, WorkerInv
  <2>7. OthersInv'
    BY <1>1, <2>2, <2>4 DEF DInv, OthersInv
  <2>8. BusyInv'
    BY <2>2 DEF DInv, BusyInv
  <2>9. processed' >= processed
    BY <1>1, <2>3
  <2> QED
    BY <2>2, <2>5, <2>6, <2>7, <2>8, <2>9 DEF DInv
<1>3. CASE m.kind # "progress"
  <2>1. /\ Tail(q) = <<>> /\ thread[worker].state = "ended"
        /\ m.result = thread[worker].result
    BY <1>1, <1>3, ResultSeen
  <2>2. Show(m.result)
    BY <1>3 DEF PollMessage
  <2>3. m.result \in Results
    BY <1>1, <2>1 DEF DInv, WorkerInv
  <2>4. queue' = [queue EXCEPT ![worker] = <<>>]
    BY <1>1, <2>1
  <2>5. ~busy'
    BY <2>2 DEF Show
  <2> HIDE DEF m
  <2> QED
    BY <1>1, <2>1, <2>2, <2>3, <2>4, <2>5, ShowStep
<1> QED
  BY <1>2, <1>3

LEMMA PollDisconnectedStep ==
  ASSUME DInv, PollDisconnected
  PROVE  DInv'
<1>1. /\ worker # None /\ queue[worker] = <<>> /\ thread[worker].state = "ended"
      /\ Show("unexpected") /\ UNCHANGED <<thread, queue, exists>>
  BY DEF PollDisconnected
<1>2. "unexpected" = thread[worker].result
  BY <1>1 DEF DInv, WorkerInv, QueueOK
<1>3. queue' = [queue EXCEPT ![worker] = <<>>]
  BY <1>1 DEF DInv, ShapeInv
<1> QED
  BY <1>1, <1>2, <1>3, ShowStep DEF Results
-----------------------------------------------------------------------------
(* Every step keeps the invariant, and keeps the bytes on display in order. *)
LEMMA NextInv ==
  ASSUME DInv, [Next]_vars
  PROVE  /\ DInv'
         /\ busy' /\ worker' = worker => processed' >= processed
<1> DEFINE Forward == busy' /\ worker' = worker => processed' >= processed
<1>1. processed \in Nat /\ exists \in BOOLEAN
  BY WorkerAssumption DEF DInv, ShapeInv
<1>2. ASSUME NEW task \in Tasks, Begin(task) PROVE DInv' /\ Forward
  <2>1. CASE StartTask(task)
    <3>1. worker' # worker
      <4>1. worker = 0 /\ started \in Nat
        <5>1. worker = 0 /\ started \in 0..MaxTasks
          BY <1>2 DEF Begin, DInv, BusyInv, ShapeInv, None
        <5> QED
          BY <5>1, WorkerAssumption
      <4>2. worker' = started + 1
        BY <2>1 DEF StartTask
      <4> QED
        BY <4>1, <4>2
    <3> QED
      BY <1>2, <3>1, BeginStep
  <2>2. CASE ~StartTask(task)
    <3>1. processed' = processed
      BY <1>2, <2>2 DEF Begin
    <3> QED
      BY <1>1, <1>2, <3>1, BeginStep
  <2> QED
    BY <2>1, <2>2
<1>3. CASE UseControls
  <2>1. /\ UNCHANGED <<worker, busy, processed, started, shown, thread, queue, exists>>
        /\ status' \in {"none", "success", "error"} /\ ~busy
    BY <1>3 DEF UseControls
  <2>2. /\ exists' \in BOOLEAN /\ status' \in Results \cup {"none", "processing"}
        /\ status' # "processing" /\ status # "processing"
    BY <1>1, <2>1 DEF DInv, BusyInv, Results
  <2> QED
    BY <1>1, <2>1, <2>2, DisplayStep
<1>4. CASE PollMessage
  BY <1>4, PollMessageStep
<1>5. CASE PollDisconnected
  <2>1. ~busy'
    BY <1>5 DEF PollDisconnected, Show
  <2> QED
    BY <1>5, <2>1, PollDisconnectedStep
<1>6. ASSUME NEW i \in Ids, Work(i) \/ Fail(i) \/ (Panic(i) /\ ~Aborts)
      PROVE  DInv' /\ Forward
  <2>1. UNCHANGED ui
    BY <1>6 DEF Work, CheckTask, ReportProgress, FinishCrypto, BuildSfx,
                SendResult, Fail, Panic
  <2>2. processed' >= processed
    BY <1>1, <2>1 DEF ui
  <2>3. DInv'
    BY <1>6, TaskStep, ReportProgressStep, SendResultStep DEF Work
  <2> QED
    BY <2>2, <2>3
<1>7. CASE EditOutput \/ (Aborts /\ \E i \in Ids : Panic(i)) \/ UNCHANGED vars
  <2>1. UNCHANGED <<ui, thread, queue>> /\ exists' \in BOOLEAN
    BY <1>1, <1>7 DEF EditOutput, Panic, vars
  <2>2. status' \in Results \cup {"none", "processing"}
    BY <2>1 DEF DInv, ShapeInv, ui
  <2> QED
    BY <1>1, <2>1, <2>2, DisplayStep DEF ui
<1> QED
  BY <1>2, <1>3, <1>4, <1>5, <1>6, <1>7 DEF Next, Poll

LEMMA Invariance == Spec => []DInv
<1>1. DInv /\ [Next]_vars => DInv'
  BY NextInv
<1> QED
  BY InitInv, <1>1, PTL DEF Spec

LEMMA ProcessKept == ProcessInv /\ [Next]_vars => ProcessInv'
<1> SUFFICES ASSUME ProcessInv, [Next]_vars PROVE ProcessInv'
  OBVIOUS
<1>1. build' = build /\ alive' \in {alive, FALSE}
  BY DEF Next, Poll, Work, Panic, process, vars
<1> QED
  BY <1>1 DEF ProcessInv

(* The state has its types, and no operation processes more than there is. *)
THEOREM TypeCorrect == Spec => []TypeOK
<1>1. DInv /\ ProcessInv => TypeOK
  BY DEF DInv, ShapeInv, ProcessInv, TypeOK, Threads
<1>2. Init => ProcessInv
  BY DEF Init, ProcessInv
<1> QED
  BY <1>1, <1>2, Invariance, ProcessKept, PTL DEF Spec

(* Of every operation at most one result is shown, the one its thread ended *)
(* with, whatever the other threads, other programs and panics do between   *)
(* its start and the frame that takes the result from the channel.          *)
THEOREM OutcomeCorrect == Spec => []OneOutcome
<1>1. DInv => OneOutcome
  <2> SUFFICES ASSUME DInv PROVE OneOutcome
    OBVIOUS
  <2>1. ASSUME NEW i \in Ids, shown[i] # <<>>
        PROVE  thread[i].state = "ended" /\ shown[i] = <<thread[i].result>>
    BY <2>1 DEF DInv, WorkerInv, OthersInv, Ids, None
  <2> QED
    BY <2>1 DEF DInv, OthersInv, BusyInv, OneOutcome
<1> QED
  BY <1>1, Invariance, PTL

(* No step shows more bytes than the operation on display has processed,    *)
(* nor, during one operation, fewer than before: reports of an operation    *)
(* before never arrive late.                                                *)
THEOREM ProgressCorrect == Spec => ProgressOfTask
<1>1. DInv /\ DInv' /\ [Next]_vars =>
        [busy' => /\ processed' <= thread'[worker'].bytes
                  /\ worker' = worker => processed' >= processed]_vars
  <2> SUFFICES ASSUME DInv, DInv', [Next]_vars, busy'
               PROVE  /\ processed' <= thread'[worker'].bytes
                      /\ worker' = worker => processed' >= processed
    OBVIOUS
  <2>1. worker' # None
    BY DEF DInv, BusyInv
  <2>2. processed' <= thread'[worker'].bytes
    BY <2>1 DEF DInv, WorkerInv
  <2> QED
    BY <2>2, NextInv
<1> QED
  BY <1>1, Invariance, PTL DEF Spec, ProgressOfTask
=============================================================================
