------------------------------- MODULE SpawnLoop --------------------------------
(***************************************************************************)
(* FFTW's thread pool (threads/threads.c): spawn_loop hands the blocks of  *)
(* a loop to workers from a common queue, makes workers when the queue is  *)
(* empty, executes the last block itself and collects the workers again.   *)
(* A block may call spawn_loop in turn, and several threads of the         *)
(* application may call it.  kill_workforce ends the workers when nobody   *)
(* is in a loop, which is what fftw_cleanup_threads requires of its        *)
(* caller; fftw_init_threads starts again.                                 *)
(*                                                                         *)
(* The work records live on the stack of spawn_loop's caller, so a pointer *)
(* to one is the pair of the call and the block.  Every semaphore is a     *)
(* counter; the queue lock is held across steps only by kill_workforce.    *)
(* Threads can always be created, no backend is installed instead.         *)
(***************************************************************************)
EXTENDS LoopBlocks, FiniteSets, SequencesExt

CONSTANTS
  Apps,      \* the application's threads
  Workers,   \* the addresses of worker records, enough for every demand
  Shapes,    \* the pairs <<loopmax, nthr>> spawn_loop is called with
  MaxCalls,  \* bound: calls of spawn_loop
  MaxIterations, \* bound: iterations of all calls together
  NULL       \* the proc of a work record that terminates a worker

ASSUME SpawnLoopAssumption ==
  /\ Shapes \subseteq Nat \X (Nat \ {0})
  /\ MaxCalls \in Nat /\ MaxIterations \in Nat
  /\ Apps \cap Workers = {}
  /\ NULL \notin Workers \cup [call : Nat, shape : Shapes, i : Nat]

VARIABLES
  stack,    \* the calls of spawn_loop each thread is in, the innermost last
  doing,    \* where each worker is in its loop; "none" if there is no such worker
  given,    \* ego->w: the work each worker was told to do
  ready,    \* the semaphores of the workers
  done,
  queue,    \* worker_queue
  kill,     \* where kill_workforce is; with "none" the pool is not initialised
  victim,   \* the worker it is terminating
  ended,    \* termination_semaphore
  times     \* ghost: how often each iteration of each call was executed

poolVars == <<queue, kill, victim, ended>>
vars     == <<stack, doing, given, ready, done, poolVars, times>>

Threads == Apps \cup Workers
Exist   == {q \in Workers : doing[q] # "none"}

Init ==
  /\ stack = [t \in Threads |-> <<>>]
  /\ doing = [q \in Workers |-> "none"]
  /\ given = [q \in Workers |-> NULL]
  /\ ready = [q \in Workers |-> 0] /\ done = [q \in Workers |-> 0]
  /\ queue = <<>> /\ kill = "none" /\ victim = NULL /\ ended = 0
  /\ times = <<>>

\* fftw_init_threads: a second call in a row changes nothing.
InitThreads ==
  \/ /\ kill = "none" /\ kill' = "off" /\ queue' = <<>> /\ ended' = 0
     /\ UNCHANGED <<stack, doing, given, ready, done, victim, times>>
  \/ kill # "none" /\ UNCHANGED vars

-----------------------------------------------------------------------------
(***************************************************************************)
(* A call of spawn_loop by thread t.                                       *)
(***************************************************************************)
Is(t, at) == stack[t] # <<>> /\ Last(stack[t]).at = at
Top(t)    == Last(stack[t])
SetTop(t, frame) == stack' = [stack EXCEPT ![t] = Append(Front(@), frame)]

\* The thread is inside proc: a worker, or the caller of a loop with its own block.
InProc(t) == Is(t, "own") \/ (t \in Workers /\ stack[t] = <<>> /\ doing[t] = "work")

\* After block i was handed out: the caller keeps the last block.
Distribute(i, nthr) == IF i = nthr - 1 THEN "own" ELSE "take"

Iterations == FoldSeq(LAMBDA c, n : Cardinality(DOMAIN c) + n, 0, times)

Call(t, shape) ==
  LET loopmax == shape[1]
      nthr    == IF loopmax = 0 THEN 1 ELSE ThreadsUsed(loopmax, shape[2])
  IN  /\ (t \in Apps /\ stack[t] = <<>>) \/ InProc(t)
      /\ kill = "off" /\ Len(times) < MaxCalls
      /\ Iterations + loopmax <= MaxIterations
      /\ times' = Append(times, [k \in 0 .. loopmax - 1 |-> 0])
      /\ stack' = [stack EXCEPT ![t] = Append(@,
           [call |-> Len(times) + 1, shape |-> shape, nthr |-> nthr, i |-> 0, work |-> <<>>,
            at |-> IF loopmax = 0 THEN "collect" ELSE Distribute(0, nthr)])]
      /\ UNCHANGED <<doing, given, ready, done, poolVars>>

\* w->q->w = w, then the semaphore of the worker, which nobody else knows of
\* between being dequeued and being told.
Tell(t, q) ==
  /\ given' = [given EXCEPT ![q] = [call |-> Top(t).call, shape |-> Top(t).shape, i |-> Top(t).i]]
  /\ SetTop(t, [Top(t) EXCEPT !.work = Append(@, q), !.i = @ + 1,
                              !.at = Distribute(Top(t).i + 1, Top(t).nthr)])

Take(t) ==
  /\ Is(t, "take") /\ kill = "off" /\ queue # <<>>
  /\ queue' = Tail(queue)
  /\ Tell(t, Head(queue)) /\ ready' = [ready EXCEPT ![Head(queue)] = @ + 1]
  /\ UNCHANGED <<doing, done, kill, victim, ended, times>>

\* dequeue finds no worker and makes one.
Make(t) ==
  LET q == CHOOSE x \in Workers \ Exist : TRUE IN
  /\ Is(t, "take") /\ kill = "off" /\ queue = <<>> /\ Exist # Workers
  /\ doing' = [doing EXCEPT ![q] = "wait"]
  /\ done' = [done EXCEPT ![q] = 0]
  /\ Tell(t, q) /\ ready' = [ready EXCEPT ![q] = 1]
  /\ UNCHANGED <<poolVars, times>>

Execute(w) ==
  times' = [times EXCEPT ![w.call] = [k \in DOMAIN @ |->
              IF k \in Block(w.shape[1], w.shape[2], w.i) THEN @[k] + 1 ELSE @[k]]]

\* The caller is through with its own block.
Own(t) ==
  /\ Is(t, "own")
  /\ Execute(Top(t))
  /\ SetTop(t, [Top(t) EXCEPT !.i = 0, !.at = "collect"])
  /\ UNCHANGED <<doing, given, ready, done, poolVars>>

\* Mutant of Collect: os_sem_down is left out.
CollectAtOnce(t) ==
  /\ Is(t, "collect") /\ Top(t).i < Top(t).nthr - 1
  /\ SetTop(t, [Top(t) EXCEPT !.at = "enqueue"])
  /\ UNCHANGED <<doing, given, ready, done, poolVars, times>>

Collect(t) ==
  LET q == Top(t).work[Top(t).i + 1] IN
  /\ Is(t, "collect") /\ Top(t).i < Top(t).nthr - 1
  /\ done[q] > 0
  /\ done' = [done EXCEPT ![q] = @ - 1]
  /\ SetTop(t, [Top(t) EXCEPT !.at = "enqueue"])
  /\ UNCHANGED <<doing, given, ready, poolVars, times>>

\* Mutant of Enqueue: q->cdr is not set.
EnqueueUnlinked(t) ==
  /\ Is(t, "enqueue") /\ kill = "off"
  /\ queue' = <<Top(t).work[Top(t).i + 1]>>
  /\ SetTop(t, [Top(t) EXCEPT !.i = @ + 1, !.at = "collect"])
  /\ UNCHANGED <<doing, given, ready, done, kill, victim, ended, times>>

Enqueue(t) ==
  /\ Is(t, "enqueue") /\ kill = "off"
  /\ queue' = <<Top(t).work[Top(t).i + 1]>> \o queue
  /\ SetTop(t, [Top(t) EXCEPT !.i = @ + 1, !.at = "collect"])
  /\ UNCHANGED <<doing, given, ready, done, kill, victim, ended, times>>

\* Mutant of Return: the last worker is not waited for.
ReturnEarly(t) ==
  /\ Is(t, "collect") /\ Top(t).i >= Top(t).nthr - 2
  /\ stack' = [stack EXCEPT ![t] = Front(@)]
  /\ UNCHANGED <<doing, given, ready, done, poolVars, times>>

Return(t) ==
  /\ Is(t, "collect") /\ Top(t).i = Top(t).nthr - 1
  /\ stack' = [stack EXCEPT ![t] = Front(@)]
  /\ UNCHANGED <<doing, given, ready, done, poolVars, times>>

-----------------------------------------------------------------------------
(***************************************************************************)
(* A worker.                                                               *)
(***************************************************************************)
Wake(q) ==
  /\ doing[q] = "wait" /\ ready[q] > 0
  /\ ready' = [ready EXCEPT ![q] = @ - 1]
  /\ doing' = [doing EXCEPT ![q] = IF given[q] = NULL THEN "terminate" ELSE "work"]
  /\ UNCHANGED <<stack, given, done, poolVars, times>>

\* Mutant of Work: completion is not signalled.
WorkSilently(q) ==
  /\ doing[q] = "work" /\ stack[q] = <<>>
  /\ Execute(given[q])
  /\ doing' = [doing EXCEPT ![q] = "wait"]
  /\ UNCHANGED <<stack, given, ready, done, poolVars>>

\* proc has returned.
Work(q) ==
  /\ doing[q] = "work" /\ stack[q] = <<>>
  /\ Execute(given[q])
  /\ done' = [done EXCEPT ![q] = @ + 1]
  /\ doing' = [doing EXCEPT ![q] = "wait"]
  /\ UNCHANGED <<stack, given, ready, poolVars>>

Terminate(q) ==
  /\ doing[q] = "terminate"
  /\ ended' = ended + 1
  /\ doing' = [doing EXCEPT ![q] = "exit"]
  /\ UNCHANGED <<stack, given, ready, done, queue, kill, victim, times>>

-----------------------------------------------------------------------------
(***************************************************************************)
(* kill_workforce, from threads_cleanup.                                   *)
(***************************************************************************)
Cleanup ==
  /\ kill = "off" /\ \A t \in Threads : stack[t] = <<>>
  /\ kill' = "next"
  /\ UNCHANGED <<stack, doing, given, ready, done, queue, victim, ended, times>>

KillNext ==
  /\ kill = "next" /\ queue # <<>>
  /\ victim' = Head(queue) /\ queue' = Tail(queue)
  /\ given' = [given EXCEPT ![Head(queue)] = NULL]
  /\ ready' = [ready EXCEPT ![Head(queue)] = @ + 1]
  /\ kill' = "join"
  /\ UNCHANGED <<stack, doing, done, ended, times>>

KillJoin ==
  /\ kill = "join" /\ ended > 0
  /\ ended' = ended - 1
  /\ doing' = [doing EXCEPT ![victim] = "none"]
  /\ victim' = NULL /\ kill' = "next"
  /\ UNCHANGED <<stack, given, ready, done, queue, times>>

KillEnd ==
  /\ kill = "next" /\ queue = <<>>
  /\ kill' = "none"
  /\ UNCHANGED <<stack, doing, given, ready, done, queue, victim, ended, times>>

-----------------------------------------------------------------------------
Step(t) == Take(t) \/ Make(t) \/ Own(t) \/ Collect(t) \/ Enqueue(t) \/ Return(t)

WorkerStep(q) == Wake(q) \/ Work(q) \/ Terminate(q)

Kill == KillNext \/ KillJoin \/ KillEnd

Next ==
  \/ InitThreads \/ Cleanup \/ Kill
  \/ \E t \in Threads : Step(t) \/ \E shape \in Shapes : Call(t, shape)
  \/ \E q \in Workers : WorkerStep(q)

Spec == Init /\ [][Next]_vars

\* Every thread that can go on does; nobody is obliged to call.
FairSpec ==
  /\ Spec
  /\ \A t \in Threads : WF_vars(Step(t))
  /\ \A q \in Workers : WF_vars(WorkerStep(q))
  /\ WF_vars(Kill)

-----------------------------------------------------------------------------
Frames == UNION {{<<t, d>> : d \in DOMAIN stack[t]} : t \in Threads}
Open   == {stack[f[1]][f[2]].call : f \in Frames}

\* The comment at threads.c:398: the function returns only after all threads
\* have completed, every iteration having been executed once, however calls
\* of several threads, nested calls and clean-ups interleave.
Loops == INSTANCE ParallelLoop WITH LoopMaxes <- {s[1] : s \in Shapes}, open <- Open
ExecutesEachOnce == Loops!Spec

\* A worker never reads a work record of a call that has returned: from being
\* told until it signals completion, the record it was given is on a stack.
NoDanglingWork ==
  \A q \in Exist :
    ready[q] > 0 \/ doing[q] = "work" =>
      \/ given[q] # NULL /\ given[q].call \in Open
      \/ given[q] = NULL /\ q = victim

\* The comment at threads.c:358-364: when kill_workforce runs, every worker is in
\* the queue, once, and waits, so that terminating the queue's workers terminates
\* all of them; none is left when the pool is gone.
NobodyEscapes ==
  /\ kill \in {"next", "join"} => Exist \ {victim} = Range(queue)
  /\ kill = "none" => Exist = {}
  /\ \A q \in Range(queue) : doing[q] = "wait" /\ ready[q] = 0 /\ done[q] = 0
  /\ Cardinality(Range(queue)) = Len(queue)

\* With nested calls and several callers waiting for workers, every call of
\* spawn_loop returns; and kill_workforce, which waits for each worker with the
\* queue lock held, still ends.
EveryWaitEnds ==
  /\ \A c \in 1 .. MaxCalls : c \in Open ~> c \notin Open
  /\ kill = "next" ~> kill = "none"
================================================================================
