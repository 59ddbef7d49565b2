---------------------------- MODULE SpawnLoopProofs ----------------------------
(***************************************************************************)
(* The thread pool, for any number of threads, workers, calls and          *)
(* iterations: every worker belongs to the queue, to one block of one call *)
(* that has not returned, or to kill_workforce.                            *)
(***************************************************************************)
EXTENDS SpawnLoop, TLAPS, FiniteSetTheorems, SequenceTheorems

(* The blocks of a loop (LoopBlocks) *)

\* What is used of division: rounded up by adding b - 1.
LEMMA Quotient ==
  ASSUME NEW a \in Nat, NEW b \in Nat \ {0}
  PROVE  a \div b \in Nat /\ b * (a \div b) <= a /\ a < b * (a \div b) + b
  BY SMTT(30)

(* Division rounded up brackets its argument. *)
LEMMA Rounded ==
  ASSUME NEW a \in Nat \ {0}, NEW b \in Nat \ {0}
  PROVE  LET q == (a + b - 1) \div b
         IN  q \in Nat \ {0} /\ a <= b * q /\ b * q < a + b
<1>1. PICK q : q = (a + b - 1) \div b
  OBVIOUS
<1>2. q \in Nat /\ b * q <= a + b - 1 /\ a + b - 1 < b * q + b
  BY <1>1, Quotient, a + b - 1 \in Nat
<1>3. q # 0
  <2>1. SUFFICES ASSUME q = 0 PROVE FALSE
    OBVIOUS
  <2>2. b * q = 0
    BY <2>1
  <2> QED BY <1>2, <2>2
<1>4. b * q \in Int
  BY <1>2
<1>5. a <= b * q /\ b * q < a + b
  BY <1>2, <1>4
<1> QED BY <1>1, <1>2, <1>3, <1>5

\* Every iteration of a loop is in the block of exactly one of the threads
\* used, of which there are at most nthr: the loop of threads.c:437-459 leaves
\* nothing out and executes nothing twice.
THEOREM BlocksPartition ==
  ASSUME NEW loopmax \in Nat \ {0}, NEW nthr \in Nat \ {0}
  PROVE  LET used == ThreadsUsed(loopmax, nthr) IN
         /\ used \in 1 .. nthr
         /\ \A i \in 0 .. used - 1 :
              /\ Block(loopmax, nthr, i) # {}
              /\ Block(loopmax, nthr, i) \subseteq 0 .. loopmax - 1
         /\ \A k \in 0 .. loopmax - 1 : \E i \in 0 .. used - 1 : k \in Block(loopmax, nthr, i)
         /\ \A i, j \in 0 .. used - 1 :
              i # j => Block(loopmax, nthr, i) \cap Block(loopmax, nthr, j) = {}
<1>1. PICK size : size = BlockSize(loopmax, nthr)
  OBVIOUS
<1>2. size \in Nat \ {0} /\ loopmax <= nthr * size /\ nthr * size < loopmax + nthr
  BY <1>1, Rounded DEF BlockSize
<1>3. PICK used : used = ThreadsUsed(loopmax, nthr)
  OBVIOUS
<1>4. used \in Nat \ {0} /\ loopmax <= size * used /\ size * used < loopmax + size
  BY <1>1, <1>2, <1>3, Rounded DEF ThreadsUsed
<1>5. used <= nthr
  <2>1. SUFFICES ASSUME used >= nthr + 1 PROVE FALSE
    BY <1>4
  <2>2. size * (nthr + 1) <= size * used
    BY <1>2, <1>4, <2>1
  <2>3. size * (nthr + 1) = nthr * size + size
    BY <1>2
  <2> QED BY <1>2, <1>4, <2>2, <2>3
<1>6. ASSUME NEW i \in 0 .. used - 1
      PROVE  /\ i * size \in Nat /\ i * size < loopmax
             /\ \A k \in Int : k \in Block(loopmax, nthr, i)
                  <=> i * size <= k /\ k < i * size + size /\ k < loopmax
  <2>1. i * size \in Nat
    BY <1>2, <1>4
  <2>2. i * size <= (used - 1) * size
    BY <1>2, <1>4
  <2>3. (used - 1) * size = size * used - size
    BY <1>2, <1>4
  <2>4. size * used \in Nat
    BY <1>2, <1>4
  <2>5. i * size < loopmax
    BY <1>2, <1>4, <2>1, <2>2, <2>3, <2>4
  <2>6. Block(loopmax, nthr, i)
          = i * size .. (IF i * size + size > loopmax THEN loopmax ELSE i * size + size) - 1
    BY <1>1 DEF Block
  <2>7. PICK start \in Nat : start = i * size
    BY <2>1
  <2> QED BY <1>2, <2>5, <2>6, <2>7
<1>7. ASSUME NEW i \in 0 .. used - 1
      PROVE  /\ Block(loopmax, nthr, i) # {}
             /\ Block(loopmax, nthr, i) \subseteq 0 .. loopmax - 1
  <2>1. i * size \in Block(loopmax, nthr, i)
    <3>1. i * size < i * size + size
      BY <1>2, <1>6
    <3> QED BY <1>6, <3>1
  <2>2. Block(loopmax, nthr, i) \subseteq Int
    BY DEF Block
  <2> QED BY <1>6, <2>1, <2>2
<1>8. ASSUME NEW k \in 0 .. loopmax - 1
      PROVE  \E i \in 0 .. used - 1 : k \in Block(loopmax, nthr, i)
  <2>1. PICK i : i = k \div size
    OBVIOUS
  <2>2. i \in Nat /\ size * i <= k /\ k < size * i + size
    BY <1>2, <2>1, Quotient
  <2>3. i * size = size * i /\ i * size \in Nat
    BY <1>2, <2>2
  <2>4. i < used
    <3>1. SUFFICES ASSUME i >= used PROVE FALSE
      BY <1>4, <2>2
    <3>2. size * used <= size * i
      BY <1>2, <1>4, <2>2, <3>1
    <3> QED BY <1>2, <1>4, <2>2, <3>2, <2>3
  <2>5. i \in 0 .. used - 1
    BY <1>4, <2>2, <2>4
  <2> QED BY <1>2, <1>6, <2>2, <2>3, <2>5
<1>9. ASSUME NEW i \in 0 .. used - 1, NEW j \in 0 .. used - 1, i < j
      PROVE  Block(loopmax, nthr, i) \cap Block(loopmax, nthr, j) = {}
  <2>1. SUFFICES ASSUME NEW k \in Int, k \in Block(loopmax, nthr, i), k \in Block(loopmax, nthr, j)
                 PROVE  FALSE
    BY DEF Block
  <2>2. k < i * size + size /\ j * size <= k
    BY <1>6, <2>1
  <2>3. (i + 1) * size <= j * size
    BY <1>2, <1>4, <1>9
  <2>4. (i + 1) * size = i * size + size
    BY <1>2, <1>4
  <2> QED BY <1>2, <1>6, <2>2, <2>3, <2>4
<1>10. \A i, j \in 0 .. used - 1 :
         i # j => Block(loopmax, nthr, i) \cap Block(loopmax, nthr, j) = {}
  <2>1. TAKE i, j \in 0 .. used - 1
  <2>2. CASE i < j
    BY <1>9, <2>2
  <2>3. CASE j < i
    BY <1>9, <2>3
  <2>4. i < j \/ j < i \/ i = j
    BY <1>4
  <2> QED BY <2>2, <2>3, <2>4
<1> QED
  <2>1. used \in 1 .. nthr
    BY <1>4, <1>5
  <2> QED BY <1>3, <1>7, <1>8, <1>10, <2>1

\* The comment at threads.c:410: no block size would let nthr threads finish
\* the loop earlier, and with this one fewer threads would not finish it.
THEOREM FewestThreads ==
  ASSUME NEW loopmax \in Nat \ {0}, NEW nthr \in Nat \ {0}
  PROVE  /\ \A size \in Nat : size * nthr >= loopmax => size >= BlockSize(loopmax, nthr)
         /\ \A n \in Nat : n * BlockSize(loopmax, nthr) >= loopmax
              => n >= ThreadsUsed(loopmax, nthr)
<1>1. ASSUME NEW a \in Nat \ {0}, NEW b \in Nat \ {0}, NEW n \in Nat, n * b >= a
      PROVE  n >= (a + b - 1) \div b
  <2>1. PICK q : q = (a + b - 1) \div b
    OBVIOUS
  <2>2. q \in Nat \ {0} /\ b * q < a + b
    BY <2>1, Rounded
  <2>3. SUFFICES ASSUME n + 1 <= q PROVE FALSE
    BY <2>1, <2>2
  <2>4. b * (n + 1) <= b * q
    BY <2>2, <2>3
  <2>5. b * (n + 1) = n * b + b
    OBVIOUS
  <2> QED BY <1>1, <2>2, <2>4, <2>5
<1>2. BlockSize(loopmax, nthr) \in Nat \ {0}
  BY Rounded DEF BlockSize
<1>3. \A size \in Nat : size * nthr >= loopmax => size >= BlockSize(loopmax, nthr)
  BY <1>1 DEF BlockSize
<1>4. \A n \in Nat : n * BlockSize(loopmax, nthr) >= loopmax => n >= ThreadsUsed(loopmax, nthr)
  BY <1>1, <1>2 DEF ThreadsUsed
<1> QED BY <1>3, <1>4

--------------------------------------------------------------------------------
(* The pool *)

(* The record a worker points to: w in spawn_loop. *)
Record == [call : Nat \ {0}, shape : Shapes, i : Nat]

Frame ==
  [call : Nat \ {0}, shape : Shapes, nthr : Nat \ {0}, i : Nat, work : Seq(Workers),
   at : {"take", "own", "collect", "enqueue"}]

Counts == UNION {[0 .. n - 1 -> Nat] : n \in Nat}

TypeOK ==
  /\ stack \in [Threads -> Seq(Frame)]
  /\ doing \in [Workers -> {"none", "wait", "work", "terminate", "exit"}]
  /\ given \in [Workers -> Record \cup {NULL}]
  /\ ready \in [Workers -> Nat] /\ done \in [Workers -> Nat]
  /\ queue \in Seq(Workers)
  /\ kill \in {"none", "off", "next", "join"}
  /\ victim \in Workers \cup {NULL} /\ ended \in Nat
  /\ times \in Seq(Counts)

(* The places of f.work whose workers the call still has to give back. *)
Held(f) == {j \in DOMAIN f.work : f.at \in {"collect", "enqueue"} => f.i < j}

(* The worker at place j of frame f was collected and is about to be queued. *)
Collected(f, j) == f.at = "enqueue" /\ j = f.i + 1

FrameOK(f) ==
  /\ f.at \in {"take", "own"} => f.i = Len(f.work) /\ f.shape[1] # 0
  /\ f.at # "take" => Len(f.work) = f.nthr - 1
  /\ f.at \in {"take", "enqueue"} => f.i < f.nthr - 1
  /\ f.i <= f.nthr - 1
  /\ f.nthr = IF f.shape[1] = 0 THEN 1 ELSE ThreadsUsed(f.shape[1], f.shape[2])
  /\ f.call \in DOMAIN times /\ DOMAIN times[f.call] = 0 .. f.shape[1] - 1

FramesOK == \A t \in Threads : \A d \in DOMAIN stack[t] : FrameOK(stack[t][d])

(* No two frames are of the same call. *)
CallsApart ==
  \A t, u \in Threads : \A d \in DOMAIN stack[t], e \in DOMAIN stack[u] :
    stack[t][d].call = stack[u][e].call => t = u /\ d = e

(* No two places hold the same worker. *)
HeldOnce ==
  \A t, u \in Threads : \A d \in DOMAIN stack[t], e \in DOMAIN stack[u] :
    \A j \in Held(stack[t][d]), k \in Held(stack[u][e]) :
      stack[t][d].work[j] = stack[u][e].work[k] => t = u /\ d = e /\ j = k

(* Worker q is in the queue. *)
Queued(q) == \E m \in DOMAIN queue : queue[m] = q

QueuedOnce == \A m, n \in DOMAIN queue : queue[m] = queue[n] => m = n

(* What the worker of block i of the call with frame f is told. *)
Told(f, i) == [call |-> f.call, shape |-> f.shape, i |-> i]

(* A worker at a place of a call is told of its block, at work or through. *)
Settled(f, j) ==
  LET q == f.work[j]
  IN  /\ given[q] = Told(f, j - 1)
      /\ \/ doing[q] = "wait" /\ ready[q] = 1 /\ done[q] = 0 /\ ~Collected(f, j)
         \/ doing[q] = "work" /\ ready[q] = 0 /\ done[q] = 0 /\ ~Collected(f, j)
         \/ /\ doing[q] = "wait" /\ ready[q] = 0
            /\ done[q] = IF Collected(f, j) THEN 0 ELSE 1
      /\ q # victim /\ ~Queued(q)

HeldState ==
  \A t \in Threads : \A d \in DOMAIN stack[t] : \A j \in Held(stack[t][d]) :
    Settled(stack[t][d], j)

QueueState ==
  \A q \in Workers :
    Queued(q) => doing[q] = "wait" /\ ready[q] = 0 /\ done[q] = 0 /\ q # victim

VictimState ==
  IF kill = "join"
  THEN /\ victim \in Workers /\ given[victim] = NULL /\ done[victim] = 0
       /\ \/ doing[victim] = "wait" /\ ready[victim] = 1 /\ ended = 0
          \/ doing[victim] = "terminate" /\ ready[victim] = 0 /\ ended = 0
          \/ doing[victim] = "exit" /\ ready[victim] = 0 /\ ended = 1
  ELSE victim = NULL /\ ended = 0

(* Worker q is at a place of an open call. *)
Placed(q) ==
  \E t \in Threads : \E d \in DOMAIN stack[t] : \E j \in Held(stack[t][d]) :
    stack[t][d].work[j] = q

(* Every worker is accounted for; one inside a nested call is at work. *)
Accounted ==
  \A q \in Workers :
    /\ doing[q] # "none" => Placed(q) \/ q = victim \/ Queued(q)
    /\ stack[q] # <<>> => doing[q] = "work"

(* kill_workforce runs only when no call is open. *)
Quiet ==
  /\ kill # "off" => \A t \in Threads : stack[t] = <<>>
  /\ kill = "none" => queue = <<>>

OwnedInv ==
  /\ TypeOK /\ FramesOK /\ CallsApart /\ HeldOnce /\ QueuedOnce /\ HeldState
  /\ QueueState /\ VictimState /\ Accounted /\ Quiet

(* Block b of the call with frame f has been executed. *)
Executed(f, b) ==
  IF b = f.nthr - 1 THEN f.at \in {"collect", "enqueue"}
  ELSE /\ b + 1 \in DOMAIN f.work
       /\ b + 1 \in Held(f) =>
            doing[f.work[b + 1]] = "wait" /\ ready[f.work[b + 1]] = 0

(* The ghost counts of block b are as its execution says. *)
Tallied(f, b) ==
  \A k \in Block(f.shape[1], f.shape[2], b) :
    times[f.call][k] = IF Executed(f, b) THEN 1 ELSE 0

(* What the ghost counts of an open call is what its blocks have executed. *)
Progress ==
  \A t \in Threads : \A d \in DOMAIN stack[t] : \A f \in {stack[t][d]} :
    f.shape[1] # 0 => \A b \in 0 .. f.nthr - 1 : Tallied(f, b)

--------------------------------------------------------------------------------
(* The stacks. *)

(* The innermost call of a thread, its replacement, a call and a return. *)
LEMMA TopFrame ==
  ASSUME TypeOK, NEW t \in Threads, stack[t] # <<>>
  PROVE  /\ Len(stack[t]) \in DOMAIN stack[t]
         /\ Top(t) = stack[t][Len(stack[t])]
         /\ Top(t) \in Frame
  BY DEF TypeOK, Top, Last

(* What a step of t that changes its innermost frame to g leaves of the stacks... *)
Replaced(t, g) ==
  \A u \in Threads :
    /\ DOMAIN stack'[u] = DOMAIN stack[u]
    /\ stack'[u] = <<>> <=> stack[u] = <<>>
    /\ \A d \in DOMAIN stack[u] :
         stack'[u][d] = IF u = t /\ d = Len(stack[t]) THEN g ELSE stack[u][d]

LEMMA SetTopReplaces ==
  ASSUME TypeOK, NEW t \in Threads, stack[t] # <<>>, NEW g \in Frame, SetTop(t, g)
  PROVE  stack' \in [Threads -> Seq(Frame)] /\ Replaced(t, g)
<1> DEFINE s == stack[t]
           r == Append(Front(s), g)
<1>1. s \in Seq(Frame) /\ Len(s) \in Nat \ {0}
  BY DEF TypeOK
<1>2. /\ Front(s) \in Seq(Frame) /\ Len(Front(s)) = Len(s) - 1
      /\ \A d \in 1 .. Len(s) - 1 : Front(s)[d] = s[d]
  BY <1>1 DEF Front
<1>3. /\ r \in Seq(Frame) /\ Len(r) = Len(s) /\ DOMAIN r = DOMAIN s
      /\ \A d \in DOMAIN s : r[d] = IF d = Len(s) THEN g ELSE s[d]
  BY <1>1, <1>2
<1>4. stack' = [stack EXCEPT ![t] = r]
  BY DEF SetTop
<1> QED  BY <1>1, <1>3, <1>4 DEF TypeOK, Replaced

(* What a step of t that enters a call with frame g leaves of the stacks... *)
Pushed(t, g) ==
  /\ stack' \in [Threads -> Seq(Frame)]
  /\ \A u \in Threads : u # t => stack'[u] = stack[u]
  /\ stack'[t] # <<>>
  /\ DOMAIN stack'[t] = DOMAIN stack[t] \cup {Len(stack[t]) + 1}
  /\ Len(stack[t]) + 1 \notin DOMAIN stack[t]
  /\ \A d \in DOMAIN stack[t] : stack'[t][d] = stack[t][d]
  /\ stack'[t][Len(stack[t]) + 1] = g

LEMMA PushFrame ==
  ASSUME TypeOK, NEW t \in Threads, NEW g \in Frame,
         stack' = [stack EXCEPT ![t] = Append(@, g)]
  PROVE  Pushed(t, g)
<1> DEFINE s == stack[t]
           r == Append(s, g)
<1>1. s \in Seq(Frame) /\ Len(s) \in Nat
  BY DEF TypeOK
<1>2. /\ r \in Seq(Frame) /\ DOMAIN r = DOMAIN s \cup {Len(s) + 1} /\ r # <<>>
      /\ Len(s) + 1 \notin DOMAIN s
      /\ \A d \in DOMAIN s : r[d] = s[d]
      /\ r[Len(s) + 1] = g
  BY <1>1
<1> QED  BY <1>1, <1>2 DEF TypeOK, Pushed

LEMMA PopFrame ==
  ASSUME TypeOK, NEW t \in Threads, stack[t] # <<>>,
         stack' = [stack EXCEPT ![t] = Front(@)]
  PROVE  /\ stack' \in [Threads -> Seq(Frame)]
         /\ \A u \in Threads : u # t => stack'[u] = stack[u]
         /\ DOMAIN stack'[t] = DOMAIN stack[t] \ {Len(stack[t])}
         /\ \A d \in DOMAIN stack'[t] : stack'[t][d] = stack[t][d]
<1> DEFINE s == stack[t]
           r == Front(s)
<1>1. s \in Seq(Frame) /\ Len(s) \in Nat \ {0}
  BY DEF TypeOK
<1>2. /\ r \in Seq(Frame) /\ DOMAIN r = DOMAIN s \ {Len(s)}
      /\ \A d \in DOMAIN r : r[d] = s[d]
  BY <1>1 DEF Front
<1> QED  BY <1>1, <1>2 DEF TypeOK

--------------------------------------------------------------------------------
(* A step that changes the innermost frame of t from f to g. *)

(* Worker q is at no place of an open call. *)
Unheld(q) ==
  \A t \in Threads : \A d \in DOMAIN stack[t] :
    \A j \in Held(stack[t][d]) : stack[t][d].work[j] # q

(* Only the innermost frame of t may hold worker q. *)
OnlyTop(q, t) ==
  \A u \in Threads : \A d \in DOMAIN stack[u] : \A j \in Held(stack[u][d]) :
    stack[u][d].work[j] = q => u = t /\ d = Len(stack[t])

(* g holds what f holds, and perhaps a worker that nobody held at place n. *)
Holds(g, f, n) ==
  \A j \in Held(g) : \/ j \in Held(f) /\ g.work[j] = f.work[j]
                     \/ j = n /\ Unheld(g.work[j])

(* What replacing the innermost frame preserves: frames and their calls, ... *)
LEMMA ReplacedFrames ==
  ASSUME FramesOK, CallsApart, NEW t \in Threads, Len(stack[t]) \in DOMAIN stack[t],
         NEW g, Replaced(t, g), g.call = stack[t][Len(stack[t])].call, FrameOK(g),
         DOMAIN times' = DOMAIN times, \A c \in DOMAIN times : DOMAIN times'[c] = DOMAIN times[c]
  PROVE  FramesOK' /\ CallsApart'
<1>1. FramesOK'
  BY DEF FramesOK, FrameOK, Replaced
<1>2. CallsApart'
  BY DEF CallsApart, Replaced
<1> QED  BY <1>1, <1>2

(* ... the workers held by one frame each, ... *)
LEMMA ReplacedHeld ==
  ASSUME HeldOnce, NEW t \in Threads, Len(stack[t]) \in DOMAIN stack[t],
         NEW f, f = stack[t][Len(stack[t])], NEW g, Replaced(t, g),
         NEW n, Holds(g, f, n)
  PROVE  HeldOnce'
<1> SUFFICES ASSUME NEW u \in Threads, NEW v \in Threads,
                    NEW d \in DOMAIN stack[u], NEW e \in DOMAIN stack[v],
                    NEW j \in Held(stack'[u][d]), NEW k \in Held(stack'[v][e]),
                    stack'[u][d].work[j] = stack'[v][e].work[k]
             PROVE  u = v /\ d = e /\ j = k
  BY DEF HeldOnce, Replaced, Held
<1>1. ASSUME NEW w \in Threads, NEW x \in DOMAIN stack[w], NEW l \in Held(stack'[w][x])
      PROVE  \/ /\ l \in Held(stack[w][x])
                /\ stack'[w][x].work[l] = stack[w][x].work[l]
             \/ /\ w = t /\ x = Len(stack[t]) /\ l = n
                /\ Unheld(stack'[w][x].work[l])
  BY <1>1 DEF Replaced, Holds
<1>2. CASE /\ j \in Held(stack[u][d]) /\ stack'[u][d].work[j] = stack[u][d].work[j]
           /\ k \in Held(stack[v][e]) /\ stack'[v][e].work[k] = stack[v][e].work[k]
  <2>1. \A y \in Held(stack[u][d]), z \in Held(stack[v][e]) :
          stack[u][d].work[y] = stack[v][e].work[z] => u = v /\ d = e /\ y = z
    BY DEF HeldOnce
  <2> QED  BY <1>2, <2>1
<1>3. CASE /\ j \in Held(stack[u][d]) /\ stack'[u][d].work[j] = stack[u][d].work[j]
           /\ Unheld(stack'[v][e].work[k])
  BY <1>3 DEF Unheld
<1>4. CASE /\ k \in Held(stack[v][e]) /\ stack'[v][e].work[k] = stack[v][e].work[k]
           /\ Unheld(stack'[u][d].work[j])
  BY <1>4 DEF Unheld
<1> QED  BY <1>1, <1>2, <1>3, <1>4

(* The workers a frame holds. *)
LEMMA HeldTypes ==
  ASSUME TypeOK, NEW t \in Threads, NEW d \in DOMAIN stack[t]
  PROVE  /\ stack[t][d] \in Frame /\ Len(stack[t][d].work) \in Nat
         /\ DOMAIN stack[t][d].work = 1 .. Len(stack[t][d].work)
         /\ \A j \in Held(stack[t][d]) : j \in Nat \ {0} /\ stack[t][d].work[j] \in Workers
<1>1. stack[t][d] \in Frame
  BY DEF TypeOK
<1> QED  BY <1>1 DEF Frame, Held

(* Only worker q changes, and only the frame replaced may hold it. *)
LEMMA ReplacedState ==
  ASSUME TypeOK, HeldState, NEW t \in Threads, Len(stack[t]) \in DOMAIN stack[t],
         NEW g, Replaced(t, g), NEW q,
         \A p \in Workers \ {q} :
           /\ given'[p] = given[p] /\ doing'[p] = doing[p]
           /\ ready'[p] = ready[p] /\ done'[p] = done[p],
         victim' = victim,
         \A p \in Workers \ {q} : Queued(p)' => Queued(p),
         OnlyTop(q, t),
         \A j \in Held(g) : Settled(g, j)'
  PROVE  HeldState'
<1> SUFFICES ASSUME NEW u \in Threads, NEW d \in DOMAIN stack[u],
                    NEW h, h = stack'[u][d], NEW j \in Held(h)
             PROVE  Settled(h, j)'
  BY DEF HeldState, Replaced, Settled, Collected
<1>1. CASE u = t /\ d = Len(stack[t])
  BY <1>1 DEF Replaced
<1>2. CASE ~(u = t /\ d = Len(stack[t]))
  <2>1. h = stack[u][d]
    BY <1>2 DEF Replaced
  <2>2. Settled(h, j)
    BY <2>1 DEF HeldState
  <2>3. h.work[j] \in Workers \ {q}
    BY <1>2, <2>1, HeldTypes DEF OnlyTop
  <2>4. PICK p : p = h.work[j]
    OBVIOUS
  <2>5. /\ given'[p] = given[p] /\ doing'[p] = doing[p]
        /\ ready'[p] = ready[p] /\ done'[p] = done[p]
    BY <2>3, <2>4
  <2>6. p # victim' /\ ~Queued(p)'
    BY <2>2, <2>3, <2>4 DEF Settled
  <2> QED  BY <2>2, <2>4, <2>5, <2>6 DEF Settled, Collected
<1> QED  BY <1>1, <1>2

--------------------------------------------------------------------------------
(* The steps of a caller. *)

(* Telling worker q: it gets a place of its own. *)
Handed(t, f, g, q) ==
  /\ stack' \in [Threads -> Seq(Frame)] /\ Replaced(t, g) /\ FrameOK(g)
  /\ g.call = f.call /\ g.shape = f.shape /\ g.nthr = f.nthr
  /\ g.at \in {"take", "own"}
  /\ f.i = Len(f.work) /\ f.i + 1 \notin Held(f)
  /\ Held(g) = Held(f) \cup {f.i + 1} /\ g.work[f.i + 1] = q
  /\ \A j \in Held(f) : g.work[j] = f.work[j]
  /\ given' \in [Workers -> Record \cup {NULL}] /\ given'[q] = Told(f, f.i)
  /\ \A p \in Workers \ {q} : given'[p] = given[p]

(* A worker is given its work. *)
LEMMA TellFrame ==
  ASSUME OwnedInv, NEW t \in Threads, Is(t, "take"), NEW q \in Workers, Tell(t, q),
         NEW f, f = stack[t][Len(stack[t])]
  PROVE  \E g : Handed(t, f, g, q)
<1>1. stack[t] # <<>> /\ f = Top(t) /\ f \in Frame /\ f.at = "take"
  BY TopFrame DEF OwnedInv, Is, Top
<1>2. FrameOK(f)
  BY TopFrame, <1>1 DEF OwnedInv, FramesOK
<1>3. PICK g : g = [f EXCEPT !.work = Append(@, q), !.i = @ + 1,
                             !.at = Distribute(f.i + 1, f.nthr)]
  OBVIOUS
<1>4. /\ g.call = f.call /\ g.shape = f.shape /\ g.nthr = f.nthr /\ g.i = f.i + 1
      /\ g.work = Append(f.work, q) /\ g.at = IF f.i + 1 = f.nthr - 1 THEN "own" ELSE "take"
      /\ g \in Frame
  <2>1. /\ f.work \in Seq(Workers) /\ f.i \in Nat /\ f.nthr \in Nat
        /\ Append(f.work, q) \in Seq(Workers) /\ Distribute(f.i + 1, f.nthr) \in {"take", "own"}
    BY <1>1 DEF Frame, Distribute
  <2>2. PICK w, n, a : w = Append(f.work, q) /\ n = f.i + 1 /\ a = Distribute(f.i + 1, f.nthr)
    OBVIOUS
  <2>3. g = [f EXCEPT !.work = w, !.i = n, !.at = a]
    BY <1>3, <2>2
  <2>4. w \in Seq(Workers) /\ n \in Nat /\ a \in {"take", "own", "collect", "enqueue"}
    BY <2>1, <2>2
  <2>5. g \in Frame
    BY <1>1, <2>3, <2>4 DEF Frame
  <2>6. /\ g.call = f.call /\ g.shape = f.shape /\ g.nthr = f.nthr
        /\ g.i = n /\ g.work = w /\ g.at = a
    BY <1>1, <2>3 DEF Frame
  <2> QED  BY <2>2, <2>5, <2>6 DEF Distribute
<1>5. f.i \in Nat /\ f.nthr \in Nat /\ f.i = Len(f.work) /\ f.work \in Seq(Workers) /\ f.i < f.nthr - 1
  BY <1>1, <1>2 DEF FrameOK, Frame
<1>6. /\ Len(g.work) = f.i + 1 /\ DOMAIN g.work = DOMAIN f.work \cup {f.i + 1}
      /\ f.i + 1 \notin DOMAIN f.work
      /\ g.work[f.i + 1] = q /\ \A j \in DOMAIN f.work : g.work[j] = f.work[j]
  <2>1. PICK w : w = f.work
    OBVIOUS
  <2>2. w \in Seq(Workers) /\ g.work = Append(w, q) /\ f.i = Len(w) /\ Len(w) \in Nat
    BY <1>4, <1>5, <2>1
  <2>3. Len(Append(w, q)) = Len(w) + 1 /\ DOMAIN Append(w, q) = 1 .. Len(w) + 1
    BY <2>2, AppendProperties, LenProperties
  <2>4. \A j \in 1 .. Len(w) : Append(w, q)[j] = w[j]
    BY <2>2, AppendProperties
  <2>5. Append(w, q)[Len(w) + 1] = q /\ DOMAIN w = 1 .. Len(w)
    BY <2>2, AppendProperties
  <2>6. DOMAIN g.work = DOMAIN f.work \cup {f.i + 1} /\ f.i + 1 \notin DOMAIN f.work
    <3>1. DOMAIN g.work = 1 .. Len(w) + 1 /\ DOMAIN f.work = 1 .. Len(w)
      BY <2>1, <2>2, <2>3, <2>5
    <3> QED  BY <2>2, <3>1
  <2> QED  BY <2>1, <2>2, <2>3, <2>4, <2>5, <2>6
<1>7. Held(g) = DOMAIN g.work /\ Held(f) = DOMAIN f.work /\ g.at \in {"take", "own"}
  BY <1>1, <1>4 DEF Held
<1>8. FrameOK(g)
  BY <1>1, <1>2, <1>4, <1>5, <1>6 DEF FrameOK
<1>9. SetTop(t, g) /\ given' = [given EXCEPT ![q] = Told(f, f.i)]
  BY <1>1, <1>3 DEF Tell, Told
<1>10. stack' \in [Threads -> Seq(Frame)] /\ Replaced(t, g)
  BY <1>1, <1>4, <1>9, SetTopReplaces DEF OwnedInv
<1>11. Told(f, f.i) \in Record
  BY <1>1 DEF Frame, Record, Told
<1>12. /\ given' \in [Workers -> Record \cup {NULL}] /\ given'[q] = Told(f, f.i)
       /\ \A p \in Workers \ {q} : given'[p] = given[p]
  BY <1>9, <1>11 DEF OwnedInv, TypeOK
<1> QED  BY <1>4, <1>5, <1>6, <1>7, <1>8, <1>10, <1>12 DEF Handed

(* Worker q, which nobody holds any more, is told of the next block of t. *)
Gives(t, q) ==
  /\ Is(t, "take") /\ kill = "off" /\ Tell(t, q)
  /\ Unheld(q) /\ q # victim /\ stack[q] = <<>>
  /\ doing' = [doing EXCEPT ![q] = "wait"] /\ ready' = [ready EXCEPT ![q] = 1]
  /\ done' = [done EXCEPT ![q] = 0] /\ UNCHANGED <<kill, victim, ended, times>>
  /\ queue' \in Seq(Workers) /\ QueuedOnce'
  /\ \A p \in Workers : Queued(p)' <=> Queued(p) /\ p # q

LEMMA TellKeeps ==
  ASSUME OwnedInv, NEW t \in Threads, NEW q \in Workers, Gives(t, q)
  PROVE  OwnedInv'
<1> /\ TypeOK /\ FramesOK /\ CallsApart /\ HeldOnce /\ QueuedOnce /\ HeldState
    /\ QueueState /\ VictimState /\ Accounted /\ Quiet
  BY DEF OwnedInv
<1> USE DEF Gives
<1> DEFINE top == Len(stack[t])
<1>1. PICK f : f = stack[t][Len(stack[t])]
  OBVIOUS
<1>2. top \in DOMAIN stack[t] /\ f \in Frame /\ f.i \in Nat
  BY TopFrame, <1>1 DEF Is, Frame
<1>3. PICK g : Handed(t, f, g, q)
  BY <1>1, TellFrame
<1> USE DEF Handed
<1>4. TypeOK'
  BY <1>3 DEF TypeOK
<1>5. FramesOK' /\ CallsApart'
  BY <1>1, <1>2, <1>3, ReplacedFrames
<1>6. HeldOnce'
  <2>1. Holds(g, f, f.i + 1)
    BY <1>3 DEF Holds
  <2> QED  BY <1>1, <1>2, <1>3, <2>1, ReplacedHeld
<1>7. \A p \in Workers \ {q} :
        /\ given'[p] = given[p] /\ doing'[p] = doing[p]
        /\ ready'[p] = ready[p] /\ done'[p] = done[p]
  BY <1>3 DEF TypeOK
<1>8. /\ given'[q] = Told(f, f.i)
      /\ doing'[q] = "wait" /\ ready'[q] = 1 /\ done'[q] = 0
  BY <1>3 DEF TypeOK
<1>9. ASSUME NEW j \in Held(g) PROVE Settled(g, j)'
  <2>1. CASE j = f.i + 1
    <3>1. ~Collected(g, j)
      BY <1>3 DEF Collected
    <3>2. given'[q] = Told(g, j - 1)
      BY <1>2, <1>3, <1>8, <2>1 DEF Told
    <3> QED  BY <1>3, <1>8, <2>1, <3>1, <3>2 DEF Settled, Collected
  <2>2. CASE j \in Held(f)
    <3>1. Settled(f, j) /\ ~Collected(f, j) /\ ~Collected(g, j)
      BY <1>1, <1>2, <1>3, <2>2 DEF HeldState, Is, Last, Collected
    <3>2. PICK p : p = f.work[j] /\ p = g.work[j]
      BY <1>3, <2>2
    <3>3. p \in Workers
      <4>1. \A k \in Held(stack[t][top]) : stack[t][top].work[k] \in Workers
        BY <1>2, HeldTypes
      <4> QED  BY <1>1, <2>2, <3>2, <4>1
    <3>4. p # q
      BY <1>1, <1>2, <2>2, <3>2 DEF Unheld
    <3>5. p # victim' /\ ~Queued(p)'
      BY <3>1, <3>2, <3>3 DEF Settled
    <3>6. Told(g, j - 1) = Told(f, j - 1)
      BY <1>3 DEF Told
    <3> QED  BY <1>7, <3>1, <3>2, <3>3, <3>4, <3>5, <3>6 DEF Settled
  <2> QED  BY <1>3, <2>1, <2>2
<1>10. HeldState'
  <2>1. OnlyTop(q, t)
    BY DEF Unheld, OnlyTop
  <2> QED  BY <1>2, <1>3, <1>7, <1>9, <2>1, ReplacedState
<1>11. QueueState' /\ VictimState' /\ Quiet'
  <2>1. QueueState'
    BY <1>7 DEF QueueState
  <2>2. VictimState' /\ Quiet'
    BY DEF VictimState, Quiet, TypeOK
  <2> QED  BY <2>1, <2>2
<1>12. Accounted'
  <2> SUFFICES ASSUME NEW p \in Workers
               PROVE  /\ doing'[p] # "none" =>
                           Placed(p)' \/ p = victim' \/ Queued(p)'
                      /\ stack'[p] # <<>> => doing'[p] = "work"
    BY DEF Accounted
  <2>1. stack'[p] # <<>> => doing'[p] = "work"
    <3>1. stack'[p] # <<>> => stack[p] # <<>>
      BY <1>3 DEF Replaced, Threads
    <3> QED  BY <1>7, <3>1 DEF Accounted
  <2>2. CASE p = q
    <3>1. top \in DOMAIN stack'[t] /\ stack'[t][top] = g
      BY <1>2, <1>3 DEF Replaced
    <3>2. f.i + 1 \in Held(stack'[t][top]) /\ stack'[t][top].work[f.i + 1] = p
      BY <1>3, <2>2, <3>1
    <3> QED  BY <2>1, <3>1, <3>2 DEF Placed
  <2>3. CASE p # q
    <3>1. doing'[p] = doing[p]
      BY <1>7, <2>3
    <3>2. ASSUME NEW u \in Threads, NEW d \in DOMAIN stack[u], NEW j \in Held(stack[u][d])
          PROVE  /\ d \in DOMAIN stack'[u] /\ j \in Held(stack'[u][d])
                 /\ stack'[u][d].work[j] = stack[u][d].work[j]
      BY <1>1, <1>3 DEF Replaced
    <3>3. ASSUME Placed(p) PROVE Placed(p)'
      <4>1. PICK u \in Threads : \E d \in DOMAIN stack[u] : \E j \in Held(stack[u][d]) :
              stack[u][d].work[j] = p
        BY <3>3 DEF Placed
      <4>2. PICK d \in DOMAIN stack[u] : \E j \in Held(stack[u][d]) : stack[u][d].work[j] = p
        BY <4>1
      <4>3. PICK j \in Held(stack[u][d]) : stack[u][d].work[j] = p
        BY <4>2
      <4>4. d \in DOMAIN stack'[u] /\ j \in Held(stack'[u][d]) /\ stack'[u][d].work[j] = p
        BY <3>2, <4>3
      <4> QED  BY <4>4 DEF Placed
    <3>4. doing[p] # "none" => Placed(p) \/ p = victim \/ Queued(p)
      BY DEF Accounted
    <3>5. victim' = victim
      OBVIOUS
    <3> QED  BY <2>1, <2>3, <3>1, <3>3, <3>4, <3>5
  <2> QED  BY <2>2, <2>3
<1> QED  BY <1>4, <1>5, <1>6, <1>10, <1>11, <1>12 DEF OwnedInv

(* Executing a block leaves the calls and their iterations as they are. *)
LEMMA ExecuteDomains ==
  ASSUME TypeOK, NEW w, w.call \in DOMAIN times, Execute(w)
  PROVE  /\ times' \in Seq(Counts)
         /\ DOMAIN times' = DOMAIN times
         /\ \A c \in DOMAIN times : DOMAIN times'[c] = DOMAIN times[c]
<1>1. PICK old, B : old = times[w.call] /\ B = Block(w.shape[1], w.shape[2], w.i)
  OBVIOUS
<1>2. PICK n \in Nat : old \in [0 .. n - 1 -> Nat]
  <2>1. times[w.call] \in Counts
    BY DEF TypeOK
  <2> QED  BY <1>1, <2>1 DEF Counts
<1>3. PICK new : new = [k \in DOMAIN old |-> IF k \in B THEN old[k] + 1 ELSE old[k]]
  OBVIOUS
<1>4. new \in [0 .. n - 1 -> Nat]
  BY <1>2, <1>3
<1>5. new \in Counts /\ DOMAIN new = DOMAIN old
  BY <1>2, <1>4 DEF Counts
<1>6. times' = [times EXCEPT ![w.call] = new]
  BY <1>1, <1>3 DEF Execute
<1>7. w.call \in 1 .. Len(times) /\ times \in Seq(Counts)
  BY DEF TypeOK
<1>8. times' \in Seq(Counts) /\ DOMAIN times' = DOMAIN times
  BY <1>5, <1>6, <1>7, ExceptSeq
<1>9. \A c \in DOMAIN times : DOMAIN times'[c] = DOMAIN times[c]
  BY <1>1, <1>5, <1>6
<1> QED  BY <1>8, <1>9

(* What f holds g holds at the same place, or it is in the queue now. *)
Released(f, g) ==
  \A j \in Held(f) : \/ j \in Held(g) /\ g.work[j] = f.work[j]
                     \/ Queued(f.work[j])'

(* ... and that nobody is without an owner. *)
LEMMA ReplacedAccounted ==
  ASSUME TypeOK, Accounted, NEW t \in Threads, Len(stack[t]) \in DOMAIN stack[t],
         NEW f, f = stack[t][Len(stack[t])], NEW g, Replaced(t, g), Released(f, g),
         doing' = doing, victim' = victim, \A p \in Workers : Queued(p) => Queued(p)'
  PROVE  Accounted'
<1> SUFFICES ASSUME NEW p \in Workers
             PROVE  /\ doing'[p] # "none" => Placed(p)' \/ p = victim' \/ Queued(p)'
                    /\ stack'[p] # <<>> => doing'[p] = "work"
  BY DEF Accounted
<1>1. stack'[p] # <<>> => doing'[p] = "work"
  BY DEF Replaced, Threads, Accounted
<1>2. ASSUME Placed(p) PROVE Placed(p)' \/ Queued(p)'
  <2>1. PICK u \in Threads : \E d \in DOMAIN stack[u] : \E j \in Held(stack[u][d]) :
          stack[u][d].work[j] = p
    BY <1>2 DEF Placed
  <2>2. PICK d \in DOMAIN stack[u] : \E j \in Held(stack[u][d]) : stack[u][d].work[j] = p
    BY <2>1
  <2>3. PICK j \in Held(stack[u][d]) : stack[u][d].work[j] = p
    BY <2>2
  <2>4. d \in DOMAIN stack'[u]
    BY DEF Replaced
  <2>5. \/ j \in Held(stack'[u][d]) /\ stack'[u][d].work[j] = p
        \/ Queued(p)'
    <3>1. CASE u = t /\ d = Len(stack[t])
      <4>1. stack'[u][d] = g /\ j \in Held(f) /\ f.work[j] = p
        BY <2>3, <3>1 DEF Replaced
      <4> QED  BY <4>1 DEF Released
    <3>2. CASE ~(u = t /\ d = Len(stack[t]))
      BY <2>3, <3>2 DEF Replaced
    <3> QED  BY <3>1, <3>2
  <2> QED  BY <2>4, <2>5 DEF Placed
<1>3. doing[p] # "none" => Placed(p) \/ p = victim \/ Queued(p)
  BY DEF Accounted
<1> QED  BY <1>1, <1>2, <1>3

(* The innermost frame of t goes on from f to g, with the same workers. *)
Goes(t, f, g) ==
  /\ g \in Frame /\ g.call = f.call /\ g.shape = f.shape /\ g.nthr = f.nthr /\ g.work = f.work
  /\ stack' \in [Threads -> Seq(Frame)] /\ Replaced(t, g)

(* How a call goes on: its own block, a completion, a worker back in the queue. *)
LEMMA OwnFrame ==
  ASSUME TypeOK, NEW t \in Threads, Own(t), NEW f, f = stack[t][Len(stack[t])]
  PROVE  \E g : Goes(t, f, g) /\ g.i = 0 /\ g.at = "collect"
<1>1. stack[t] # <<>> /\ f = Top(t) /\ f \in Frame
  BY TopFrame DEF Own, Is
<1>2. PICK g : g = [f EXCEPT !.i = 0, !.at = "collect"]
  OBVIOUS
<1>3. /\ g \in Frame /\ g.call = f.call /\ g.shape = f.shape /\ g.nthr = f.nthr
      /\ g.work = f.work /\ g.i = 0 /\ g.at = "collect"
  BY <1>1, <1>2 DEF Frame
<1>4. stack' \in [Threads -> Seq(Frame)] /\ Replaced(t, g)
  BY <1>1, <1>2, <1>3, SetTopReplaces DEF Own
<1> QED  BY <1>3, <1>4 DEF Goes

LEMMA CollectFrame ==
  ASSUME TypeOK, NEW t \in Threads, Collect(t), NEW f, f = stack[t][Len(stack[t])]
  PROVE  \E g : Goes(t, f, g) /\ g.i = f.i /\ g.at = "enqueue"
<1>1. stack[t] # <<>> /\ f = Top(t) /\ f \in Frame
  BY TopFrame DEF Collect, Is
<1>2. PICK g : g = [f EXCEPT !.at = "enqueue"]
  OBVIOUS
<1>3. /\ g \in Frame /\ g.call = f.call /\ g.shape = f.shape /\ g.nthr = f.nthr
      /\ g.work = f.work /\ g.i = f.i /\ g.at = "enqueue"
  BY <1>1, <1>2 DEF Frame
<1>4. stack' \in [Threads -> Seq(Frame)] /\ Replaced(t, g)
  BY <1>1, <1>2, <1>3, SetTopReplaces DEF Collect
<1> QED  BY <1>3, <1>4 DEF Goes

LEMMA EnqueueFrame ==
  ASSUME TypeOK, NEW t \in Threads, Enqueue(t), NEW f, f = stack[t][Len(stack[t])]
  PROVE  \E g : Goes(t, f, g) /\ g.i = f.i + 1 /\ g.at = "collect"
<1>1. stack[t] # <<>> /\ f = Top(t) /\ f \in Frame
  BY TopFrame DEF Enqueue, Is
<1>2. PICK g : g = [Top(t) EXCEPT !.i = @ + 1, !.at = "collect"]
  OBVIOUS
<1>3. PICK n \in Nat : n = f.i + 1
  BY <1>1 DEF Frame
<1>4. g = [f EXCEPT !.i = n, !.at = "collect"]
  BY <1>1, <1>2, <1>3
<1>5. g \in Frame
  BY <1>1, <1>4 DEF Frame
<1>6. /\ g.call = f.call /\ g.shape = f.shape /\ g.nthr = f.nthr
      /\ g.work = f.work /\ g.i = n /\ g.at = "collect"
  BY <1>1, <1>4 DEF Frame
<1>7. SetTop(t, g)
  BY <1>2 DEF Enqueue
<1>8. stack' \in [Threads -> Seq(Frame)] /\ Replaced(t, g)
  BY <1>1, <1>5, <1>7, SetTopReplaces
<1> QED  BY <1>3, <1>5, <1>6, <1>8 DEF Goes

(* Those steps preserve ownership. *)
LEMMA OwnKeeps ==
  ASSUME OwnedInv, NEW t \in Threads, Own(t)
  PROVE  OwnedInv'
<1> /\ TypeOK /\ FramesOK /\ CallsApart /\ HeldOnce /\ QueuedOnce /\ HeldState
    /\ QueueState /\ VictimState /\ Accounted /\ Quiet
  BY DEF OwnedInv
<1> USE DEF Own
<1> DEFINE top == Len(stack[t])
<1>1. PICK f : f = stack[t][Len(stack[t])]
  OBVIOUS
<1>2. /\ top \in DOMAIN stack[t] /\ f \in Frame /\ f.at = "own" /\ f = Top(t) /\ stack[t] # <<>>
      /\ FrameOK(f)
  BY TopFrame, <1>1 DEF Is, Top, FramesOK
<1>3. PICK g : Goes(t, f, g) /\ g.i = 0 /\ g.at = "collect"
  BY <1>1, OwnFrame
<1>4. /\ g \in Frame /\ g.call = f.call /\ g.shape = f.shape /\ g.nthr = f.nthr
      /\ g.work = f.work /\ g.i = 0 /\ g.at = "collect"
  BY <1>3 DEF Goes
<1>5. stack' \in [Threads -> Seq(Frame)] /\ Replaced(t, g)
  BY <1>3 DEF Goes
<1>6. f.work \in Seq(Workers) /\ f.nthr \in Nat \ {0} /\ f.i \in Nat
  BY <1>2 DEF Frame
<1>7. FrameOK(g)
  BY <1>2, <1>4, <1>6 DEF FrameOK
<1>8. Held(g) = DOMAIN f.work /\ Held(f) = DOMAIN f.work
  BY <1>2, <1>4, <1>6 DEF Held
<1>9. /\ times' \in Seq(Counts) /\ DOMAIN times' = DOMAIN times
      /\ \A c \in DOMAIN times : DOMAIN times'[c] = DOMAIN times[c]
  <2>1. Execute(f) /\ f.call \in DOMAIN times
    BY <1>2 DEF FrameOK
  <2> QED  BY <1>2, <2>1, ExecuteDomains
<1>10. TypeOK'
  BY <1>5, <1>9 DEF TypeOK, poolVars
<1>11. FramesOK' /\ CallsApart'
  BY <1>1, <1>2, <1>4, <1>5, <1>7, <1>9, ReplacedFrames
<1>12. HeldOnce'
  <2>1. Holds(g, f, 0)
    BY <1>4, <1>8 DEF Holds
  <2> QED  BY <1>1, <1>2, <1>5, <2>1, ReplacedHeld
<1>13. UNCHANGED <<doing, given, ready, done, queue, kill, victim, ended>>
  BY DEF poolVars
<1>14. HeldState'
  <2>1. ASSUME NEW j \in Held(g) PROVE Settled(g, j)'
    <3>1. Settled(f, j) /\ ~Collected(f, j) /\ ~Collected(g, j)
      BY <1>1, <1>2, <1>4, <1>8 DEF HeldState, Collected
    <3>2. Told(g, j - 1) = Told(f, j - 1)
      BY <1>4 DEF Told
    <3> QED  BY <1>4, <1>13, <3>1, <3>2 DEF Settled, Queued
  <2>2. OnlyTop(NULL, t)
    BY HeldTypes, SpawnLoopAssumption DEF OnlyTop
  <2>3. \A p \in Workers : Queued(p)' = Queued(p)
    BY <1>13 DEF Queued
  <2> QED  BY <1>2, <1>5, <1>13, <2>1, <2>2, <2>3, ReplacedState
<1>15. QueuedOnce' /\ QueueState' /\ VictimState'
  BY <1>13 DEF QueuedOnce, QueueState, VictimState, Queued
<1>16. Accounted'
  <2>1. Released(f, g)
    BY <1>4, <1>8 DEF Released
  <2> QED  BY <1>1, <1>2, <1>5, <1>13, <2>1, ReplacedAccounted DEF Queued
<1>17. Quiet'
  BY <1>2, <1>13 DEF Quiet
<1> QED  BY <1>10, <1>11, <1>12, <1>14, <1>15, <1>16, <1>17 DEF OwnedInv

(* The worker whose turn it is in a call that gives its workers back. *)
LEMMA CollectTurn ==
  ASSUME OwnedInv, NEW t \in Threads, stack[t] # <<>>, NEW f, f = stack[t][Len(stack[t])],
         f.at \in {"collect", "enqueue"}, f.i < f.nthr - 1
  PROVE  /\ f.i + 1 \in Held(f) /\ f.work[f.i + 1] \in Workers
         /\ Settled(f, f.i + 1) /\ OnlyTop(f.work[f.i + 1], t)
         /\ \A j \in Held(f) : j # f.i + 1 => f.work[j] # f.work[f.i + 1]
<1> TypeOK /\ FramesOK /\ HeldOnce /\ HeldState
  BY DEF OwnedInv
<1> DEFINE top == Len(stack[t])
           n == f.i + 1
<1>1. top \in DOMAIN stack[t] /\ f \in Frame /\ FrameOK(f)
  BY TopFrame DEF FramesOK
<1>2. Len(f.work) = f.nthr - 1 /\ f.i \in Nat /\ f.nthr \in Nat \ {0} /\ DOMAIN f.work = 1 .. Len(f.work)
  BY <1>1 DEF Frame, FrameOK
<1>3. n \in Held(f)
  BY <1>2 DEF Held
<1>4. \A j \in Held(stack[t][top]) : stack[t][top].work[j] \in Workers
  BY <1>1, HeldTypes
<1>5. f.work[n] \in Workers /\ Settled(f, n)
  BY <1>1, <1>3, <1>4 DEF HeldState
<1>6. ASSUME NEW u \in Threads, NEW d \in DOMAIN stack[u], NEW j \in Held(stack[u][d]),
             stack[u][d].work[j] = f.work[n]
      PROVE  u = t /\ d = top /\ j = n
  <2>1. \A y \in Held(stack[u][d]), z \in Held(stack[t][top]) :
          stack[u][d].work[y] = stack[t][top].work[z] => u = t /\ d = top /\ y = z
    BY <1>1 DEF HeldOnce
  <2> QED  BY <1>3, <1>6, <2>1
<1>7. OnlyTop(f.work[n], t)
  BY <1>6 DEF OnlyTop
<1> QED  BY <1>1, <1>3, <1>5, <1>6, <1>7

LEMMA CollectKeeps ==
  ASSUME OwnedInv, NEW t \in Threads, Collect(t)
  PROVE  OwnedInv'
<1> /\ TypeOK /\ FramesOK /\ CallsApart /\ HeldOnce /\ QueuedOnce /\ HeldState
    /\ QueueState /\ VictimState /\ Accounted /\ Quiet
  BY DEF OwnedInv
<1> DEFINE top == Len(stack[t])
<1>1. PICK f : f = stack[t][Len(stack[t])]
  OBVIOUS
<1>2. /\ top \in DOMAIN stack[t] /\ f \in Frame /\ f.at = "collect" /\ f = Top(t) /\ stack[t] # <<>>
      /\ FrameOK(f) /\ f.i < f.nthr - 1
  BY TopFrame, <1>1 DEF Is, Top, FramesOK, Collect
<1>3. PICK g : Goes(t, f, g) /\ g.i = f.i /\ g.at = "enqueue"
  BY <1>1, CollectFrame
<1>4. /\ g \in Frame /\ g.call = f.call /\ g.shape = f.shape /\ g.nthr = f.nthr
      /\ g.work = f.work /\ g.i = f.i /\ g.at = "enqueue"
  BY <1>3 DEF Goes
<1>5. stack' \in [Threads -> Seq(Frame)] /\ Replaced(t, g)
  BY <1>3 DEF Goes
<1>6. f.nthr \in Nat \ {0} /\ f.i \in Nat
  BY <1>2 DEF Frame
<1>7. FrameOK(g)
  BY <1>2, <1>4, <1>6 DEF FrameOK
<1>8. Held(g) = Held(f)
  BY <1>2, <1>4 DEF Held
<1>9. PICK q : q = f.work[f.i + 1]
  OBVIOUS
<1>10. /\ f.i + 1 \in Held(f) /\ q \in Workers /\ Settled(f, f.i + 1) /\ OnlyTop(q, t)
       /\ \A j \in Held(f) : j # f.i + 1 => f.work[j] # q
  BY <1>1, <1>2, <1>9, CollectTurn
<1>11. /\ done[q] > 0 /\ done' = [done EXCEPT ![q] = @ - 1]
       /\ UNCHANGED <<doing, given, ready, queue, kill, victim, ended, times>>
  BY <1>2, <1>9 DEF Collect, poolVars
<1>12. doing[q] = "wait" /\ ready[q] = 0 /\ done[q] = 1 /\ q # victim /\ ~Queued(q)
  <2>1. ~Collected(f, f.i + 1)
    BY <1>2 DEF Collected
  <2> QED  BY <1>9, <1>10, <1>11, <2>1 DEF Settled
<1>13. done' \in [Workers -> Nat] /\ done'[q] = 0 /\ \A p \in Workers \ {q} : done'[p] = done[p]
  BY <1>10, <1>11, <1>12 DEF TypeOK
<1>14. TypeOK'
  BY <1>5, <1>11, <1>13 DEF TypeOK
<1>15. FramesOK' /\ CallsApart'
  BY <1>1, <1>2, <1>4, <1>5, <1>7, <1>11, ReplacedFrames
<1>16. HeldOnce'
  <2>1. Holds(g, f, 0)
    BY <1>4, <1>8 DEF Holds
  <2> QED  BY <1>1, <1>2, <1>5, <2>1, ReplacedHeld
<1>17. \A p \in Workers : Queued(p)' = Queued(p)
  BY <1>11 DEF Queued
<1>18. HeldState'
  <2>1. ASSUME NEW j \in Held(g) PROVE Settled(g, j)'
    <3>1. j \in Held(f) /\ Told(g, j - 1) = Told(f, j - 1)
      BY <1>4, <1>8 DEF Told
    <3>2. CASE j = f.i + 1
      BY <1>4, <1>9, <1>10, <1>11, <1>12, <1>13, <1>17, <3>1, <3>2 DEF Settled, Collected
    <3>3. CASE j # f.i + 1
      <4>1. Settled(f, j) /\ ~Collected(f, j) /\ ~Collected(g, j)
        BY <1>1, <1>2, <1>4, <3>1, <3>3 DEF HeldState, Collected
      <4>2. PICK p : p = f.work[j]
        OBVIOUS
      <4>3. p \in Workers \ {q}
        <5>1. \A k \in Held(stack[t][top]) : stack[t][top].work[k] \in Workers
          BY <1>2, HeldTypes
        <5> QED  BY <1>1, <1>10, <3>1, <3>3, <4>2, <5>1
      <4> QED  BY <1>4, <1>11, <1>13, <1>17, <3>1, <4>1, <4>2, <4>3 DEF Settled
    <3> QED  BY <3>2, <3>3
  <2> QED  BY <1>2, <1>5, <1>10, <1>11, <1>13, <1>17, <2>1, ReplacedState
<1>19. QueueState'
  BY <1>11, <1>12, <1>13, <1>17 DEF QueueState
<1>20. QueuedOnce' /\ VictimState'
  <2>1. victim \in Workers => done'[victim] = done[victim]
    BY <1>12, <1>13
  <2> QED  BY <1>11, <2>1 DEF QueuedOnce, VictimState
<1>21. Accounted'
  <2>1. Released(f, g)
    BY <1>4, <1>8 DEF Released
  <2> QED  BY <1>1, <1>2, <1>5, <1>11, <1>17, <2>1, ReplacedAccounted
<1>22. Quiet'
  BY <1>2, <1>11 DEF Quiet
<1> QED  BY <1>14, <1>15, <1>16, <1>18, <1>19, <1>20, <1>21, <1>22 DEF OwnedInv

LEMMA EnqueueKeeps ==
  ASSUME OwnedInv, NEW t \in Threads, Enqueue(t)
  PROVE  OwnedInv'
<1> /\ TypeOK /\ FramesOK /\ CallsApart /\ HeldOnce /\ QueuedOnce /\ HeldState
    /\ QueueState /\ VictimState /\ Accounted /\ Quiet
  BY DEF OwnedInv
<1> DEFINE top == Len(stack[t])
<1>1. PICK f : f = stack[t][Len(stack[t])]
  OBVIOUS
<1>2. /\ top \in DOMAIN stack[t] /\ f \in Frame /\ f.at = "enqueue" /\ f = Top(t) /\ stack[t] # <<>>
      /\ FrameOK(f) /\ f.i < f.nthr - 1
  BY TopFrame, <1>1 DEF Is, Top, FramesOK, FrameOK, Enqueue
<1>3. f.nthr \in Nat \ {0} /\ f.i \in Nat
  BY <1>2 DEF Frame
<1>4. PICK g : Goes(t, f, g) /\ g.i = f.i + 1 /\ g.at = "collect"
  BY <1>1, EnqueueFrame
<1>5. /\ g \in Frame /\ g.call = f.call /\ g.shape = f.shape /\ g.nthr = f.nthr
      /\ g.work = f.work /\ g.i = f.i + 1 /\ g.at = "collect"
  BY <1>4 DEF Goes
<1>6. stack' \in [Threads -> Seq(Frame)] /\ Replaced(t, g)
  BY <1>4 DEF Goes
<1>7. FrameOK(g)
  BY <1>2, <1>3, <1>5 DEF FrameOK
<1>8. Held(g) = Held(f) \ {f.i + 1}
  <2>1. Held(f) = {j \in DOMAIN f.work : f.i < j} /\ Held(g) = {j \in DOMAIN f.work : f.i + 1 < j}
    BY <1>2, <1>5 DEF Held
  <2>2. \A j \in DOMAIN f.work : j \in Nat
    BY <1>2 DEF Frame
  <2>3. \A j \in DOMAIN f.work : f.i + 1 < j <=> f.i < j /\ j # f.i + 1
    BY <1>3, <2>2
  <2> QED  BY <2>1, <2>3
<1>9. PICK q : q = f.work[f.i + 1]
  OBVIOUS
<1>10. /\ f.i + 1 \in Held(f) /\ q \in Workers /\ Settled(f, f.i + 1) /\ OnlyTop(q, t)
       /\ \A j \in Held(f) : j # f.i + 1 => f.work[j] # q
  BY <1>1, <1>2, <1>9, CollectTurn
<1>11. /\ queue' = <<q>> \o queue
       /\ UNCHANGED <<doing, given, ready, done, kill, victim, ended, times>> /\ kill = "off"
  BY <1>2, <1>9 DEF Enqueue
<1>12. doing[q] = "wait" /\ ready[q] = 0 /\ done[q] = 0 /\ q # victim /\ ~Queued(q)
  BY <1>2, <1>9, <1>10 DEF Settled, Collected
<1>13. /\ queue' \in Seq(Workers) /\ QueuedOnce'
       /\ \A p \in Workers : Queued(p)' <=> Queued(p) \/ p = q
  <2>1. PICK s : s = queue
    OBVIOUS
  <2>2. s \in Seq(Workers) /\ Len(s) \in Nat
    BY <2>1 DEF TypeOK
  <2>3. /\ <<q>> \o s \in Seq(Workers) /\ Len(<<q>> \o s) = Len(s) + 1
        /\ DOMAIN (<<q>> \o s) = 1 .. Len(s) + 1 /\ DOMAIN s = 1 .. Len(s)
        /\ (<<q>> \o s)[1] = q
        /\ \A m \in 1 .. Len(s) : (<<q>> \o s)[m + 1] = s[m]
    BY <1>10, <2>2
  <2>4. PICK r : r = <<q>> \o s
    OBVIOUS
  <2>5. /\ queue' = r /\ r \in Seq(Workers) /\ DOMAIN r = 1 .. Len(s) + 1 /\ r[1] = q
        /\ \A m \in 1 .. Len(s) : r[m + 1] = s[m]
    BY <1>11, <2>1, <2>3, <2>4
  <2>6. \A m \in 2 .. Len(s) + 1 : m - 1 \in 1 .. Len(s) /\ r[m] = s[m - 1]
    BY <2>2, <2>5
  <2>7. \A m \in 1 .. Len(s) : s[m] # q
    BY <1>12, <2>1, <2>3 DEF Queued
  <2>8. QueuedOnce'
    <3>1. \A m, n \in 1 .. Len(s) : s[m] = s[n] => m = n
      BY <2>1, <2>3 DEF QueuedOnce
    <3> SUFFICES ASSUME NEW m \in 1 .. Len(s) + 1, NEW n \in 1 .. Len(s) + 1, r[m] = r[n]
                 PROVE  m = n
      BY <2>5 DEF QueuedOnce
    <3>2. m = 1 \/ m \in 2 .. Len(s) + 1
      BY <2>2
    <3>3. n = 1 \/ n \in 2 .. Len(s) + 1
      BY <2>2
    <3> QED  BY SMTT(30), <2>2, <2>5, <2>6, <2>7, <3>1, <3>2, <3>3
  <2>9. ASSUME NEW p \in Workers PROVE Queued(p)' <=> Queued(p) \/ p = q
    <3>1. ASSUME Queued(p) PROVE Queued(p)'
      <4>1. PICK m \in 1 .. Len(s) : s[m] = p
        BY <2>1, <2>3, <3>1 DEF Queued
      <4>2. m + 1 \in 1 .. Len(s) + 1 /\ r[m + 1] = p
        BY <2>2, <2>5, <4>1
      <4> QED  BY <2>5, <4>2 DEF Queued
    <3>2. Queued(q)'
      BY <2>2, <2>5 DEF Queued
    <3>3. ASSUME Queued(p)', p # q PROVE Queued(p)
      <4>1. PICK m \in 1 .. Len(s) + 1 : r[m] = p
        BY <2>5, <3>3 DEF Queued
      <4>2. m \in 2 .. Len(s) + 1
        BY <2>2, <2>5, <3>3, <4>1
      <4> QED  BY <2>1, <2>3, <2>6, <4>1, <4>2 DEF Queued
    <3> QED  BY <3>1, <3>2, <3>3
  <2> QED  BY <2>5, <2>8, <2>9
<1>14. TypeOK'
  BY <1>6, <1>11, <1>13 DEF TypeOK
<1>15. FramesOK' /\ CallsApart'
  BY <1>1, <1>2, <1>5, <1>6, <1>7, <1>11, ReplacedFrames
<1>16. HeldOnce'
  <2>1. Holds(g, f, 0)
    BY <1>5, <1>8 DEF Holds
  <2> QED  BY <1>1, <1>2, <1>6, <2>1, ReplacedHeld
<1>17. HeldState'
  <2>1. ASSUME NEW j \in Held(g) PROVE Settled(g, j)'
    <3>1. j \in Held(f) /\ j # f.i + 1 /\ Told(g, j - 1) = Told(f, j - 1)
      BY <1>5, <1>8 DEF Told
    <3>2. Settled(f, j) /\ ~Collected(f, j) /\ ~Collected(g, j)
      BY <1>1, <1>2, <1>5, <3>1 DEF HeldState, Collected
    <3>3. PICK p : p = f.work[j]
      OBVIOUS
    <3>4. p \in Workers \ {q}
      <4>1. \A k \in Held(stack[t][top]) : stack[t][top].work[k] \in Workers
        BY <1>2, HeldTypes
      <4> QED  BY <1>1, <1>10, <3>1, <3>3, <4>1
    <3> QED  BY <1>5, <1>11, <1>13, <3>1, <3>2, <3>3, <3>4 DEF Settled
  <2> QED  BY <1>2, <1>6, <1>10, <1>11, <1>13, <2>1, ReplacedState
<1>18. QueueState'
  BY <1>11, <1>12, <1>13 DEF QueueState
<1>19. VictimState' /\ Quiet'
  BY <1>11 DEF VictimState, Quiet
<1>20. Accounted'
  <2>1. Released(f, g)
    BY <1>5, <1>8, <1>9, <1>10, <1>13 DEF Released
  <2> QED  BY <1>1, <1>2, <1>6, <1>11, <1>13, <2>1, ReplacedAccounted
<1> QED  BY <1>13, <1>14, <1>15, <1>16, <1>17, <1>18, <1>19, <1>20 DEF OwnedInv

(* Taking the first worker from the queue. *)
LEMMA HeadTaken ==
  ASSUME TypeOK, QueuedOnce, queue # <<>>, NEW q, q = Head(queue), queue' = Tail(queue)
  PROVE  /\ q \in Workers /\ Queued(q) /\ queue' \in Seq(Workers) /\ QueuedOnce'
         /\ \A p \in Workers : Queued(p)' <=> Queued(p) /\ p # q
<1>1. PICK s : s = queue /\ s \in Seq(Workers) /\ s # <<>> /\ queue' = Tail(s)
  BY DEF TypeOK
<1>2. PICK r : r = Tail(s)
  OBVIOUS
<1>3. /\ q = s[1] /\ Len(s) \in Nat \ {0} /\ DOMAIN s = 1 .. Len(s) /\ r \in Seq(Workers)
      /\ DOMAIN r = 1 .. Len(s) - 1 /\ \A m \in 1 .. Len(s) - 1 : r[m] = s[m + 1]
  <2>1. Len(s) \in Nat \ {0} /\ DOMAIN s = 1 .. Len(s)
    BY <1>1
  <2>2. r \in Seq(Workers) /\ Len(r) = Len(s) - 1 /\ \A m \in 1 .. Len(r) : r[m] = s[m + 1]
    BY <1>1, <1>2, HeadTailProperties
  <2> QED  BY <1>1, <2>1, <2>2
<1>4. \A m, n \in 1 .. Len(s) : s[m] = s[n] => m = n
  BY <1>1, <1>3 DEF QueuedOnce
<1>5. q \in Workers /\ Queued(q)
  <2>1. 1 \in DOMAIN s
    BY <1>3
  <2> QED  BY <1>1, <1>3, <2>1 DEF Queued
<1>6. QueuedOnce'
  <2> SUFFICES ASSUME NEW m \in 1 .. Len(s) - 1, NEW n \in 1 .. Len(s) - 1, r[m] = r[n]
               PROVE  m = n
    BY <1>1, <1>2, <1>3 DEF QueuedOnce
  <2>1. m + 1 \in 1 .. Len(s) /\ n + 1 \in 1 .. Len(s) /\ s[m + 1] = s[n + 1]
    BY <1>3
  <2>2. m + 1 = n + 1
    BY <1>4, <2>1
  <2> QED  BY <2>2
<1>7. ASSUME NEW p \in Workers PROVE Queued(p)' <=> Queued(p) /\ p # q
  <2>1. ASSUME Queued(p)' PROVE Queued(p) /\ p # q
    <3>1. PICK m \in 1 .. Len(s) - 1 : r[m] = p
      BY <1>1, <1>2, <1>3, <2>1 DEF Queued
    <3>2. m + 1 \in 1 .. Len(s) /\ s[m + 1] = p /\ m + 1 # 1 /\ 1 \in 1 .. Len(s)
      BY <1>3, <3>1
    <3>3. p # q
      BY <1>3, <1>4, <3>2
    <3> QED  BY <1>1, <1>3, <3>2, <3>3 DEF Queued
  <2>2. ASSUME Queued(p), p # q PROVE Queued(p)'
    <3>1. PICK m \in 1 .. Len(s) : s[m] = p
      BY <1>1, <1>3, <2>2 DEF Queued
    <3>2. m # 1
      BY <1>3, <2>2, <3>1
    <3>3. m - 1 \in 1 .. Len(s) - 1
      BY <1>3, <3>2
    <3>4. r[m - 1] = s[(m - 1) + 1]
      BY <1>3, <3>3
    <3>5. r[m - 1] = p
      BY <1>3, <3>1, <3>4
    <3> QED  BY <1>1, <1>2, <1>3, <3>3, <3>5 DEF Queued
  <2> QED  BY <2>1, <2>2
<1> QED  BY <1>1, <1>2, <1>3, <1>5, <1>6, <1>7

(* Workers come from the queue or are made. *)
LEMMA TakeGives ==
  ASSUME OwnedInv, NEW t \in Threads, Take(t)
  PROVE  \E q \in Workers : Gives(t, q)
<1> /\ TypeOK /\ QueuedOnce /\ HeldState /\ QueueState /\ Accounted
  BY DEF OwnedInv
<1>1. PICK q : q = Head(queue)
  OBVIOUS
<1>2. /\ Is(t, "take") /\ kill = "off" /\ queue # <<>> /\ queue' = Tail(queue)
      /\ Tell(t, q) /\ ready' = [ready EXCEPT ![q] = @ + 1]
      /\ UNCHANGED <<doing, done, kill, victim, ended, times>>
  BY <1>1 DEF Take
<1>3. /\ q \in Workers /\ Queued(q) /\ queue' \in Seq(Workers) /\ QueuedOnce'
      /\ \A p \in Workers : Queued(p)' <=> Queued(p) /\ p # q
  BY <1>1, <1>2, HeadTaken
<1>4. doing[q] = "wait" /\ ready[q] = 0 /\ done[q] = 0 /\ q # victim
  BY <1>3 DEF QueueState
<1>5. Unheld(q) /\ stack[q] = <<>>
  BY <1>3, <1>4 DEF Unheld, HeldState, Settled, Accounted
<1>6. /\ doing' = [doing EXCEPT ![q] = "wait"] /\ ready' = [ready EXCEPT ![q] = 1]
      /\ done' = [done EXCEPT ![q] = 0]
  BY <1>2, <1>3, <1>4 DEF TypeOK
<1> QED  BY <1>2, <1>3, <1>4, <1>5, <1>6 DEF Gives

LEMMA MakeGives ==
  ASSUME OwnedInv, NEW t \in Threads, Make(t)
  PROVE  \E q \in Workers : Gives(t, q)
<1> /\ TypeOK /\ QueuedOnce /\ HeldState /\ QueueState /\ Accounted /\ VictimState
  BY DEF OwnedInv
<1>1. PICK q : q = CHOOSE x \in Workers \ Exist : TRUE
  OBVIOUS
<1>2. /\ Is(t, "take") /\ kill = "off" /\ queue = <<>> /\ Exist # Workers
      /\ doing' = [doing EXCEPT ![q] = "wait"] /\ done' = [done EXCEPT ![q] = 0]
      /\ Tell(t, q) /\ ready' = [ready EXCEPT ![q] = 1]
      /\ UNCHANGED <<kill, victim, ended, times>> /\ queue' = queue
  BY <1>1 DEF Make, poolVars
<1>3. q \in Workers /\ doing[q] = "none"
  BY <1>1, <1>2 DEF Exist
<1>4. Unheld(q) /\ stack[q] = <<>>
  BY <1>3 DEF Unheld, HeldState, Settled, Accounted
<1>5. q # victim
  BY <1>2, <1>3, SpawnLoopAssumption DEF VictimState
<1>6. queue' \in Seq(Workers) /\ QueuedOnce'
  BY <1>2 DEF TypeOK, QueuedOnce
<1>7. \A p \in Workers : Queued(p)' <=> Queued(p) /\ p # q
  BY <1>2, <1>3 DEF Queued
<1>8. /\ Is(t, "take") /\ kill = "off" /\ Tell(t, q) /\ UNCHANGED <<kill, victim, ended, times>>
      /\ doing' = [doing EXCEPT ![q] = "wait"] /\ ready' = [ready EXCEPT ![q] = 1]
      /\ done' = [done EXCEPT ![q] = 0]
  BY <1>2
<1> QED  BY <1>3, <1>4, <1>5, <1>6, <1>7, <1>8 DEF Gives

(* A call returns when it holds no worker. *)
LEMMA ReturnKeeps ==
  ASSUME OwnedInv, NEW t \in Threads, Return(t)
  PROVE  OwnedInv'
<1> /\ TypeOK /\ FramesOK /\ CallsApart /\ HeldOnce /\ QueuedOnce /\ HeldState
    /\ QueueState /\ VictimState /\ Accounted /\ Quiet
  BY DEF OwnedInv
<1> DEFINE top == Len(stack[t])
<1>1. PICK f : f = stack[t][Len(stack[t])]
  OBVIOUS
<1>2. /\ top \in DOMAIN stack[t] /\ f \in Frame /\ f.at = "collect" /\ stack[t] # <<>>
      /\ FrameOK(f) /\ f.i = f.nthr - 1
  BY TopFrame, <1>1 DEF Is, Top, FramesOK, Return
<1>3. Held(f) = {}
  <2>1. Len(f.work) = f.i /\ DOMAIN f.work = 1 .. Len(f.work) /\ f.i \in Nat
    BY <1>2 DEF FrameOK, Frame
  <2> QED  BY <1>2, <2>1 DEF Held
<1>4. UNCHANGED <<doing, given, ready, done, queue, kill, victim, ended, times>>
  BY DEF Return, poolVars
<1>5. /\ stack' \in [Threads -> Seq(Frame)]
      /\ \A u \in Threads : u # t => stack'[u] = stack[u]
      /\ DOMAIN stack'[t] = DOMAIN stack[t] \ {top}
      /\ \A d \in DOMAIN stack'[t] : stack'[t][d] = stack[t][d]
  BY <1>2, PopFrame DEF Return
<1>6. \A u \in Threads : \A d \in DOMAIN stack'[u] :
        d \in DOMAIN stack[u] /\ stack'[u][d] = stack[u][d]
  BY <1>5
<1>7. TypeOK'
  BY <1>4, <1>5 DEF TypeOK
<1>8. FramesOK' /\ CallsApart'
  BY <1>4, <1>6 DEF FramesOK, FrameOK, CallsApart
<1>9. HeldOnce'
  <2> SUFFICES ASSUME NEW u \in Threads, NEW v \in Threads,
                      NEW d \in DOMAIN stack[u], NEW e \in DOMAIN stack[v],
                      NEW j \in Held(stack[u][d]), NEW k \in Held(stack[v][e]),
                      stack[u][d].work[j] = stack[v][e].work[k]
               PROVE  u = v /\ d = e /\ j = k
    BY <1>6 DEF HeldOnce, Held
  <2>1. \A y \in Held(stack[u][d]), z \in Held(stack[v][e]) :
          stack[u][d].work[y] = stack[v][e].work[z] => u = v /\ d = e /\ y = z
    BY DEF HeldOnce
  <2> QED  BY <2>1
<1>10. HeldState'
  <2> SUFFICES ASSUME NEW u \in Threads, NEW d \in DOMAIN stack'[u],
                      NEW h, h = stack'[u][d], NEW j \in Held(h)
               PROVE  Settled(h, j)'
    BY DEF HeldState, Settled, Collected
  <2>1. Settled(h, j)
    BY <1>6 DEF HeldState
  <2> QED  BY <1>4, <2>1 DEF Settled, Collected, Queued
<1>11. QueuedOnce' /\ QueueState' /\ VictimState'
  BY <1>4 DEF QueuedOnce, QueueState, VictimState, Queued
<1>12. Accounted'
  <2> SUFFICES ASSUME NEW p \in Workers
               PROVE  /\ doing'[p] # "none" => Placed(p)' \/ p = victim' \/ Queued(p)'
                      /\ stack'[p] # <<>> => doing'[p] = "work"
    BY DEF Accounted
  <2>1. stack'[p] # <<>> => stack[p] # <<>>
    BY <1>2, <1>5 DEF Threads
  <2>2. ASSUME Placed(p) PROVE Placed(p)'
    <3>1. PICK u \in Threads : \E d \in DOMAIN stack[u] : \E j \in Held(stack[u][d]) :
            stack[u][d].work[j] = p
      BY <2>2 DEF Placed
    <3>2. PICK d \in DOMAIN stack[u] : \E j \in Held(stack[u][d]) : stack[u][d].work[j] = p
      BY <3>1
    <3>3. PICK j \in Held(stack[u][d]) : stack[u][d].work[j] = p
      BY <3>2
    <3>4. d \in DOMAIN stack'[u] /\ stack'[u][d] = stack[u][d]
      BY <1>1, <1>3, <1>5, <3>3
    <3> QED  BY <3>3, <3>4 DEF Placed
  <2> QED  BY <1>4, <2>1, <2>2 DEF Accounted, Queued
<1>13. Quiet'
  BY <1>2, <1>4 DEF Quiet
<1> QED  BY <1>7, <1>8, <1>9, <1>10, <1>11, <1>12, <1>13 DEF OwnedInv

(* A loop that is not empty uses at least one thread. *)
LEMMA ThreadsOfLoop ==
  ASSUME NEW shape \in Shapes
  PROVE  /\ shape[1] \in Nat /\ shape[2] \in Nat \ {0}
         /\ shape[1] # 0 => ThreadsUsed(shape[1], shape[2]) \in Nat \ {0}
<1>1. shape[1] \in Nat /\ shape[2] \in Nat \ {0}
  BY SpawnLoopAssumption
<1>2. ASSUME shape[1] # 0 PROVE ThreadsUsed(shape[1], shape[2]) \in Nat \ {0}
  <2>1. ThreadsUsed(shape[1], shape[2]) \in 1 .. shape[2]
    BY <1>1, <1>2, BlocksPartition
  <2> QED  BY <1>1, <2>1
<1> QED  BY <1>1, <1>2

(* The frame of a call that was just entered. *)
Entered(g, shape) ==
  /\ g \in Frame /\ g.call = Len(times) + 1 /\ g.shape = shape /\ g.i = 0 /\ g.work = <<>>
  /\ g.nthr = IF shape[1] = 0 THEN 1 ELSE ThreadsUsed(shape[1], shape[2])
  /\ g.at = IF shape[1] = 0 THEN "collect" ELSE Distribute(0, g.nthr)

(* A call of spawn_loop begins with a count of zero for each iteration. *)
LEMMA CallEnters ==
  ASSUME TypeOK, NEW t \in Threads, NEW shape \in Shapes, Call(t, shape)
  PROVE  /\ \E g : Entered(g, shape) /\ Pushed(t, g)
         /\ times' \in Seq(Counts) /\ DOMAIN times' = 1 .. Len(times) + 1
         /\ \A c \in 1 .. Len(times) : times'[c] = times[c]
         /\ DOMAIN times'[Len(times) + 1] = 0 .. shape[1] - 1
         /\ \A k \in 0 .. shape[1] - 1 : times'[Len(times) + 1][k] = 0
<1>1. PICK nthr : nthr = IF shape[1] = 0 THEN 1 ELSE ThreadsUsed(shape[1], shape[2])
  OBVIOUS
<1>2. PICK at : at = IF shape[1] = 0 THEN "collect" ELSE Distribute(0, nthr)
  OBVIOUS
<1>3. PICK new : new = [k \in 0 .. shape[1] - 1 |-> 0]
  OBVIOUS
<1>4. PICK g : g = [call |-> Len(times) + 1, shape |-> shape, nthr |-> nthr, i |-> 0,
                    work |-> <<>>, at |-> at]
  OBVIOUS
<1>5. stack' = [stack EXCEPT ![t] = Append(@, g)] /\ times' = Append(times, new)
  BY <1>1, <1>2, <1>3, <1>4 DEF Call
<1>6. shape[1] \in Nat /\ nthr \in Nat \ {0} /\ at \in {"take", "own", "collect"}
  BY <1>1, <1>2, ThreadsOfLoop DEF Distribute
<1>7. times \in Seq(Counts) /\ Len(times) \in Nat
  BY DEF TypeOK
<1>8. g \in Frame
  <2>1. Len(times) + 1 \in Nat \ {0} /\ <<>> \in Seq(Workers)
    BY <1>7
  <2> QED  BY <1>4, <1>6, <2>1 DEF Frame
<1>9. Entered(g, shape)
  <2>1. /\ g.call = Len(times) + 1 /\ g.shape = shape /\ g.nthr = nthr /\ g.i = 0
        /\ g.work = <<>> /\ g.at = at
    BY <1>4
  <2> QED  BY <1>1, <1>2, <1>8, <2>1 DEF Entered
<1>10. Pushed(t, g)
  BY <1>5, <1>8, PushFrame
<1>11. /\ times' \in Seq(Counts) /\ DOMAIN times' = 1 .. Len(times) + 1
       /\ \A c \in 1 .. Len(times) : times'[c] = times[c]
       /\ times'[Len(times) + 1] = new
  <2>1. new \in [0 .. shape[1] - 1 -> Nat]
    BY <1>3
  <2>2. new \in Counts
    BY <1>6, <2>1 DEF Counts
  <2> QED  BY <1>5, <1>7, <2>2, AppendProperties
<1> QED  BY <1>3, <1>9, <1>10, <1>11

LEMMA CallKeeps ==
  ASSUME OwnedInv, NEW t \in Threads, NEW shape \in Shapes, Call(t, shape)
  PROVE  OwnedInv'
<1> /\ TypeOK /\ FramesOK /\ CallsApart /\ HeldOnce /\ QueuedOnce /\ HeldState
    /\ QueueState /\ VictimState /\ Accounted /\ Quiet
  BY DEF OwnedInv
<1> DEFINE top == Len(stack[t]) + 1
           loopmax == shape[1]
<1>1. PICK g : Entered(g, shape) /\ Pushed(t, g)
  BY CallEnters
<1>2. PICK nthr, at : nthr = g.nthr /\ at = g.at
  OBVIOUS
<1>3. /\ g \in Frame /\ g.call = Len(times) + 1 /\ g.shape = shape /\ g.nthr = nthr /\ g.i = 0
      /\ g.work = <<>> /\ g.at = at
      /\ nthr = IF loopmax = 0 THEN 1 ELSE ThreadsUsed(loopmax, shape[2])
      /\ at = IF loopmax = 0 THEN "collect" ELSE Distribute(0, nthr)
  BY <1>1, <1>2 DEF Entered
<1>4. times \in Seq(Counts) /\ Len(times) \in Nat /\ DOMAIN times = 1 .. Len(times)
  BY DEF TypeOK
<1>5. loopmax \in Nat /\ nthr \in Nat \ {0} /\ at \in {"take", "own", "collect"}
  BY <1>3, ThreadsOfLoop DEF Distribute
<1>6. /\ UNCHANGED <<doing, given, ready, done, queue, kill, victim, ended>> /\ kill = "off"
      /\ t \in Apps \/ InProc(t)
  BY DEF Call, poolVars
<1>7. /\ stack' \in [Threads -> Seq(Frame)]
      /\ \A u \in Threads : u # t => stack'[u] = stack[u]
      /\ stack'[t] # <<>> /\ DOMAIN stack'[t] = DOMAIN stack[t] \cup {top}
      /\ top \notin DOMAIN stack[t]
      /\ \A d \in DOMAIN stack[t] : stack'[t][d] = stack[t][d]
      /\ stack'[t][top] = g
  BY <1>1 DEF Pushed
<1>8. /\ times' \in Seq(Counts) /\ DOMAIN times' = 1 .. Len(times) + 1
      /\ \A c \in 1 .. Len(times) : times'[c] = times[c]
      /\ DOMAIN times'[Len(times) + 1] = 0 .. loopmax - 1
  BY CallEnters
<1>9. Held(g) = {}
  BY <1>3 DEF Held
<1>10. FrameOK(g)'
  <2>1. /\ at \in {"take", "own"} => loopmax # 0
        /\ at # "take" => nthr = 1 /\ at # "enqueue"
        /\ at = "take" => nthr > 1
        /\ nthr = IF loopmax = 0 THEN 1 ELSE ThreadsUsed(loopmax, shape[2])
    BY <1>3, <1>5 DEF Distribute
  <2>2. Len(g.work) = 0
    BY <1>3
  <2>3. g.call \in DOMAIN times' /\ DOMAIN times'[g.call] = 0 .. loopmax - 1
    BY <1>3, <1>4, <1>8
  <2> QED  BY <1>3, <1>5, <2>1, <2>2, <2>3 DEF FrameOK
<1>11. TypeOK'
  BY <1>6, <1>7, <1>8 DEF TypeOK
<1>12. ASSUME NEW u \in Threads, NEW d \in DOMAIN stack'[u]
       PROVE  \/ d \in DOMAIN stack[u] /\ stack'[u][d] = stack[u][d]
              \/ u = t /\ d = top /\ stack'[u][d] = g
  BY <1>7
<1>13. FramesOK'
  <2>1. ASSUME NEW h, FrameOK(h) PROVE FrameOK(h)'
    BY <1>4, <1>8, <2>1 DEF FrameOK
  <2> QED  BY <1>10, <1>12, <2>1 DEF FramesOK
<1>14. CallsApart'
  <2>1. \A u \in Threads : \A d \in DOMAIN stack[u] : stack[u][d].call # g.call
    BY <1>3, <1>4 DEF FramesOK, FrameOK
  <2> QED  BY <1>12, <2>1 DEF CallsApart
<1>15. HeldOnce'
  <2> SUFFICES ASSUME NEW u \in Threads, NEW v \in Threads,
                      NEW d \in DOMAIN stack[u], NEW e \in DOMAIN stack[v],
                      NEW j \in Held(stack[u][d]), NEW k \in Held(stack[v][e]),
                      stack[u][d].work[j] = stack[v][e].work[k]
               PROVE  u = v /\ d = e /\ j = k
    BY <1>9, <1>12 DEF HeldOnce, Held
  <2>1. \A y \in Held(stack[u][d]), z \in Held(stack[v][e]) :
          stack[u][d].work[y] = stack[v][e].work[z] => u = v /\ d = e /\ y = z
    BY DEF HeldOnce
  <2> QED  BY <2>1
<1>16. HeldState'
  <2> SUFFICES ASSUME NEW u \in Threads, NEW d \in DOMAIN stack'[u],
                      NEW h, h = stack'[u][d], NEW j \in Held(h)
               PROVE  Settled(h, j)'
    BY DEF HeldState, Settled, Collected
  <2>1. Settled(h, j)
    BY <1>9, <1>12 DEF HeldState
  <2> QED  BY <1>6, <2>1 DEF Settled, Collected, Queued
<1>17. QueuedOnce' /\ QueueState' /\ VictimState' /\ Quiet'
  BY <1>6 DEF QueuedOnce, QueueState, VictimState, Queued, Quiet
<1>18. Accounted'
  <2> SUFFICES ASSUME NEW p \in Workers
               PROVE  /\ doing'[p] # "none" => Placed(p)' \/ p = victim' \/ Queued(p)'
                      /\ stack'[p] # <<>> => doing'[p] = "work"
    BY DEF Accounted
  <2>1. stack'[p] # <<>> => doing[p] = "work"
    BY <1>6, <1>7, SpawnLoopAssumption DEF Accounted, InProc, Is, Threads
  <2>2. ASSUME Placed(p) PROVE Placed(p)'
    <3>1. PICK u \in Threads : \E d \in DOMAIN stack[u] : \E j \in Held(stack[u][d]) :
            stack[u][d].work[j] = p
      BY <2>2 DEF Placed
    <3>2. PICK d \in DOMAIN stack[u] : \E j \in Held(stack[u][d]) : stack[u][d].work[j] = p
      BY <3>1
    <3>3. PICK j \in Held(stack[u][d]) : stack[u][d].work[j] = p
      BY <3>2
    <3>4. d \in DOMAIN stack'[u] /\ stack'[u][d] = stack[u][d]
      BY <1>7
    <3> QED  BY <3>3, <3>4 DEF Placed
  <2> QED  BY <1>6, <2>1, <2>2 DEF Accounted, Queued
<1> QED  BY <1>11, <1>13, <1>14, <1>15, <1>16, <1>17, <1>18 DEF OwnedInv

--------------------------------------------------------------------------------
(* The steps of a worker. *)

(* A worker that is held has a record to read. *)
LEMMA ToldRecord ==
  ASSUME TypeOK, NEW t \in Threads, NEW d \in DOMAIN stack[t], NEW j \in Held(stack[t][d])
  PROVE  Told(stack[t][d], j - 1) # NULL
<1>1. PICK f : f = stack[t][d]
  OBVIOUS
<1>2. f \in Frame /\ j - 1 \in Nat
  BY SMTT(30), <1>1, HeldTypes
<1>3. Told(f, j - 1) \in [call : Nat, shape : Shapes, i : Nat]
  BY <1>2 DEF Frame, Told
<1> QED  BY <1>1, <1>3, SpawnLoopAssumption

(* If worker q is at a place, it is as the worker of that place should be. *)
Kept(q) ==
  \A t \in Threads : \A d \in DOMAIN stack[t] : \A f : f = stack[t][d] =>
    \A j \in Held(f) : f.work[j] = q => Settled(f, j)

(* Only worker q changes, and its place allows that. *)
LEMMA WorkerKeeps ==
  ASSUME OwnedInv, NEW q \in Workers, UNCHANGED <<stack, given, queue, kill, victim>>,
         doing' \in [Workers -> {"none", "wait", "work", "terminate", "exit"}],
         ready' \in [Workers -> Nat], done' \in [Workers -> Nat], ended' \in Nat,
         \A p \in Workers \ {q} :
           doing'[p] = doing[p] /\ ready'[p] = ready[p] /\ done'[p] = done[p],
         times' \in Seq(Counts), DOMAIN times' = DOMAIN times,
         \A c \in DOMAIN times : DOMAIN times'[c] = DOMAIN times[c],
         doing[q] # "none", stack[q] = <<>>, ~Queued(q), VictimState', Kept(q)'
  PROVE  OwnedInv'
<1> /\ TypeOK /\ FramesOK /\ CallsApart /\ HeldOnce /\ QueuedOnce /\ HeldState
    /\ QueueState /\ Accounted /\ Quiet
  BY DEF OwnedInv
<1>1. \A p \in Workers : Queued(p)' = Queued(p)
  BY DEF Queued
<1>2. TypeOK' /\ QueuedOnce' /\ Quiet'
  BY DEF TypeOK, QueuedOnce, Quiet
<1>3. FramesOK' /\ CallsApart' /\ HeldOnce'
  BY DEF FramesOK, FrameOK, CallsApart, HeldOnce, Held
<1>4. HeldState'
  <2> SUFFICES ASSUME NEW u \in Threads, NEW d \in DOMAIN stack'[u],
                      NEW h, h = stack'[u][d], NEW j \in Held(h)
               PROVE  Settled(h, j)'
    BY SMTT(30) DEF HeldState, Settled, Collected
  <2>1. CASE h.work[j] = q
    BY <2>1 DEF Kept, Held
  <2>2. CASE h.work[j] # q
    <3>1. Settled(h, j)
      BY DEF HeldState
    <3>2. PICK p : p = h.work[j]
      OBVIOUS
    <3>3. p \in Workers \ {q}
      BY <2>2, <3>2, HeldTypes
    <3> QED  BY <1>1, <3>1, <3>2, <3>3 DEF Settled, Collected
  <2> QED  BY <2>1, <2>2
<1>5. QueueState'
  BY <1>1 DEF QueueState
<1>6. Accounted'
  <2> SUFFICES ASSUME NEW p \in Workers
               PROVE  /\ doing'[p] # "none" => Placed(p)' \/ p = victim' \/ Queued(p)'
                      /\ stack'[p] # <<>> => doing'[p] = "work"
    BY DEF Accounted
  <2>1. Placed(p) => Placed(p)'
    BY DEF Placed, Held
  <2> QED  BY <1>1, <2>1 DEF Accounted
<1> QED  BY <1>2, <1>3, <1>4, <1>5, <1>6 DEF OwnedInv

(* A worker at work was told of a block of a call that has not returned. *)
LEMMA PlacedGiven ==
  ASSUME OwnedInv, NEW q \in Workers, Placed(q)
  PROVE  /\ \E t \in Threads : \E d \in DOMAIN stack[t] : given[q].call = stack[t][d].call
         /\ given[q] # NULL /\ given[q].call \in DOMAIN times
<1>1. PICK t \in Threads : \E d \in DOMAIN stack[t] : \E j \in Held(stack[t][d]) :
        stack[t][d].work[j] = q
  BY DEF Placed
<1>2. PICK d \in DOMAIN stack[t] : \E j \in Held(stack[t][d]) : stack[t][d].work[j] = q
  BY <1>1
<1>3. PICK j \in Held(stack[t][d]) : stack[t][d].work[j] = q
  BY <1>2
<1>4. PICK f : f = stack[t][d]
  OBVIOUS
<1>5. given[q] = Told(f, j - 1)
  BY <1>3, <1>4 DEF OwnedInv, HeldState, Settled
<1>6. given[q].call = f.call
  BY <1>5 DEF Told
<1>7. given[q] # NULL
  BY <1>3, <1>4, <1>5, ToldRecord DEF OwnedInv
<1>8. f.call \in DOMAIN times
  BY <1>4 DEF OwnedInv, FramesOK, FrameOK
<1> QED  BY <1>4, <1>6, <1>7, <1>8

(* A worker that was told to end is the one kill_workforce waits for. *)
LEMMA VictimNotPlaced ==
  ASSUME OwnedInv, NEW q \in Workers, given[q] = NULL \/ doing[q] = "terminate",
         doing[q] # "none", ~Queued(q)
  PROVE  q = victim /\ kill = "join" /\ Unheld(q)
<1> TypeOK /\ HeldState /\ VictimState /\ Accounted
  BY DEF OwnedInv
<1>1. ASSUME NEW t \in Threads, NEW d \in DOMAIN stack[t], NEW j \in Held(stack[t][d])
      PROVE  stack[t][d].work[j] # q
  <2>1. Settled(stack[t][d], j)
    BY DEF HeldState
  <2>2. Told(stack[t][d], j - 1) # NULL
    BY ToldRecord
  <2> QED  BY <2>1, <2>2 DEF Settled
<1>2. q = victim
  BY <1>1 DEF Accounted, Placed
<1>3. kill = "join"
  BY <1>2, SpawnLoopAssumption DEF VictimState
<1> QED  BY <1>1, <1>2, <1>3 DEF Unheld

(* The steps of a worker, ... *)
LEMMA WakeKeeps ==
  ASSUME OwnedInv, NEW q \in Workers, Wake(q)
  PROVE  OwnedInv'
<1> /\ TypeOK /\ HeldState /\ QueueState /\ VictimState /\ Accounted
  BY DEF OwnedInv
<1>1. /\ doing[q] = "wait" /\ ready[q] \in Nat /\ ready[q] > 0
      /\ UNCHANGED <<stack, given, queue, kill, victim, done, ended, times>>
  BY DEF Wake, TypeOK, poolVars
<1>2. ~Queued(q) /\ stack[q] = <<>>
  BY <1>1 DEF QueueState, Accounted
<1>3. /\ doing' \in [Workers -> {"none", "wait", "work", "terminate", "exit"}]
      /\ ready' \in [Workers -> Nat] /\ done' \in [Workers -> Nat] /\ ended' \in Nat
      /\ times' \in Seq(Counts)
      /\ doing'[q] = IF given[q] = NULL THEN "terminate" ELSE "work"
      /\ ready'[q] = ready[q] - 1
      /\ \A p \in Workers \ {q} : doing'[p] = doing[p] /\ ready'[p] = ready[p] /\ done'[p] = done[p]
  BY <1>1 DEF Wake, TypeOK
<1>4. VictimState'
  <2>1. CASE given[q] = NULL
    <3>1. q = victim /\ kill = "join"
      BY <1>1, <1>2, <2>1, VictimNotPlaced
    <3> QED  BY <1>1, <1>3, <2>1, <3>1 DEF VictimState
  <2>2. CASE given[q] # NULL
    <3>1. q # victim
      BY <2>2, SpawnLoopAssumption DEF VictimState
    <3> QED  BY <1>1, <1>3, <3>1 DEF VictimState
  <2> QED  BY <2>1, <2>2
<1>5. Kept(q)'
  <2> SUFFICES ASSUME NEW t \in Threads, NEW d \in DOMAIN stack[t], NEW f, f = stack[t][d],
                      NEW j \in Held(f), f.work[j] = q
               PROVE  Settled(f, j)'
    BY <1>1 DEF Kept, Held
  <2>1. Settled(f, j) /\ Told(f, j - 1) # NULL
    BY ToldRecord DEF HeldState
  <2>2. /\ given[q] = Told(f, j - 1) /\ ready[q] = 1 /\ done[q] = 0 /\ ~Collected(f, j)
        /\ q # victim
    BY <1>1, <2>1 DEF Settled
  <2> QED  BY <1>1, <1>2, <1>3, <2>1, <2>2 DEF Settled, Queued, Collected
<1> QED  BY <1>1, <1>2, <1>3, <1>4, <1>5, WorkerKeeps

LEMMA WorkKeeps ==
  ASSUME OwnedInv, NEW q \in Workers, Work(q)
  PROVE  OwnedInv'
<1> /\ TypeOK /\ HeldState /\ QueueState /\ VictimState /\ Accounted
  BY DEF OwnedInv
<1>1. /\ doing[q] = "work" /\ stack[q] = <<>> /\ Execute(given[q])
      /\ UNCHANGED <<stack, given, queue, kill, victim, ready, ended>>
  BY DEF Work, poolVars
<1>2. ~Queued(q) /\ q # victim
  BY <1>1, SpawnLoopAssumption DEF QueueState, VictimState
<1>3. /\ doing' \in [Workers -> {"none", "wait", "work", "terminate", "exit"}]
      /\ ready' \in [Workers -> Nat] /\ done' \in [Workers -> Nat] /\ ended' \in Nat
      /\ doing'[q] = "wait" /\ done'[q] = done[q] + 1
      /\ \A p \in Workers \ {q} : doing'[p] = doing[p] /\ ready'[p] = ready[p] /\ done'[p] = done[p]
  BY <1>1 DEF Work, TypeOK
<1>4. VictimState'
  BY <1>1, <1>2, <1>3 DEF VictimState
<1>5. given[q].call \in DOMAIN times
  BY <1>1, <1>2, PlacedGiven DEF Accounted
<1>6. /\ times' \in Seq(Counts) /\ DOMAIN times' = DOMAIN times
      /\ \A c \in DOMAIN times : DOMAIN times'[c] = DOMAIN times[c]
  BY <1>1, <1>5, ExecuteDomains
<1>7. Kept(q)'
  <2> SUFFICES ASSUME NEW t \in Threads, NEW d \in DOMAIN stack[t], NEW f, f = stack[t][d],
                      NEW j \in Held(f), f.work[j] = q
               PROVE  Settled(f, j)'
    BY <1>1 DEF Kept, Held
  <2>1. Settled(f, j)
    BY DEF HeldState
  <2>2. given[q] = Told(f, j - 1) /\ ready[q] = 0 /\ done[q] = 0 /\ ~Collected(f, j)
    BY <1>1, <2>1 DEF Settled
  <2> QED  BY <1>1, <1>2, <1>3, <2>1, <2>2 DEF Settled, Queued, Collected
<1> QED  BY <1>1, <1>2, <1>3, <1>4, <1>6, <1>7, WorkerKeeps

LEMMA TerminateKeeps ==
  ASSUME OwnedInv, NEW q \in Workers, Terminate(q)
  PROVE  OwnedInv'
<1> /\ TypeOK /\ QueueState /\ VictimState /\ Accounted
  BY DEF OwnedInv
<1>1. /\ doing[q] = "terminate" /\ doing' = [doing EXCEPT ![q] = "exit"] /\ ended' = ended + 1
      /\ UNCHANGED <<stack, given, queue, kill, victim, ready, done, times>>
  BY DEF Terminate
<1>2. ~Queued(q) /\ stack[q] = <<>>
  BY <1>1 DEF QueueState, Accounted
<1>3. /\ doing' \in [Workers -> {"none", "wait", "work", "terminate", "exit"}]
      /\ ready' \in [Workers -> Nat] /\ done' \in [Workers -> Nat] /\ ended' \in Nat
      /\ doing'[q] = "exit" /\ times' \in Seq(Counts)
      /\ \A p \in Workers \ {q} : doing'[p] = doing[p] /\ ready'[p] = ready[p] /\ done'[p] = done[p]
  BY <1>1 DEF TypeOK
<1>4. q = victim /\ kill = "join" /\ Unheld(q)
  BY <1>1, <1>2, VictimNotPlaced
<1>5. VictimState' /\ Kept(q)'
  BY <1>1, <1>3, <1>4 DEF VictimState, Unheld, Kept, Held
<1> QED  BY <1>1, <1>2, <1>3, <1>4, <1>5, WorkerKeeps

--------------------------------------------------------------------------------
(* The steps of kill_workforce and of fftw_init_threads. *)

(* ... of kill_workforce and of initialisation. *)
LEMMA CleanupKeeps ==
  ASSUME OwnedInv, Cleanup \/ KillEnd
  PROVE  OwnedInv'
<1> /\ TypeOK /\ FramesOK /\ CallsApart /\ HeldOnce /\ QueuedOnce /\ HeldState
    /\ QueueState /\ VictimState /\ Accounted /\ Quiet
  BY DEF OwnedInv
<1>1. /\ UNCHANGED <<stack, doing, given, ready, done, queue, victim, ended, times>>
      /\ kill # "join" /\ kill' \in {"next", "none"}
      /\ \A t \in Threads : stack[t] = <<>>
      /\ kill' = "none" => queue = <<>>
  BY DEF Cleanup, KillEnd, Quiet
<1>2. TypeOK' /\ QueuedOnce' /\ VictimState' /\ Quiet'
  BY <1>1 DEF TypeOK, QueuedOnce, VictimState, Quiet
<1>3. FramesOK' /\ CallsApart' /\ HeldOnce' /\ HeldState'
  BY <1>1 DEF FramesOK, CallsApart, HeldOnce, HeldState
<1>4. QueueState' /\ Accounted'
  BY <1>1 DEF QueueState, Accounted, Queued, Placed
<1> QED  BY <1>2, <1>3, <1>4 DEF OwnedInv

LEMMA KillNextKeeps ==
  ASSUME OwnedInv, KillNext
  PROVE  OwnedInv'
<1> /\ TypeOK /\ QueuedOnce /\ QueueState /\ VictimState /\ Accounted /\ Quiet
  BY DEF OwnedInv
<1>1. PICK q : q = Head(queue)
  OBVIOUS
<1>2. /\ kill = "next" /\ queue # <<>> /\ victim' = q /\ queue' = Tail(queue)
      /\ given' = [given EXCEPT ![q] = NULL] /\ ready' = [ready EXCEPT ![q] = @ + 1]
      /\ kill' = "join" /\ UNCHANGED <<stack, doing, done, ended, times>>
  BY <1>1 DEF KillNext
<1>3. /\ q \in Workers /\ Queued(q) /\ queue' \in Seq(Workers) /\ QueuedOnce'
      /\ \A p \in Workers : Queued(p)' <=> Queued(p) /\ p # q
  BY <1>1, <1>2, HeadTaken
<1>4. doing[q] = "wait" /\ ready[q] = 0 /\ done[q] = 0 /\ ended = 0 /\ victim = NULL
  BY <1>2, <1>3 DEF QueueState, VictimState
<1>5. \A t \in Threads : stack[t] = <<>>
  BY <1>2 DEF Quiet
<1>6. TypeOK' /\ VictimState' /\ Quiet'
  BY <1>2, <1>3, <1>4, <1>5 DEF TypeOK, VictimState, Quiet
<1>7. FramesOK' /\ CallsApart' /\ HeldOnce' /\ HeldState'
  BY <1>2, <1>5 DEF FramesOK, CallsApart, HeldOnce, HeldState
<1>8. \A p \in Workers \ {q} : ready'[p] = ready[p]
  BY <1>2 DEF TypeOK
<1>9. QueueState'
  BY <1>2, <1>3, <1>8 DEF QueueState
<1>10. Accounted'
  <2> SUFFICES ASSUME NEW p \in Workers
               PROVE  /\ doing'[p] # "none" => Placed(p)' \/ p = victim' \/ Queued(p)'
                      /\ stack'[p] # <<>> => doing'[p] = "work"
    BY DEF Accounted
  <2>1. ~Placed(p) /\ p # victim
    BY <1>4, <1>5, SpawnLoopAssumption DEF Placed
  <2>2. doing[p] # "none" => Queued(p)
    BY <2>1 DEF Accounted
  <2> QED  BY <1>2, <1>3, <1>5, <2>2 DEF Threads
<1> QED  BY <1>3, <1>6, <1>7, <1>9, <1>10 DEF OwnedInv

LEMMA KillJoinKeeps ==
  ASSUME OwnedInv, KillJoin
  PROVE  OwnedInv'
<1> /\ TypeOK /\ QueuedOnce /\ QueueState /\ VictimState /\ Accounted /\ Quiet
  BY DEF OwnedInv
<1>1. /\ kill = "join" /\ ended > 0 /\ ended' = ended - 1 /\ doing' = [doing EXCEPT ![victim] = "none"]
      /\ victim' = NULL /\ kill' = "next"
      /\ UNCHANGED <<stack, given, ready, done, queue, times>>
  BY DEF KillJoin
<1>2. victim \in Workers /\ ended = 1 /\ doing[victim] = "exit"
  BY <1>1 DEF VictimState
<1>3. \A t \in Threads : stack[t] = <<>>
  BY <1>1 DEF Quiet
<1>4. TypeOK' /\ VictimState' /\ Quiet' /\ QueuedOnce'
  BY <1>1, <1>2, <1>3 DEF TypeOK, VictimState, Quiet, QueuedOnce
<1>5. FramesOK' /\ CallsApart' /\ HeldOnce' /\ HeldState'
  BY <1>1, <1>3 DEF FramesOK, CallsApart, HeldOnce, HeldState
<1>6. /\ doing'[victim] = "none" /\ \A p \in Workers \ {victim} : doing'[p] = doing[p]
      /\ \A p \in Workers : Queued(p)' <=> Queued(p)
  BY <1>1, <1>2 DEF TypeOK, Queued
<1>7. QueueState'
  BY <1>1, <1>2, <1>6, SpawnLoopAssumption DEF QueueState
<1>8. Accounted'
  <2> SUFFICES ASSUME NEW p \in Workers
               PROVE  /\ doing'[p] # "none" => Placed(p)' \/ p = victim' \/ Queued(p)'
                      /\ stack'[p] # <<>> => doing'[p] = "work"
    BY DEF Accounted
  <2>1. ~Placed(p)
    BY <1>3 DEF Placed
  <2> QED  BY <1>1, <1>3, <1>6, <2>1 DEF Accounted, Threads
<1> QED  BY <1>4, <1>5, <1>7, <1>8 DEF OwnedInv

LEMMA OwnedStutter ==
  ASSUME OwnedInv, UNCHANGED vars
  PROVE  OwnedInv'
<1> /\ TypeOK /\ FramesOK /\ CallsApart /\ HeldOnce /\ QueuedOnce /\ HeldState
    /\ QueueState /\ VictimState /\ Accounted /\ Quiet
  BY DEF OwnedInv
<1>1. UNCHANGED <<stack, doing, given, ready, done, queue, kill, victim, ended, times>>
  BY DEF vars, poolVars
<1>2. TypeOK' /\ QueuedOnce' /\ VictimState' /\ Quiet'
  BY <1>1 DEF TypeOK, QueuedOnce, VictimState, Quiet
<1>3. FramesOK' /\ CallsApart' /\ HeldOnce'
  BY <1>1 DEF FramesOK, FrameOK, CallsApart, HeldOnce, Held
<1>4. HeldState'
  <2> SUFFICES ASSUME NEW u \in Threads, NEW d \in DOMAIN stack'[u],
                      NEW h, h = stack'[u][d], NEW j \in Held(h)
               PROVE  Settled(h, j)'
    BY DEF HeldState, Settled, Collected
  <2>1. Settled(h, j)
    BY <1>1 DEF HeldState
  <2> QED  BY <1>1, <2>1 DEF Settled, Collected, Queued
<1>5. QueueState' /\ Accounted'
  BY <1>1 DEF QueueState, Accounted, Queued, Placed, Held
<1> QED  BY <1>2, <1>3, <1>4, <1>5 DEF OwnedInv

LEMMA InitThreadsKeeps ==
  ASSUME OwnedInv, InitThreads
  PROVE  OwnedInv'
<1> /\ TypeOK /\ FramesOK /\ CallsApart /\ HeldOnce /\ QueuedOnce /\ HeldState
    /\ QueueState /\ VictimState /\ Accounted /\ Quiet
  BY DEF OwnedInv
<1>1. CASE UNCHANGED vars
  BY <1>1, OwnedStutter
<1>2. CASE kill = "none" /\ kill' = "off" /\ queue' = <<>> /\ ended' = 0
           /\ UNCHANGED <<stack, doing, given, ready, done, victim, times>>
  <2>1. queue = <<>> /\ (\A t \in Threads : stack[t] = <<>>) /\ ended = 0
    BY <1>2 DEF Quiet, VictimState
  <2>2. TypeOK' /\ QueuedOnce' /\ VictimState' /\ Quiet'
    BY <1>2, <2>1 DEF TypeOK, QueuedOnce, VictimState, Quiet
  <2>3. FramesOK' /\ CallsApart' /\ HeldOnce' /\ HeldState'
    BY <1>2, <2>1 DEF FramesOK, CallsApart, HeldOnce, HeldState
  <2>4. QueueState' /\ Accounted'
    BY <1>2, <2>1 DEF QueueState, Accounted, Queued, Placed
  <2> QED  BY <2>2, <2>3, <2>4 DEF OwnedInv
<1> QED  BY <1>1, <1>2 DEF InitThreads

(* The invariant of ownership is inductive. *)
LEMMA OwnedInit == Init => OwnedInv
<1> SUFFICES ASSUME Init PROVE OwnedInv
  OBVIOUS
<1>1. \A t \in Threads : stack[t] = <<>>
  BY DEF Init
<1>2. TypeOK /\ QueuedOnce /\ VictimState /\ Quiet
  BY <1>1 DEF Init, TypeOK, QueuedOnce, VictimState, Quiet
<1>3. FramesOK /\ CallsApart /\ HeldOnce /\ HeldState
  BY <1>1 DEF FramesOK, CallsApart, HeldOnce, HeldState
<1>4. QueueState /\ Accounted
  BY <1>1 DEF Init, QueueState, Accounted, Queued, Threads
<1> QED  BY <1>2, <1>3, <1>4 DEF OwnedInv

LEMMA OwnedNext ==
  ASSUME OwnedInv, [Next]_vars
  PROVE  OwnedInv'
<1>1. ASSUME NEW t \in Threads, Step(t) PROVE OwnedInv'
  BY <1>1, TakeGives, MakeGives, TellKeeps, OwnKeeps, CollectKeeps, EnqueueKeeps, ReturnKeeps DEF Step
<1>2. ASSUME NEW t \in Threads, NEW shape \in Shapes, Call(t, shape) PROVE OwnedInv'
  BY <1>2, CallKeeps
<1>3. ASSUME NEW q \in Workers, WorkerStep(q) PROVE OwnedInv'
  BY <1>3, WakeKeeps, WorkKeeps, TerminateKeeps DEF WorkerStep
<1>4. ASSUME Kill \/ Cleanup PROVE OwnedInv'
  BY <1>4, CleanupKeeps, KillNextKeeps, KillJoinKeeps DEF Kill
<1>5. CASE InitThreads
  BY <1>5, InitThreadsKeeps
<1>6. CASE UNCHANGED vars
  BY <1>6, OwnedStutter
<1> QED  BY <1>1, <1>2, <1>3, <1>4, <1>5, <1>6 DEF Next

(* At every moment each worker belongs to the queue, to one block of one call    *)
(* that has not returned, or to kill_workforce, and its semaphores say how far   *)
(* it is there: what threads.c relies on when it passes workers from hand to     *)
(* hand without a lock.                                                          *)
THEOREM WorkersOwned == Spec => []OwnedInv
<1>1. OwnedInv /\ [Next]_vars => OwnedInv'
  BY OwnedNext
<1> QED  BY OwnedInit, <1>1, PTL DEF Spec

(* A worker never reads a work record of a call that has returned. *)
THEOREM WorkNeverDangles == Spec => []NoDanglingWork
<1>1. OwnedInv => NoDanglingWork
  <2> SUFFICES ASSUME OwnedInv, NEW q \in Workers, doing[q] # "none",
                      ready[q] > 0 \/ doing[q] = "work"
               PROVE  \/ given[q] # NULL /\ given[q].call \in Open
                      \/ given[q] = NULL /\ q = victim
    BY DEF NoDanglingWork, Exist
  <2>1. ~Queued(q)
    BY DEF OwnedInv, QueueState
  <2>2. CASE Placed(q)
    <3>1. given[q] # NULL
      BY <2>2, PlacedGiven
    <3>2. PICK t \in Threads : \E d \in DOMAIN stack[t] : given[q].call = stack[t][d].call
      BY <2>2, PlacedGiven
    <3>3. PICK d \in DOMAIN stack[t] : given[q].call = stack[t][d].call
      BY <3>2
    <3>4. PICK f : f = <<t, d>>
      OBVIOUS
    <3>5. f \in Frames /\ f[1] = t /\ f[2] = d
      BY <3>4 DEF Frames
    <3>6. given[q].call \in Open
      BY <3>3, <3>5 DEF Open
    <3> QED  BY <3>1, <3>6
  <2>3. CASE q = victim
    <3>1. given[q] = NULL
      BY <2>3, SpawnLoopAssumption DEF OwnedInv, VictimState
    <3> QED  BY <2>3, <3>1
  <2> QED  BY <2>1, <2>2, <2>3 DEF OwnedInv, Accounted
<1> QED  BY <1>1, WorkersOwned, PTL

(* While kill_workforce runs every worker but the one it waits for is in the     *)
(* queue, once, and waits there, so that it ends them all.                       *)
THEOREM NobodyEscapesKill == Spec => []NobodyEscapes
<1>1. OwnedInv => NobodyEscapes
  <2> SUFFICES ASSUME OwnedInv PROVE NobodyEscapes
    OBVIOUS
  <2> TypeOK /\ QueuedOnce /\ QueueState /\ VictimState /\ Accounted /\ Quiet
    BY DEF OwnedInv
  <2>1. \A q \in Workers : q \in Range(queue) <=> Queued(q)
    BY DEF Range, Queued
  <2>2. Range(queue) \subseteq Workers
    BY DEF Range, TypeOK
  <2>3. kill # "off" => \A q \in Workers : ~Placed(q)
    BY DEF Quiet, Placed
  <2>4. kill \in {"next", "join"} => Exist \ {victim} = Range(queue)
    BY <2>1, <2>2, <2>3 DEF Exist, Accounted, QueueState
  <2>5. kill = "none" => Exist = {}
    BY <2>3, SpawnLoopAssumption DEF Exist, Accounted, Quiet, VictimState, Queued
  <2>6. \A q \in Range(queue) : doing[q] = "wait" /\ ready[q] = 0 /\ done[q] = 0
    BY <2>1, <2>2 DEF QueueState
  <2>7. Cardinality(Range(queue)) = Len(queue)
    <3>1. PICK s : s = queue
      OBVIOUS
    <3>2. s \in Seq(Workers) /\ Len(s) \in Nat /\ DOMAIN s = 1 .. Len(s)
      BY <3>1 DEF TypeOK
    <3>3. s \in Bijection(1 .. Len(s), Range(s))
      BY <3>1, <3>2 DEF QueuedOnce, Range, Bijection, Injection, Surjection, IsInjective
    <3>4. ExistsBijection(1 .. Len(s), Range(s))
      BY <3>3 DEF ExistsBijection
    <3> QED  BY <3>1, <3>2, <3>4, FS_CountingElements
  <2> QED  BY <2>4, <2>5, <2>6, <2>7 DEF NobodyEscapes
<1> QED  BY <1>1, WorkersOwned, PTL
--------------------------------------------------------------------------------
(* What was executed. *)

(* A frame of a loop that is not empty has the blocks of LoopBlocks. *)
LEMMA FrameBlocks ==
  ASSUME NEW f \in Frame, FrameOK(f), f.shape[1] # 0
  PROVE  /\ f.shape[1] \in Nat \ {0} /\ f.shape[2] \in Nat \ {0}
         /\ f.nthr = ThreadsUsed(f.shape[1], f.shape[2])
<1>1. f.shape \in Shapes
  BY DEF Frame
<1>2. f.shape[1] \in Nat /\ f.shape[2] \in Nat \ {0}
  BY <1>1, SpawnLoopAssumption
<1> QED  BY <1>2 DEF FrameOK

(* A block whose counts and state stay is counted right. *)
LEMMA TalliedKept ==
  ASSUME NEW f, NEW g, NEW b, Tallied(f, b), g.call = f.call, g.shape = f.shape,
         times'[f.call] = times[f.call], Executed(g, b)' <=> Executed(f, b)
  PROVE  Tallied(g, b)'
  BY DEF Tallied

(* Executing block n of a call counts its iterations and no other block's. *)
LEMMA TalliedExecute ==
  ASSUME NEW f \in Frame, FrameOK(f), f.shape[1] # 0, TypeOK,
         NEW w, w.call = f.call, w.shape = f.shape, w.i \in 0 .. f.nthr - 1, Execute(w),
         NEW g, g.call = f.call, g.shape = f.shape,
         NEW b \in 0 .. f.nthr - 1, Tallied(f, b),
         b = w.i => ~Executed(f, b) /\ Executed(g, b)',
         b # w.i => (Executed(g, b)' <=> Executed(f, b))
  PROVE  Tallied(g, b)'
<1>1. PICK loopmax, nthr : loopmax = f.shape[1] /\ nthr = f.shape[2]
  OBVIOUS
<1>2. loopmax \in Nat \ {0} /\ nthr \in Nat \ {0} /\ f.nthr = ThreadsUsed(loopmax, nthr)
  BY <1>1, FrameBlocks
<1>3. f.call \in DOMAIN times /\ DOMAIN times[f.call] = 0 .. loopmax - 1
  BY <1>1 DEF FrameOK
<1>4. PICK c : c = f.call
  OBVIOUS
<1>5. ASSUME NEW k \in Block(loopmax, nthr, b)
      PROVE  times'[c][k] = IF b = w.i THEN times[c][k] + 1 ELSE times[c][k]
  <2>1. k \in DOMAIN times[c]
    BY <1>2, <1>3, <1>4, BlocksPartition
  <2>2. k \in Block(loopmax, nthr, w.i) <=> b = w.i
    <3>1. \A i, j \in 0 .. f.nthr - 1 : i # j => Block(loopmax, nthr, i) \cap Block(loopmax, nthr, j) = {}
      BY <1>2, BlocksPartition
    <3> QED  BY <3>1
  <2>3. PICK B : B = Block(loopmax, nthr, w.i)
    OBVIOUS
  <2>4. times' = [times EXCEPT ![c] = [l \in DOMAIN @ |-> IF l \in B THEN @[l] + 1 ELSE @[l]]]
    BY <1>1, <1>4, <2>3 DEF Execute
  <2>5. times'[c][k] = IF k \in B THEN times[c][k] + 1 ELSE times[c][k]
    BY <1>3, <1>4, <2>1, <2>4
  <2> QED  BY <2>2, <2>3, <2>5
<1>6. \A k \in Block(loopmax, nthr, b) : times[c][k] = IF Executed(f, b) THEN 1 ELSE 0
  BY <1>1, <1>4 DEF Tallied
<1>7. \A k \in Block(loopmax, nthr, b) : times'[c][k] = IF Executed(g, b)' THEN 1 ELSE 0
  BY <1>5, <1>6
<1> QED  BY <1>1, <1>4, <1>7 DEF Tallied

(* A frame is as far as it was if its workers are. *)
LEMMA ExecutedKept ==
  ASSUME NEW f, NEW b,
         \A j \in Held(f) : doing'[f.work[j]] = doing[f.work[j]] /\ ready'[f.work[j]] = ready[f.work[j]]
  PROVE  Executed(f, b)' <=> Executed(f, b)
  BY DEF Executed

(* Only worker q changes, and no count but that of the call replaced. *)
LEMMA ReplacedProgress ==
  ASSUME TypeOK, FramesOK, CallsApart, Progress,
         NEW t \in Threads, Len(stack[t]) \in DOMAIN stack[t],
         NEW f, f = stack[t][Len(stack[t])], NEW g, Replaced(t, g),
         g.shape = f.shape, g.nthr = f.nthr,
         f.shape[1] # 0 => \A b \in 0 .. f.nthr - 1 : Tallied(g, b)',
         \A c \in DOMAIN times : c # f.call => times'[c] = times[c],
         NEW q, OnlyTop(q, t),
         \A p \in Workers \ {q} : doing'[p] = doing[p] /\ ready'[p] = ready[p]
  PROVE  Progress'
<1> SUFFICES ASSUME NEW u \in Threads, NEW d \in DOMAIN stack'[u], NEW h, h = stack'[u][d],
                    h.shape[1] # 0, NEW b \in 0 .. h.nthr - 1
             PROVE  Tallied(h, b)'
  BY DEF Progress
<1> d \in DOMAIN stack[u]
  BY DEF Replaced
<1>1. CASE u = t /\ d = Len(stack[t])
  BY <1>1 DEF Replaced
<1>2. CASE ~(u = t /\ d = Len(stack[t]))
  <2>1. h = stack[u][d]
    BY <1>2 DEF Replaced
  <2>2. Tallied(h, b)
    BY <2>1 DEF Progress
  <2>3. times'[h.call] = times[h.call]
    BY <1>2, <2>1 DEF CallsApart, FramesOK, FrameOK
  <2>4. \A j \in Held(h) : h.work[j] \in Workers \ {q}
    BY <1>2, <2>1, HeldTypes DEF OnlyTop
  <2>5. Executed(h, b)' <=> Executed(h, b)
    BY <2>4, ExecutedKept
  <2> QED  BY <2>2, <2>3, <2>5, TalliedKept
<1> QED  BY <1>1, <1>2

(* Each step preserves that the counts follow the frames. *)
LEMMA TellProgress ==
  ASSUME OwnedInv, Progress, NEW t \in Threads, NEW q \in Workers, Gives(t, q)
  PROVE  Progress'
<1> TypeOK /\ FramesOK /\ CallsApart
  BY DEF OwnedInv
<1> DEFINE top == Len(stack[t])
<1>1. PICK f : f = stack[t][Len(stack[t])]
  OBVIOUS
<1>2. top \in DOMAIN stack[t] /\ f \in Frame /\ f.at = "take" /\ f.i < f.nthr - 1 /\ f.i = Len(f.work)
  BY TopFrame, <1>1 DEF Gives, Is, Top, FramesOK, FrameOK
<1>3. f.i \in Nat /\ f.nthr \in Nat \ {0} /\ DOMAIN f.work = 1 .. f.i
  BY <1>2 DEF Frame
<1>4. PICK g : Handed(t, f, g, q)
  BY <1>1, TellFrame DEF Gives
<1>5. /\ g.call = f.call /\ g.shape = f.shape /\ g.nthr = f.nthr /\ Replaced(t, g)
      /\ g.at \in {"take", "own"} /\ Held(g) = Held(f) \cup {f.i + 1} /\ g.work[f.i + 1] = q
      /\ \A j \in Held(f) : g.work[j] = f.work[j]
  BY <1>4 DEF Handed
<1>6. Held(f) = DOMAIN f.work /\ Held(g) = DOMAIN g.work
  BY <1>2, <1>5 DEF Held
<1>7. /\ times' = times /\ doing'[q] = "wait" /\ ready'[q] = 1 /\ Unheld(q)
      /\ \A p \in Workers \ {q} : doing'[p] = doing[p] /\ ready'[p] = ready[p]
  BY DEF Gives, TypeOK
<1>8. ASSUME NEW b \in 0 .. f.nthr - 1
      PROVE  Executed(g, b)' <=> Executed(f, b)
  <2>1. CASE b = f.nthr - 1
    BY <1>2, <1>5, <2>1 DEF Executed
  <2>2. CASE b # f.nthr - 1 /\ b = f.i
    BY <1>2, <1>3, <1>5, <1>6, <1>7, <2>2 DEF Executed
  <2>3. CASE b # f.nthr - 1 /\ b # f.i
    <3>1. b + 1 \in DOMAIN g.work <=> b + 1 \in DOMAIN f.work
      BY <1>3, <1>5, <1>6, <2>3
    <3>2. CASE b + 1 \in DOMAIN f.work
      <4>1. PICK p : p = f.work[b + 1] /\ p = g.work[b + 1]
        BY <1>5, <1>6, <3>2
      <4>2. p \in Workers \ {q}
        <5>1. /\ \A k \in Held(stack[t][top]) : stack[t][top].work[k] \in Workers
              /\ \A k \in Held(stack[t][top]) : stack[t][top].work[k] # q
          BY <1>2, <1>7, HeldTypes DEF Unheld
        <5> QED  BY <1>1, <1>6, <3>2, <4>1, <5>1
      <4> QED  BY <1>5, <1>6, <1>7, <2>3, <3>1, <4>1, <4>2 DEF Executed
    <3>3. CASE b + 1 \notin DOMAIN f.work
      BY <1>5, <2>3, <3>1, <3>3 DEF Executed
    <3> QED  BY <3>2, <3>3
  <2> QED  BY <2>1, <2>2, <2>3
<1>9. ASSUME f.shape[1] # 0, NEW b \in 0 .. f.nthr - 1 PROVE Tallied(g, b)'
  <2>1. Tallied(f, b)
    BY <1>1, <1>2, <1>9 DEF Progress
  <2> QED  BY <1>5, <1>7, <1>8, <2>1, TalliedKept
<1>10. OnlyTop(q, t)
  BY <1>7 DEF Unheld, OnlyTop
<1> QED  BY <1>1, <1>2, <1>5, <1>7, <1>9, <1>10, ReplacedProgress

LEMMA OwnProgress ==
  ASSUME OwnedInv, Progress, NEW t \in Threads, Own(t)
  PROVE  Progress'
<1> TypeOK /\ FramesOK /\ CallsApart
  BY DEF OwnedInv
<1> DEFINE top == Len(stack[t])
<1>1. PICK f : f = stack[t][Len(stack[t])]
  OBVIOUS
<1>2. /\ top \in DOMAIN stack[t] /\ f \in Frame /\ f.at = "own" /\ f = Top(t) /\ stack[t] # <<>>
      /\ FrameOK(f) /\ Execute(f)
  BY TopFrame, <1>1 DEF Own, Is, Top, FramesOK
<1>3. PICK g : Goes(t, f, g) /\ g.i = 0 /\ g.at = "collect"
  BY <1>1, OwnFrame
<1>4. /\ g.call = f.call /\ g.shape = f.shape /\ g.nthr = f.nthr
      /\ g.work = f.work /\ g.i = 0 /\ g.at = "collect"
  BY <1>3 DEF Goes
<1>5. Replaced(t, g)
  BY <1>3 DEF Goes
<1>6. f.i \in Nat /\ f.nthr \in Nat \ {0} /\ f.i = f.nthr - 1 /\ f.work \in Seq(Workers)
  BY <1>2 DEF Frame, FrameOK
<1>7. Held(f) = DOMAIN f.work /\ Held(g) = DOMAIN f.work
  BY <1>2, <1>4, <1>6 DEF Held
<1>8. UNCHANGED <<doing, ready>>
  BY DEF Own
<1>9. ASSUME f.shape[1] # 0, NEW b \in 0 .. f.nthr - 1 PROVE Tallied(g, b)'
  <2>1. Tallied(f, b)
    BY <1>1, <1>2, <1>9 DEF Progress
  <2>2. b = f.i => ~Executed(f, b) /\ Executed(g, b)'
    BY <1>2, <1>4, <1>6 DEF Executed
  <2>3. b # f.i => (Executed(g, b)' <=> Executed(f, b))
    BY <1>4, <1>6, <1>7, <1>8 DEF Executed
  <2>4. f.i \in 0 .. f.nthr - 1
    BY <1>6
  <2> QED  BY <1>2, <1>4, <1>9, <2>1, <2>2, <2>3, <2>4, TalliedExecute
<1>10. OnlyTop(NULL, t)
  BY HeldTypes, SpawnLoopAssumption DEF OnlyTop
<1>11. \A c \in DOMAIN times : c # f.call => times'[c] = times[c]
  BY <1>2 DEF Execute, TypeOK
<1> QED  BY <1>1, <1>2, <1>4, <1>5, <1>8, <1>9, <1>10, <1>11, ReplacedProgress

LEMMA CollectProgress ==
  ASSUME OwnedInv, Progress, NEW t \in Threads, Collect(t) \/ Enqueue(t)
  PROVE  Progress'
<1> TypeOK /\ FramesOK /\ CallsApart
  BY DEF OwnedInv
<1> DEFINE top == Len(stack[t])
<1>1. PICK f : f = stack[t][Len(stack[t])]
  OBVIOUS
<1>2. /\ top \in DOMAIN stack[t] /\ f \in Frame /\ f.at \in {"collect", "enqueue"} /\ f = Top(t)
      /\ stack[t] # <<>> /\ FrameOK(f) /\ f.i < f.nthr - 1
  <2>1. (Is(t, "collect") /\ Top(t).i < Top(t).nthr - 1) \/ Is(t, "enqueue")
    BY DEF Collect, Enqueue
  <2>2. top \in DOMAIN stack[t] /\ f \in Frame /\ f = Top(t) /\ FrameOK(f) /\ stack[t] # <<>>
    BY <1>1, <2>1, TopFrame DEF Is, FramesOK
  <2> QED  BY <2>1, <2>2 DEF Is, Top, FrameOK
<1>3. f.nthr \in Nat \ {0} /\ f.i \in Nat /\ DOMAIN f.work = 1 .. f.nthr - 1
  BY <1>2 DEF Frame, FrameOK
<1>4. PICK g : /\ Goes(t, f, g)
               /\ \/ Collect(t) /\ g.i = f.i /\ g.at = "enqueue"
                  \/ ~Collect(t) /\ g.i = f.i + 1 /\ g.at = "collect" /\ f.at = "enqueue"
  <2>1. CASE Collect(t)
    BY <1>1, <2>1, CollectFrame
  <2>2. CASE ~Collect(t)
    <3>1. f.at = "enqueue"
      BY <1>2, <2>2 DEF Enqueue, Is, Top
    <3> QED  BY <1>1, <2>2, <3>1, EnqueueFrame
  <2> QED  BY <2>1, <2>2
<1>5. /\ g.call = f.call /\ g.shape = f.shape /\ g.nthr = f.nthr
      /\ g.work = f.work /\ g.at \in {"collect", "enqueue"} /\ Replaced(t, g)
      /\ Collect(t) => g.i = f.i
      /\ ~Collect(t) => g.i = f.i + 1 /\ f.at = "enqueue"
  BY <1>4 DEF Goes
<1>6. UNCHANGED <<doing, ready, times>>
  BY DEF Collect, Enqueue
<1>7. /\ \A j \in DOMAIN f.work : j \in Held(f) <=> f.i < j
      /\ \A j \in DOMAIN f.work : j \in Held(g) <=> g.i < j
  BY <1>2, <1>5 DEF Held
<1>8. ASSUME NEW b \in 0 .. f.nthr - 1
      PROVE  Executed(g, b)' <=> Executed(f, b)
  <2>1. CASE b = f.nthr - 1
    BY <1>2, <1>5, <2>1 DEF Executed
  <2>2. CASE b # f.nthr - 1 /\ (b + 1 \in Held(g) <=> b + 1 \in Held(f))
    BY <1>5, <1>6, <2>2 DEF Executed
  <2>3. CASE b # f.nthr - 1 /\ ~(b + 1 \in Held(g) <=> b + 1 \in Held(f))
    <3>1. b + 1 \in DOMAIN f.work
      BY <1>3, <2>3
    <3>2. b = f.i /\ ~Collect(t) /\ b + 1 \notin Held(g)
      BY <1>3, <1>5, <1>7, <2>3, <3>1
    <3>3. Collected(f, b + 1) /\ Settled(f, b + 1)
      BY <1>1, <1>2, <1>5, <3>2, CollectTurn DEF Collected
    <3>4. doing[f.work[b + 1]] = "wait" /\ ready[f.work[b + 1]] = 0
      BY <3>3 DEF Settled
    <3> QED  BY <1>5, <2>3, <3>1, <3>2, <3>4 DEF Executed
  <2> QED  BY <2>1, <2>2, <2>3
<1>9. ASSUME f.shape[1] # 0, NEW b \in 0 .. f.nthr - 1 PROVE Tallied(g, b)'
  <2>1. Tallied(f, b)
    BY <1>1, <1>2, <1>9 DEF Progress
  <2> QED  BY <1>5, <1>6, <1>8, <2>1, TalliedKept
<1>10. OnlyTop(NULL, t)
  BY HeldTypes, SpawnLoopAssumption DEF OnlyTop
<1>11. /\ \A c \in DOMAIN times : c # f.call => times'[c] = times[c]
       /\ \A p \in Workers \ {NULL} : doing'[p] = doing[p] /\ ready'[p] = ready[p]
  BY <1>6
<1> QED  BY <1>1, <1>2, <1>5, <1>9, <1>10, <1>11, ReplacedProgress

(* The frames there are after a step were there, and are as far as before. *)
LEMMA StillProgress ==
  ASSUME Progress, times' = times,
         \A u \in Threads : \A d \in DOMAIN stack'[u] :
           d \in DOMAIN stack[u] /\ stack'[u][d] = stack[u][d],
         \A u \in Threads : \A d \in DOMAIN stack'[u] : \A f \in {stack[u][d]} :
           \A b \in 0 .. f.nthr - 1 : Executed(f, b)' <=> Executed(f, b)
  PROVE  Progress'
<1> SUFFICES ASSUME NEW u \in Threads, NEW d \in DOMAIN stack'[u], NEW h, h = stack'[u][d],
                    h.shape[1] # 0, NEW b \in 0 .. h.nthr - 1
             PROVE  Tallied(h, b)'
  BY DEF Progress
<1>1. Tallied(h, b)
  BY DEF Progress
<1>2. Executed(h, b)' <=> Executed(h, b)
  OBVIOUS
<1> QED  BY <1>1, <1>2, TalliedKept

LEMMA ReturnProgress ==
  ASSUME OwnedInv, Progress, NEW t \in Threads, Return(t)
  PROVE  Progress'
<1>1. stack[t] # <<>> /\ UNCHANGED <<doing, ready, times>>
  BY DEF Return, Is
<1>2. \A u \in Threads : \A d \in DOMAIN stack'[u] :
        d \in DOMAIN stack[u] /\ stack'[u][d] = stack[u][d]
  BY ZenonT(40), <1>1, PopFrame DEF OwnedInv, Return
<1>3. \A u \in Threads : \A d \in DOMAIN stack'[u] : \A f \in {stack[u][d]} :
        \A b \in 0 .. f.nthr - 1 : Executed(f, b)' <=> Executed(f, b)
  BY <1>1 DEF Executed
<1> QED  BY <1>1, <1>2, <1>3, StillProgress

LEMMA WakeProgress ==
  ASSUME OwnedInv, Progress, NEW q \in Workers, Wake(q)
  PROVE  Progress'
<1> TypeOK /\ HeldState
  BY DEF OwnedInv
<1>1. doing[q] = "wait" /\ ready[q] > 0 /\ UNCHANGED <<stack, times>>
  BY DEF Wake
<1>2. /\ doing'[q] = IF given[q] = NULL THEN "terminate" ELSE "work"
      /\ \A p \in Workers \ {q} : doing'[p] = doing[p] /\ ready'[p] = ready[p]
  BY DEF Wake, TypeOK
<1>3. ASSUME NEW u \in Threads, NEW d \in DOMAIN stack[u], NEW f, f = stack[u][d],
             NEW b \in 0 .. f.nthr - 1
      PROVE  Executed(f, b)' <=> Executed(f, b)
  <2>1. \A j \in Held(f) : f.work[j] \in Workers
    BY <1>3, HeldTypes
  <2>2. CASE b = f.nthr - 1 \/ b + 1 \notin Held(f)
    BY <2>2 DEF Executed
  <2>3. CASE b # f.nthr - 1 /\ b + 1 \in Held(f) /\ f.work[b + 1] # q
    <3>1. PICK p : p = f.work[b + 1]
      OBVIOUS
    <3>2. doing'[p] = doing[p] /\ ready'[p] = ready[p]
      BY <1>2, <2>1, <2>3, <3>1
    <3> QED  BY <2>3, <3>1, <3>2 DEF Executed
  <2>4. CASE b # f.nthr - 1 /\ b + 1 \in Held(f) /\ f.work[b + 1] = q
    <3>1. given[q] # NULL
      <4>1. \A e \in DOMAIN stack[u] : stack[u][e].work[b + 1] = q /\ b + 1 \in Held(stack[u][e]) => Placed(q)
        BY DEF Placed
      <4> QED  BY <1>3, <2>4, <4>1, PlacedGiven
    <3>2. doing'[q] = "work"
      BY <1>2, <3>1
    <3>3. ~Executed(f, b)' /\ ~Executed(f, b)
      BY <1>1, <2>4, <3>2 DEF Executed
    <3> QED  BY <3>3
  <2> QED  BY <2>2, <2>3, <2>4
<1> QED  BY <1>1, <1>3, StillProgress

(* A worker through with its block has executed it. *)
LEMMA WorkProgress ==
  ASSUME OwnedInv, Progress, NEW q \in Workers, Work(q)
  PROVE  Progress'
<1> TypeOK /\ FramesOK /\ CallsApart /\ HeldOnce /\ HeldState
  BY DEF OwnedInv
<1>1. /\ doing[q] = "work" /\ Execute(given[q]) /\ UNCHANGED <<stack, ready>>
      /\ doing'[q] = "wait" /\ \A p \in Workers \ {q} : doing'[p] = doing[p]
  BY DEF Work, TypeOK
<1>2. Placed(q)
  BY <1>1, SpawnLoopAssumption DEF OwnedInv, Accounted, QueueState, VictimState
<1>3. PICK t \in Threads : \E d \in DOMAIN stack[t] : \E j \in Held(stack[t][d]) :
        stack[t][d].work[j] = q
  BY <1>2 DEF Placed
<1>4. PICK d \in DOMAIN stack[t] : \E j \in Held(stack[t][d]) : stack[t][d].work[j] = q
  BY <1>3
<1>5. PICK j \in Held(stack[t][d]) : stack[t][d].work[j] = q
  BY <1>4
<1>6. PICK f : f = stack[t][d]
  OBVIOUS
<1>7. /\ f \in Frame /\ FrameOK(f) /\ j \in Held(f) /\ j \in DOMAIN f.work /\ f.work[j] = q
      /\ j \in Nat \ {0} /\ f.nthr \in Nat \ {0} /\ j <= Len(f.work)
      /\ Len(f.work) \in Nat /\ Len(f.work) <= f.nthr - 1
  <2>1. f \in Frame /\ FrameOK(f) /\ j \in Held(f) /\ f.work[j] = q /\ j \in Nat \ {0}
    BY <1>5, <1>6, HeldTypes DEF FramesOK
  <2>2. j \in DOMAIN f.work /\ f.nthr \in Nat \ {0} /\ f.i \in Nat /\ DOMAIN f.work = 1 .. Len(f.work)
        /\ Len(f.work) \in Nat
    BY <2>1 DEF Held, Frame
  <2>3. Len(f.work) <= f.nthr - 1
    BY <2>1, <2>2 DEF FrameOK
  <2> QED  BY <2>1, <2>2, <2>3
<1>8. PICK w : w = given[q]
  OBVIOUS
<1>9. w.call = f.call /\ w.shape = f.shape /\ w.i = j - 1 /\ ready[q] = 0
  <2>1. Settled(f, j)
    BY <1>5, <1>6 DEF HeldState
  <2>2. w = Told(f, j - 1) /\ ready[q] = 0
    BY <1>1, <1>7, <1>8, <2>1 DEF Settled
  <2> QED  BY <2>2 DEF Told
<1>10. ASSUME NEW u \in Threads, NEW e \in DOMAIN stack[u], NEW k \in Held(stack[u][e]),
              stack[u][e].work[k] = q
       PROVE  u = t /\ e = d /\ k = j
  <2>1. \A y \in Held(stack[u][e]), z \in Held(stack[t][d]) :
          stack[u][e].work[y] = stack[t][d].work[z] => u = t /\ e = d /\ y = z
    BY DEF HeldOnce
  <2> QED  BY <1>5, <1>10, <2>1
<1> SUFFICES ASSUME NEW u \in Threads, NEW e \in DOMAIN stack'[u], NEW h, h = stack'[u][e],
                    h.shape[1] # 0, NEW b \in 0 .. h.nthr - 1
             PROVE  Tallied(h, b)'
  BY DEF Progress
<1>11. e \in DOMAIN stack[u] /\ h = stack[u][e] /\ Tallied(h, b)
  BY <1>1 DEF Progress
<1>12. h \in Frame /\ h.nthr \in Nat /\ \A k \in Held(h) : h.work[k] \in Workers
  BY <1>11, HeldTypes DEF Frame
<1>13. CASE u = t /\ e = d
  <2>1. h = f
    BY <1>6, <1>11, <1>13
  <2>2. b = j - 1 => ~Executed(f, b) /\ Executed(f, b)'
    <3> SUFFICES ASSUME b = j - 1 PROVE ~Executed(f, b) /\ Executed(f, b)'
      OBVIOUS
    <3>1. b + 1 = j /\ b # f.nthr - 1
      BY <1>7
    <3> QED  BY <1>1, <1>7, <1>9, <3>1 DEF Executed
  <2>3. ASSUME b # j - 1 PROVE Executed(f, b)' <=> Executed(f, b)
    <3>1. CASE b = f.nthr - 1 \/ b + 1 \notin Held(f)
      BY <1>1, <3>1 DEF Executed
    <3>2. CASE b # f.nthr - 1 /\ b + 1 \in Held(f)
      <4>1. PICK p : p = f.work[b + 1]
        OBVIOUS
      <4>2. b + 1 # j
        BY <1>7, <1>12, <2>1, <2>3
      <4>3. p \in Workers /\ p # q
        BY <1>10, <1>11, <1>12, <2>1, <3>2, <4>1, <4>2
      <4> QED  BY <1>1, <3>2, <4>1, <4>3 DEF Executed
    <3> QED  BY <3>1, <3>2
  <2>4. w.i \in 0 .. f.nthr - 1 /\ Execute(w)
    BY <1>1, <1>7, <1>8, <1>9
  <2> QED  BY <1>7, <1>9, <1>11, <2>1, <2>2, <2>3, <2>4, TalliedExecute
<1>14. CASE ~(u = t /\ e = d)
  <2>1. h.call # f.call /\ h.call \in DOMAIN times
    BY <1>6, <1>11, <1>14 DEF CallsApart, FramesOK, FrameOK
  <2>2. times'[h.call] = times[h.call]
    BY <1>1, <1>8, <1>9, <2>1 DEF Execute, TypeOK
  <2>3. \A k \in Held(h) : h.work[k] \in Workers \ {q}
    BY <1>10, <1>11, <1>12, <1>14
  <2>4. Executed(h, b)' <=> Executed(h, b)
    BY <1>1, <2>3, ExecutedKept
  <2> QED  BY <1>11, <2>2, <2>4, TalliedKept
<1> QED  BY <1>13, <1>14

(* No call is open, or its workers are as they were. *)
LEMMA RestProgress ==
  ASSUME OwnedInv, Progress,
         InitThreads \/ Cleanup \/ Kill \/ (\E q \in Workers : Terminate(q)) \/ UNCHANGED vars
  PROVE  Progress'
<1> TypeOK /\ HeldState /\ Quiet
  BY DEF OwnedInv
<1>1. CASE \E q \in Workers : Terminate(q)
  <2>1. PICK q \in Workers : Terminate(q)
    BY <1>1
  <2>2. /\ doing[q] = "terminate" /\ UNCHANGED <<stack, ready, times>>
        /\ \A p \in Workers \ {q} : doing'[p] = doing[p]
    BY <2>1 DEF Terminate, TypeOK
  <2>3. ASSUME NEW u \in Threads, NEW d \in DOMAIN stack[u], NEW f, f = stack[u][d],
               NEW b \in 0 .. f.nthr - 1
        PROVE  Executed(f, b)' <=> Executed(f, b)
    <3>1. \A j \in Held(f) : f.work[j] \in Workers
      BY <2>3, HeldTypes
    <3>2. \A j \in Held(f) : f.work[j] # q
      BY <2>2, <2>3 DEF HeldState, Settled
    <3> QED  BY <2>2, <3>1, <3>2, ExecutedKept
  <2> QED  BY <2>2, <2>3, StillProgress
<1>2. CASE InitThreads \/ Cleanup \/ Kill \/ UNCHANGED vars
  <2>1. UNCHANGED <<stack, times>>
    BY <1>2 DEF InitThreads, Cleanup, Kill, KillNext, KillJoin, KillEnd, vars
  <2>2. CASE \A t \in Threads : stack[t] = <<>>
    BY <2>1, <2>2 DEF Progress
  <2>3. CASE UNCHANGED <<doing, ready>>
    <3>1. \A u \in Threads : \A d \in DOMAIN stack'[u] : \A f \in {stack[u][d]} :
            \A b \in 0 .. f.nthr - 1 : Executed(f, b)' <=> Executed(f, b)
      BY <2>3 DEF Executed
    <3> QED  BY <2>1, <3>1, StillProgress
  <2>4. UNCHANGED <<doing, ready>> \/ kill # "off"
    BY <1>2 DEF InitThreads, Cleanup, Kill, KillNext, KillJoin, KillEnd, vars
  <2> QED  BY <2>2, <2>3, <2>4 DEF Quiet
<1> QED  BY <1>1, <1>2

LEMMA CallProgress ==
  ASSUME OwnedInv, Progress, NEW t \in Threads, NEW shape \in Shapes, Call(t, shape)
  PROVE  Progress'
<1> TypeOK /\ FramesOK
  BY DEF OwnedInv
<1> DEFINE loopmax == shape[1]
<1>1. PICK g : Entered(g, shape) /\ Pushed(t, g)
  BY CallEnters
<1>2. /\ g.call = Len(times) + 1 /\ g.shape = shape /\ g.work = <<>>
      /\ loopmax # 0 => g.nthr = ThreadsUsed(loopmax, shape[2]) /\ g.at = Distribute(0, g.nthr)
  BY <1>1 DEF Entered
<1>3. /\ \A u \in Threads : u # t => stack'[u] = stack[u]
      /\ DOMAIN stack'[t] = DOMAIN stack[t] \cup {Len(stack[t]) + 1}
      /\ \A d \in DOMAIN stack[t] : stack'[t][d] = stack[t][d]
      /\ stack'[t][Len(stack[t]) + 1] = g
  BY <1>1 DEF Pushed
<1>4. /\ \A c \in DOMAIN times : times'[c] = times[c]
      /\ \A k \in 0 .. loopmax - 1 : times'[g.call][k] = 0
      /\ UNCHANGED <<doing, ready>>
  <2>1. UNCHANGED <<doing, ready>> /\ DOMAIN times = 1 .. Len(times)
    BY DEF Call, TypeOK
  <2>2. /\ \A c \in 1 .. Len(times) : times'[c] = times[c]
        /\ \A k \in 0 .. loopmax - 1 : times'[Len(times) + 1][k] = 0
    BY CallEnters
  <2> QED  BY <1>2, <2>1, <2>2
<1> SUFFICES ASSUME NEW u \in Threads, NEW d \in DOMAIN stack'[u], NEW h, h = stack'[u][d],
                    h.shape[1] # 0, NEW b \in 0 .. h.nthr - 1
             PROVE  Tallied(h, b)'
  BY DEF Progress
<1>5. CASE h = g
  <2>1. /\ loopmax \in Nat \ {0} /\ shape[2] \in Nat \ {0}
        /\ g.nthr = ThreadsUsed(loopmax, shape[2]) /\ g.at \in {"take", "own"}
    BY <1>2, <1>5, ThreadsOfLoop DEF Distribute
  <2>2. ~Executed(g, b)'
    BY <1>2, <2>1 DEF Executed
  <2>3. Block(loopmax, shape[2], b) \subseteq 0 .. loopmax - 1
    <3>1. \A i \in 0 .. g.nthr - 1 : Block(loopmax, shape[2], i) \subseteq 0 .. loopmax - 1
      BY <2>1, BlocksPartition
    <3> QED  BY <1>5, <3>1
  <2>4. \A k \in Block(loopmax, shape[2], b) : times'[g.call][k] = 0
    BY <1>4, <2>3
  <2> QED  BY <1>2, <1>5, <2>2, <2>4 DEF Tallied
<1>6. CASE d \in DOMAIN stack[u] /\ h = stack[u][d]
  <2>1. Tallied(h, b) /\ h.call \in DOMAIN times
    BY <1>6 DEF Progress, FramesOK, FrameOK
  <2>2. Executed(h, b)' <=> Executed(h, b)
    BY <1>4 DEF Executed
  <2> QED  BY <1>4, <2>1, <2>2, TalliedKept
<1> QED  BY <1>3, <1>5, <1>6

LEMMA ProgressNext ==
  ASSUME OwnedInv, Progress, [Next]_vars
  PROVE  Progress'
<1>1. ASSUME NEW t \in Threads, Step(t) PROVE Progress'
  BY <1>1, TakeGives, MakeGives, TellProgress, OwnProgress, CollectProgress, ReturnProgress DEF Step
<1>2. ASSUME NEW t \in Threads, NEW shape \in Shapes, Call(t, shape) PROVE Progress'
  BY <1>2, CallProgress
<1>3. ASSUME NEW q \in Workers, WorkerStep(q) PROVE Progress'
  BY <1>3, WakeProgress, WorkProgress, RestProgress DEF WorkerStep
<1> QED  BY <1>1, <1>2, <1>3, RestProgress DEF Next

(* What was executed of a call that is open is what its frame and the semaphores *)
(* of its workers say: no block twice, none left out.                            *)
THEOREM CountsFollowFrames == Spec => []Progress
<1>1. Init => Progress
  BY DEF Init, Progress
<1>2. OwnedInv /\ Progress /\ [Next]_vars => Progress'
  BY ProgressNext
<1> QED  BY <1>1, <1>2, WorkersOwned, PTL DEF Spec

--------------------------------------------------------------------------------
(* The pool does what ParallelLoop promises. *)

(* Call c has not returned. *)
InOpen(c) == \E t \in Threads : \E d \in DOMAIN stack[t] : stack[t][d].call = c

(* The loops that are open are those of the calls on the stacks. *)
LEMMA OpenCalls ==
  \A c : (c \in Open <=> InOpen(c)) /\ (c \in Open' <=> InOpen(c)')
<1> SUFFICES ASSUME NEW c PROVE (c \in Open <=> InOpen(c)) /\ (c \in Open' <=> InOpen(c)')
  OBVIOUS
<1>1. \A t \in Threads : \A d \in DOMAIN stack[t] : <<t, d>> \in Frames
  BY DEF Frames
<1>2. \A t \in Threads : \A d \in DOMAIN stack'[t] : <<t, d>> \in Frames'
  BY DEF Frames
<1>3. ASSUME InOpen(c) PROVE c \in Open
  <2>1. PICK t \in Threads : \E d \in DOMAIN stack[t] : stack[t][d].call = c
    BY <1>3 DEF InOpen
  <2>2. PICK d \in DOMAIN stack[t] : stack[t][d].call = c
    BY <2>1
  <2>3. PICK f \in Frames : f[1] = t /\ f[2] = d
    BY <1>1
  <2> QED  BY <2>2, <2>3 DEF Open
<1>4. ASSUME InOpen(c)' PROVE c \in Open'
  <2>1. PICK t \in Threads : \E d \in DOMAIN stack'[t] : stack'[t][d].call = c
    BY <1>4 DEF InOpen
  <2>2. PICK d \in DOMAIN stack'[t] : stack'[t][d].call = c
    BY <2>1
  <2>3. PICK f \in Frames' : f[1] = t /\ f[2] = d
    BY <1>2
  <2> QED  BY <2>2, <2>3 DEF Open
<1>5. c \in Open => InOpen(c)
  BY DEF Open, Frames, InOpen
<1>6. c \in Open' => InOpen(c)'
  BY DEF Open, Frames, InOpen
<1> QED  BY <1>3, <1>4, <1>5, <1>6

LEMMA ReplacedOpen ==
  ASSUME NEW t \in Threads, Len(stack[t]) \in DOMAIN stack[t],
         NEW g, Replaced(t, g), g.call = stack[t][Len(stack[t])].call
  PROVE  Open' = Open
<1>1. ASSUME NEW c PROVE InOpen(c)' <=> InOpen(c)
  BY DEF InOpen, Replaced
<1> QED  BY <1>1, OpenCalls

(* A step that executes block n of an open call, of which nothing was executed,  *)
(* is a step of ParallelLoop.                                                    *)
LEMMA BlockExecuted ==
  ASSUME TypeOK, NEW f \in Frame, FrameOK(f), f.shape[1] # 0, InOpen(f.call),
         NEW w, w.call = f.call, w.shape = f.shape, w.i \in 0 .. f.nthr - 1, Execute(w),
         Tallied(f, w.i), ~Executed(f, w.i), Open' = Open
  PROVE  Loops!Next
<1>1. PICK c : c = f.call
  OBVIOUS
<1>2. PICK its : its = Block(f.shape[1], f.shape[2], w.i)
  OBVIOUS
<1>3. /\ f.shape[1] \in Nat \ {0} /\ f.shape[2] \in Nat \ {0}
      /\ f.nthr = ThreadsUsed(f.shape[1], f.shape[2])
  BY FrameBlocks
<1>4. c \in DOMAIN times /\ DOMAIN times[c] = 0 .. f.shape[1] - 1 /\ c \in Open
  BY <1>1, OpenCalls DEF FrameOK
<1>5. its # {} /\ its \subseteq DOMAIN times[c]
  <2>1. \A i \in 0 .. f.nthr - 1 :
          /\ Block(f.shape[1], f.shape[2], i) # {}
          /\ Block(f.shape[1], f.shape[2], i) \subseteq 0 .. f.shape[1] - 1
    BY <1>3, BlocksPartition
  <2> QED  BY <1>2, <1>4, <2>1
<1>6. \A k \in its : times[c][k] = 0
  BY <1>1, <1>2 DEF Tallied
<1>7. PICK new : new = [k \in DOMAIN times[c] |-> IF k \in its THEN 1 ELSE times[c][k]]
  OBVIOUS
<1>8. [k \in DOMAIN times[c] |-> IF k \in its THEN times[c][k] + 1 ELSE times[c][k]] = new
  BY <1>6, <1>7
<1>9. times' = [times EXCEPT ![c] = new]
  <2>1. times' = [times EXCEPT ![c] = [k \in DOMAIN times[c] |->
                    IF k \in its THEN times[c][k] + 1 ELSE times[c][k]]]
    BY <1>1, <1>2 DEF Execute
  <2> QED  BY <1>8, <2>1
<1>10. Loops!Execute(c)
  BY <1>5, <1>6, <1>7, <1>9 DEF Loops!Execute
<1> QED  BY <1>4, <1>10 DEF Loops!Next

(* The steps that ParallelLoop sees: a return, a call, a block, ... *)
LEMMA ReturnRefines ==
  ASSUME OwnedInv, Progress, NEW t \in Threads, Return(t)
  PROVE  Loops!Next
<1> TypeOK /\ FramesOK /\ CallsApart
  BY DEF OwnedInv
<1> DEFINE top == Len(stack[t])
<1>1. PICK f : f = stack[t][Len(stack[t])]
  OBVIOUS
<1>2. /\ top \in DOMAIN stack[t] /\ f \in Frame /\ f.at = "collect" /\ stack[t] # <<>>
      /\ FrameOK(f) /\ f.i = f.nthr - 1
  BY TopFrame, <1>1 DEF Is, Top, FramesOK, Return
<1>3. /\ \A u \in Threads : u # t => stack'[u] = stack[u]
      /\ DOMAIN stack'[t] = DOMAIN stack[t] \ {top}
      /\ \A d \in DOMAIN stack'[t] : stack'[t][d] = stack[t][d]
  BY <1>2, PopFrame DEF Return
<1>4. InOpen(f.call)
  BY <1>1, <1>2 DEF InOpen
<1>5. ASSUME NEW c PROVE InOpen(c)' <=> InOpen(c) /\ c # f.call
  <2>1. ASSUME InOpen(c)' PROVE InOpen(c) /\ c # f.call
    <3>1. PICK u \in Threads : \E d \in DOMAIN stack'[u] : stack'[u][d].call = c
      BY <2>1 DEF InOpen
    <3>2. PICK d \in DOMAIN stack'[u] : stack'[u][d].call = c
      BY <3>1
    <3>3. d \in DOMAIN stack[u] /\ stack[u][d].call = c /\ (u = t => d # top)
      BY <1>3, <3>2
    <3> QED  BY <1>1, <1>2, <3>3 DEF InOpen, CallsApart
  <2>2. ASSUME InOpen(c), c # f.call PROVE InOpen(c)'
    <3>1. PICK u \in Threads : \E d \in DOMAIN stack[u] : stack[u][d].call = c
      BY <2>2 DEF InOpen
    <3>2. PICK d \in DOMAIN stack[u] : stack[u][d].call = c
      BY <3>1
    <3>3. d \in DOMAIN stack'[u] /\ stack'[u][d].call = c
      BY <1>1, <1>3, <2>2, <3>2
    <3> QED  BY <3>3 DEF InOpen
  <2> QED  BY <2>1, <2>2
<1>6. Open' = Open \ {f.call} /\ f.call \in Open
  BY <1>4, <1>5, OpenCalls
<1>7. \A k \in DOMAIN times[f.call] : times[f.call][k] = 1
  <2>1. CASE f.shape[1] = 0
    BY <1>2, <2>1 DEF FrameOK
  <2>2. CASE f.shape[1] # 0
    <3>1. /\ f.shape[1] \in Nat \ {0} /\ f.shape[2] \in Nat \ {0}
          /\ f.nthr = ThreadsUsed(f.shape[1], f.shape[2])
      BY <1>2, <2>2, FrameBlocks
    <3>2. ASSUME NEW b \in 0 .. f.nthr - 1 PROVE Executed(f, b)
      <4>1. /\ f.nthr \in Nat \ {0} /\ DOMAIN f.work = 1 .. f.nthr - 1
        BY <1>2 DEF Frame, FrameOK
      <4>2. b # f.nthr - 1 => b + 1 \in DOMAIN f.work /\ b + 1 \notin Held(f)
        BY <1>2, <4>1 DEF Held
      <4> QED  BY <1>2, <4>2 DEF Executed
    <3>3. \A k \in 0 .. f.shape[1] - 1 : \E b \in 0 .. f.nthr - 1 : k \in Block(f.shape[1], f.shape[2], b)
      BY <3>1, BlocksPartition
    <3>4. \A b \in 0 .. f.nthr - 1 : Tallied(f, b)
      BY <1>1, <1>2, <2>2 DEF Progress
    <3> QED  BY <1>2, <3>2, <3>3, <3>4 DEF Tallied, FrameOK
  <2> QED  BY <2>1, <2>2
<1>8. times' = times
  BY DEF Return
<1>9. Loops!Return(f.call)
  BY <1>6, <1>7, <1>8 DEF Loops!Return
<1> QED  BY <1>6, <1>9 DEF Loops!Next

LEMMA CallRefines ==
  ASSUME OwnedInv, NEW t \in Threads, NEW shape \in Shapes, Call(t, shape)
  PROVE  Loops!Next
<1> TypeOK
  BY DEF OwnedInv
<1>1. times' = Append(times, [k \in 0 .. shape[1] - 1 |-> 0])
  BY DEF Call
<1>2. Open' = Open \cup {Len(times) + 1}
  <2> SUFFICES ASSUME NEW c PROVE InOpen(c)' <=> InOpen(c) \/ c = Len(times) + 1
    BY OpenCalls
  <2>1. PICK g : Entered(g, shape) /\ Pushed(t, g)
    BY CallEnters
  <2>2. /\ g.call = Len(times) + 1
        /\ \A u \in Threads : u # t => stack'[u] = stack[u]
        /\ DOMAIN stack'[t] = DOMAIN stack[t] \cup {Len(stack[t]) + 1}
        /\ \A d \in DOMAIN stack[t] : stack'[t][d] = stack[t][d]
        /\ stack'[t][Len(stack[t]) + 1] = g
    BY <2>1 DEF Entered, Pushed
  <2> QED  BY <2>2 DEF InOpen
<1> QED  BY <1>1, <1>2 DEF Loops!Next, Loops!Call

(* ... and no other. *)
LEMMA StepRefines ==
  ASSUME OwnedInv, Progress, NEW t \in Threads, Step(t)
  PROVE  Loops!Next \/ UNCHANGED <<times, Open>>
<1> TypeOK /\ FramesOK
  BY DEF OwnedInv
<1>1. PICK f : f = stack[t][Len(stack[t])]
  OBVIOUS
<1>2. /\ stack[t] # <<>> /\ Len(stack[t]) \in DOMAIN stack[t] /\ f = Top(t)
      /\ f \in Frame /\ FrameOK(f)
  <2>1. stack[t] # <<>>
    BY DEF Step, Take, Make, Own, Collect, Enqueue, Return, Is
  <2> QED  BY <1>1, <2>1, TopFrame DEF FramesOK
<1>3. ASSUME Take(t) \/ Make(t) PROVE Open' = Open /\ times' = times
  <2>1. PICK q \in Workers : Gives(t, q)
    BY <1>3, TakeGives, MakeGives
  <2>2. PICK g : Handed(t, f, g, q)
    BY <1>1, <2>1, TellFrame DEF Gives
  <2>3. Replaced(t, g) /\ g.call = f.call /\ times' = times
    BY <2>1, <2>2 DEF Handed, Gives
  <2> QED  BY <1>1, <1>2, <2>3, ReplacedOpen
<1>4. ASSUME NEW g, Goes(t, f, g) PROVE Open' = Open
  BY <1>1, <1>2, <1>4, ReplacedOpen DEF Goes
<1>5. ASSUME Collect(t) \/ Enqueue(t) PROVE Open' = Open /\ times' = times
  <2>1. \E g : Goes(t, f, g)
    BY <1>1, <1>5, CollectFrame, EnqueueFrame
  <2> QED  BY <1>4, <1>5, <2>1 DEF Collect, Enqueue
<1>6. ASSUME Own(t) PROVE Loops!Next
  <2>1. Open' = Open
    BY <1>1, <1>4, <1>6, OwnFrame
  <2>2. f.at = "own" /\ Execute(f)
    BY <1>2, <1>6 DEF Own, Is, Top
  <2>3. f.shape[1] # 0 /\ f.i = f.nthr - 1 /\ f.i \in 0 .. f.nthr - 1
    BY <1>2, <2>2 DEF Frame, FrameOK
  <2>4. Tallied(f, f.i) /\ ~Executed(f, f.i)
    BY <1>1, <1>2, <2>2, <2>3 DEF Progress, Executed
  <2>5. InOpen(f.call)
    BY <1>1, <1>2 DEF InOpen
  <2> QED  BY <1>2, <2>1, <2>2, <2>3, <2>4, <2>5, BlockExecuted
<1> QED  BY <1>3, <1>5, <1>6, ReturnRefines DEF Step

LEMMA WorkRefines ==
  ASSUME OwnedInv, Progress, NEW q \in Workers, Work(q)
  PROVE  Loops!Next
<1> TypeOK /\ FramesOK /\ HeldState
  BY DEF OwnedInv
<1>1. doing[q] = "work" /\ Execute(given[q]) /\ stack' = stack
  BY DEF Work
<1>2. Placed(q)
  BY <1>1, SpawnLoopAssumption DEF OwnedInv, Accounted, QueueState, VictimState
<1>3. PICK t \in Threads : \E d \in DOMAIN stack[t] : \E j \in Held(stack[t][d]) :
        stack[t][d].work[j] = q
  BY <1>2 DEF Placed
<1>4. PICK d \in DOMAIN stack[t] : \E j \in Held(stack[t][d]) : stack[t][d].work[j] = q
  BY <1>3
<1>5. PICK j \in Held(stack[t][d]) : stack[t][d].work[j] = q
  BY <1>4
<1>6. PICK f : f = stack[t][d]
  OBVIOUS
<1>7. /\ f \in Frame /\ FrameOK(f) /\ j \in Held(f) /\ f.work[j] = q
      /\ j \in 1 .. Len(f.work) /\ j \in DOMAIN f.work /\ Len(f.work) \in Nat
      /\ f.nthr \in Nat \ {0} /\ f.i \in Nat /\ InOpen(f.call) /\ Settled(f, j)
  <2>1. f \in Frame /\ FrameOK(f) /\ j \in Held(f) /\ f.work[j] = q /\ InOpen(f.call)
    BY <1>5, <1>6, HeldTypes DEF FramesOK, InOpen
  <2>2. Settled(f, j)
    BY <1>5, <1>6 DEF HeldState
  <2> QED  BY <2>1, <2>2 DEF Frame, Held
<1>8. Len(f.work) <= f.nthr - 1
  BY <1>7 DEF FrameOK
<1>9. f.shape[1] # 0
  <2>1. f.nthr # 1
    BY <1>7, <1>8
  <2> QED  BY <1>7, <2>1 DEF FrameOK
<1>10. PICK w : w = given[q]
  OBVIOUS
<1>11. w.call = f.call /\ w.shape = f.shape /\ w.i = j - 1 /\ Execute(w)
  <2>1. w = Told(f, j - 1)
    BY <1>7, <1>10 DEF Settled
  <2> QED  BY <1>1, <1>10, <2>1 DEF Told
<1>12. w.i \in 0 .. f.nthr - 1 /\ w.i # f.nthr - 1 /\ w.i + 1 = j
  BY <1>7, <1>8, <1>11
<1>13. Tallied(f, w.i)
  BY <1>6, <1>9, <1>12 DEF Progress
<1>14. ~Executed(f, w.i)
  BY <1>1, <1>7, <1>12 DEF Executed
<1>15. Open' = Open
  BY <1>1 DEF Open, Frames
<1> QED  BY <1>7, <1>9, <1>11, <1>12, <1>13, <1>14, <1>15, BlockExecuted

LEMMA NextRefines ==
  ASSUME OwnedInv, Progress, [Next]_vars
  PROVE  Loops!Next \/ UNCHANGED <<times, Open>>
<1>1. ASSUME NEW t \in Threads, NEW shape \in Shapes, Call(t, shape) PROVE Loops!Next
  BY <1>1, CallRefines
<1>2. ASSUME NEW q \in Workers, WorkerStep(q) PROVE Loops!Next \/ UNCHANGED <<times, Open>>
  <2>1. ASSUME Wake(q) \/ Terminate(q) PROVE UNCHANGED <<times, Open>>
    BY <2>1 DEF Wake, Terminate, Open, Frames
  <2> QED  BY <1>2, <2>1, WorkRefines DEF WorkerStep
<1>3. ASSUME InitThreads \/ Cleanup \/ Kill \/ UNCHANGED vars PROVE UNCHANGED <<times, Open>>
  <2>1. UNCHANGED <<stack, times>>
    BY <1>3 DEF InitThreads, Cleanup, Kill, KillNext, KillJoin, KillEnd, vars
  <2> QED  BY <2>1 DEF Open, Frames
<1> QED  BY <1>1, <1>2, <1>3, StepRefines DEF Next

(* spawn_loop returns only after every iteration was executed, each of them      *)
(* once: what the comment at threads.c:398 says, of every call, for any number   *)
(* of threads, of workers, and of calls at the same time or inside each other.   *)
THEOREM PoolExecutesEachOnce == Spec => ExecutesEachOnce
<1>1. Init => Loops!Init
  <2> SUFFICES ASSUME Init PROVE times = <<>> /\ Open = {}
    BY DEF Loops!Init
  <2>1. \A t \in Threads : DOMAIN stack[t] = {}
    BY DEF Init
  <2> QED  BY <2>1 DEF Init, Open, Frames
<1>2. OwnedInv /\ Progress /\ [Next]_vars => [Loops!Next]_(Loops!vars)
  BY NextRefines DEF Loops!vars
<1> QED  BY <1>1, <1>2, WorkersOwned, CountsFollowFrames, PTL DEF Spec, ExecutesEachOnce, Loops!Spec
================================================================================
