---------------------------- MODULE OrderedProofs ----------------------------
(***************************************************************************)
(* Theorems about barriers, for every number of requests and of requests   *)
(* put back, and every way of ordering that blk_queue_ordered accepts.     *)
(*                                                                         *)
(* A list is reduced to two things: the set of its entries and which of    *)
(* them stands before which.  The queue and what the driver has are        *)
(* related by one relation, Behind, that a barrier and its parts impose on *)
(* the two lists taken together.                                           *)
(***************************************************************************)
EXTENDS OrderedQueue, ListLemmas

-----------------------------------------------------------------------------
(* The inductive invariant *)

All == Requests \cup Proxies

\* A request that barriers order: file system requests and barriers.
NonPc(x) == x \in Requests /\ kind[x] # "pc"

\* The types, and what holds of a sequence that is running.
Types ==
    /\ kind \in [Requests -> Kinds]
    /\ submitted \in 0 .. MaxRequests
    /\ color \in [Requests -> BOOLEAN] /\ ordcolor \in BOOLEAN
    /\ sched \subseteq Requests
    /\ queue \in Seq(All) /\ flight \in Seq(All)
    /\ next_ordered \in Modes
    /\ orig \in 0 .. MaxRequests
    /\ orderr \in BOOLEAN
    /\ result \in [Requests -> {"none", "ok", "error"}]
    /\ requeues \in 0 .. MaxRequeues
    /\ ordseq \subseteq STARTED .. POSTFLUSH
    /\ overtaken \subseteq Range(flight)

\* A request is in one place.
Places ==
    \A r \in Requests :
       /\ r > submitted \/ r \in sched \/ r \in Range(queue) \/ r \in Range(flight)
             \/ InSequence(r) \/ Ended(r)
       /\ ~(r > submitted /\ (r \in sched \/ r \in Range(queue) \/ r \in Range(flight)
                                 \/ InSequence(r) \/ Ended(r)))
       /\ ~(r \in sched /\ (r \in Range(queue) \/ r \in Range(flight) \/ InSequence(r) \/ Ended(r)))
       /\ ~(r \in Range(queue) /\ (r \in Range(flight) \/ InSequence(r) \/ Ended(r)))
       /\ ~(r \in Range(flight) /\ (InSequence(r) \/ Ended(r)))
       /\ ~(InSequence(r) /\ Ended(r))

\* What kind of request is where: the scheduler has file system requests
\* that were submitted after every barrier, a driver has no barrier.
KindsInPlace ==
    /\ \A r \in sched : kind[r] = "fs" /\ \A b \in Barriers : b <= submitted => b < r
    /\ \A r \in Range(flight) : ~IsBarrier(r)

\* The colours of a barrier and of what comes after it differ, unless a
\* barrier between them has another colour.
Coloured ==
    \A b \in Barriers :
       /\ \A x \in Requests : b < x /\ x <= submitted =>
             color[x] # color[b] \/ \E c \in Barriers : b < c /\ c < x /\ color[c] # color[b]
       /\ b <= submitted =>
             ordcolor # color[b] \/ \E c \in Barriers : b < c /\ c <= submitted /\ color[c] # color[b]

\* Two requests with no barrier from the first to before the second have the
\* same colour.
SameColour ==
    \A x \in Requests :
       /\ \A y \in Requests : x < y /\ y <= submitted =>
             color[x] = color[y] \/ \E c \in Barriers : x <= c /\ c < y
       /\ x <= submitted => color[x] = ordcolor \/ \E c \in Barriers : x <= c /\ c <= submitted

\* Entry y may come after entry x: a barrier keeps its place among the
\* others, the parts of the running sequence keep their order, and stand
\* between what was submitted before the barrier and what was submitted
\* after it.
Behind(x, y) ==
    /\ x # y
    /\ NonPc(x) /\ NonPc(y) /\ (IsBarrier(x) \/ IsBarrier(y)) => x < y
    /\ ordseq # {} =>
          /\ x \in Proxies /\ y \in Proxies => x < y
          /\ x \in Proxies /\ NonPc(y) => orig < y
          /\ NonPc(x) /\ y \in Proxies => x < orig
          /\ NonPc(x) /\ NonPc(y) /\ y < orig => x < orig

\* The driver has what was before the queue.
Lists ==
    /\ \A x, y \in All : Prec(queue, x, y) => Behind(x, y)
    /\ \A x \in Range(flight), y \in Range(queue) : ordseq # {} => Behind(x, y)
    /\ \A x, y \in All : Prec(flight, x, y) => x # y
    /\ ordseq # {} /\ ordered.by = "tag" => \A x, y \in All : Prec(flight, x, y) => Behind(x, y)

\* Nothing has overtaken a barrier that waits in the queue.
Ahead ==
    \A b \in Barriers : b \in Range(queue) =>
       \A x \in Requests : NonPc(x) /\ (Reached(x) \/ InSequence(x)) => x < b

\* What was submitted before a barrier that has ended has ended too or, by
\* tag, is with the driver and can not be put back any more.
Before(x) ==
    Ended(x) \/ (next_ordered.by = "tag" /\ x \in Range(flight) /\ x \in overtaken)

\* Unless barriers are not supported, one ends after all before it.
EndedAfter ==
    next_ordered.by # "none" =>
       \A b \in Barriers : Ended(b) => \A x \in Requests : NonPc(x) /\ x < b => Before(x)

\* When a request submitted after the barrier has ended, no part of the
\* barrier is in the queue, nor will one be put back.
Passed ==
    \A y \in Requests : NonPc(y) /\ Ended(y) /\ orig < y =>
       \A p \in Proxies : p \notin Range(queue) /\ (p \in Range(flight) => p \in overtaken)

\* The sequence that is running.
Sequence ==
    /\ \A x \in Proxies :
          /\ ~(x \in Range(queue) /\ x \in Range(flight))
          /\ x \in Range(queue) \cup Range(flight) <=> ordseq # {} /\ x + 5 \notin ordseq
    /\ ordseq # {} =>
          /\ STARTED \in ordseq /\ ordseq # STARTED .. POSTFLUSH
          /\ IsBarrier(orig)
          /\ next_ordered.by # "none" /\ ordered = OrderedFor(orig)
          /\ ordered.by = "tag" => DRAIN \in ordseq
          /\ \A b \in Barriers : Ended(b) => b < orig
          /\ Passed
          /\ ordered.by # "tag" =>
                /\ \A x \in Requests : NonPc(x) /\ Ended(x) => x < orig
                /\ \A x \in Range(flight) : NonPc(x) => x < orig
                /\ DRAIN \in ordseq => \A x \in Requests : NonPc(x) /\ x < orig => Ended(x)
                /\ \A x \in Proxies \cap Range(flight) :
                      0 .. x + 4 \subseteq ordseq

\* Errors are those of the parts that failed.
Errors ==
    /\ ordseq # {} => (orderr <=> orig \in failed)
    /\ failed \subseteq Requests
    /\ \A b \in failed : Ended(b) \/ InSequence(b)
    /\ ErrorReported

IInv ==
    /\ Types /\ Places /\ KindsInPlace /\ Coloured /\ SameColour
    /\ Lists /\ Ahead /\ EndedAfter /\ Sequence /\ Errors

-----------------------------------------------------------------------------
(* Stages, kinds and modes *)

\* Requests and proxies.
LEMMA Numbers ==
    /\ MaxRequests \in Nat /\ Requests = 1 .. MaxRequests /\ Requests \subseteq Nat \ {0}
    /\ Proxies = {-3, -2, -1} /\ Requests \cap Proxies = {} /\ 0 \notin Requests
    /\ IsFiniteSet(Requests)
    /\ \A x \in All : x \in Int
<1>1. MaxRequests \in Nat
  BY OrderedAssumption
<1>2. Proxies = {-3, -2, -1}
  BY DEF Proxies, pre_flush_rq, bar_rq, post_flush_rq
<1>3. IsFiniteSet(Requests)
  BY <1>1, FS_Interval DEF Requests
<1> QED
  BY <1>1, <1>2, <1>3 DEF Requests, All

\* The stage of an entry of the queue.
LEMMA ReqSeq ==
    /\ \A x \in Proxies : blk_ordered_req_seq(x) = x + 5
    /\ \A x \in Requests : blk_ordered_req_seq(x) =
          IF kind[x] = "pc" \/ color[x] = color[orig] THEN 1 ELSE 5
<1>1. \A x \in Proxies : x \notin Requests
  BY Numbers
<1>2. pre_flush_rq = -3 /\ bar_rq = -2 /\ post_flush_rq = -1
  BY DEF pre_flush_rq, bar_rq, post_flush_rq
<1>3. PREFLUSH = 2 /\ BAR = 3 /\ POSTFLUSH = 4 /\ DRAIN = 1 /\ DONE = 5
  BY DEF PREFLUSH, BAR, POSTFLUSH, DRAIN, DONE
<1>4. ASSUME NEW x \in Proxies PROVE blk_ordered_req_seq(x) = x + 5
  BY <1>1, <1>2, <1>3, Numbers DEF blk_ordered_req_seq
<1>5. ASSUME NEW x \in Requests
      PROVE  blk_ordered_req_seq(x) = IF kind[x] = "pc" \/ color[x] = color[orig] THEN 1 ELSE 5
  <2>1. x # -3 /\ x # -2 /\ x # -1
    BY Numbers
  <2> QED
    BY <1>2, <1>3, <2>1 DEF blk_ordered_req_seq
<1> QED
  BY <1>4, <1>5

\* The numbers of the stages.
LEMMA Stages ==
    STARTED = 0 /\ DRAIN = 1 /\ PREFLUSH = 2 /\ BAR = 3 /\ POSTFLUSH = 4 /\ DONE = 5
BY DEF STARTED, DRAIN, PREFLUSH, BAR, POSTFLUSH, DONE

\* ffz: the first stage that is not complete.
LEMMA CurSeq ==
    ASSUME NEW seq \in SUBSET (0 .. 4), seq # {}
    PROVE  /\ blk_ordered_cur_seq(seq) \in 0 .. 5
           /\ blk_ordered_cur_seq(seq) \notin seq
           /\ 0 .. blk_ordered_cur_seq(seq) - 1 \subseteq seq
           /\ blk_ordered_cur_seq(seq) = DONE <=> seq = 0 .. 4
<1> DEFINE P(n) == n \notin seq /\ 0 .. n - 1 \subseteq seq
<1>1. \E n \in 0 .. 5 : P(n)
  <2>1. 5 \notin seq
    OBVIOUS
  <2>2. \/ 0 \notin seq
        \/ 0 \in seq /\ 1 \notin seq
        \/ 0 \in seq /\ 1 \in seq /\ 2 \notin seq
        \/ 0 \in seq /\ 1 \in seq /\ 2 \in seq /\ 3 \notin seq
        \/ 0 \in seq /\ 1 \in seq /\ 2 \in seq /\ 3 \in seq /\ 4 \notin seq
        \/ 0 \in seq /\ 1 \in seq /\ 2 \in seq /\ 3 \in seq /\ 4 \in seq
    OBVIOUS
  <2>3. P(0) \/ P(1) \/ P(2) \/ P(3) \/ P(4) \/ P(5)
    BY <2>1, <2>2
  <2> HIDE DEF P
  <2> QED
    BY <2>3
<1>2. blk_ordered_cur_seq(seq) = CHOOSE n \in 0 .. 5 : P(n)
  BY DEF blk_ordered_cur_seq, DONE
<1> DEFINE c == blk_ordered_cur_seq(seq)
<1>3. c \in 0 .. 5 /\ P(c)
  <2> HIDE DEF P
  <2> QED
    BY <1>1, <1>2
<1> HIDE DEF c
<1>4. c = 5 <=> seq = 0 .. 4
  <2>1. c = 5 => 0 .. 4 \subseteq seq
    BY <1>3
  <2>2. seq = 0 .. 4 => c = 5
    BY <1>3
  <2> QED
    BY <2>1, <2>2
<1> QED
  BY <1>3, <1>4 DEF c, DONE

\* The modes: with tags a barrier has a part.
LEMMA ModeFacts ==
    ASSUME next_ordered \in Modes, NEW b
    PROVE  /\ next_ordered.by \in {"drain", "tag", "none"}
           /\ next_ordered.pre \in BOOLEAN /\ next_ordered.bar \in BOOLEAN
           /\ next_ordered.post \in BOOLEAN
           /\ OrderedFor(b).by \in {"drain", "tag", "none"}
           /\ next_ordered.by # "none" => OrderedFor(b).by \in {"drain", "tag"}
           /\ OrderedFor(b).by = "tag" => next_ordered.by = "tag"
           /\ OrderedFor(b).pre \in BOOLEAN /\ OrderedFor(b).bar \in BOOLEAN
           /\ OrderedFor(b).post \in BOOLEAN
           /\ OrderedFor(b).by = "tag" => OrderedFor(b).pre \/ OrderedFor(b).bar
<1>1. next_ordered \in blk_queue_ordered
  BY OrderedAssumption
<1>2. /\ next_ordered.by \in {"drain", "tag", "none"}
      /\ next_ordered.pre \in BOOLEAN /\ next_ordered.bar \in BOOLEAN /\ next_ordered.post \in BOOLEAN
      /\ next_ordered.by = "tag" => next_ordered.bar
  <2>1. CASE next_ordered = Mode("none", FALSE, FALSE, FALSE)
    BY <2>1 DEF Mode
  <2>2. CASE next_ordered # Mode("none", FALSE, FALSE, FALSE)
    BY <1>1, <2>2 DEF blk_queue_ordered
  <2> QED
    BY <2>1, <2>2
<1>3. CASE kind[b] # "empty"
  BY <1>2, <1>3 DEF OrderedFor
<1>4. CASE kind[b] = "empty"
  BY <1>2, <1>4 DEF OrderedFor, Mode
<1> QED
  BY <1>2, <1>3, <1>4

\* Kinds never change.
LEMMA KindsSame ==
    ASSUME kind' = kind
    PROVE  /\ \A x : IsBarrier(x)' <=> IsBarrier(x)
           /\ \A x : NonPc(x)' <=> NonPc(x)
           /\ \A x : IsFs(x)' <=> IsFs(x)
           /\ Barriers' = Barriers /\ Fs' = Fs
BY DEF IsBarrier, NonPc, IsFs, Barriers, Fs

\* Barriers are requests.
LEMMA KindFacts ==
    /\ \A b : b \in Barriers <=> IsBarrier(b)
    /\ \A b : IsBarrier(b) => b \in Requests /\ NonPc(b) /\ kind[b] # "fs"
    /\ \A x : NonPc(x) => x \in Requests
    /\ \A x \in Requests : kind[x] = "fs" => NonPc(x) /\ ~IsBarrier(x)
    /\ \A r : r \in Fs <=> r \in Requests /\ kind[r] = "fs"
    /\ \A x : IsFs(x) <=> x = -2 \/ NonPc(x)
BY DEF Barriers, IsBarrier, NonPc, Fs, IsFs, bar_rq

-----------------------------------------------------------------------------
(* Colours *)

\* The names of what the lists hold.
LEMMA ListTypes ==
    ASSUME Types
    PROVE  /\ Range(queue) \subseteq All /\ Range(flight) \subseteq All
           /\ Len(queue) \in Nat /\ DOMAIN queue = 1 .. Len(queue)
           /\ Len(flight) \in Nat /\ DOMAIN flight = 1 .. Len(flight)
           /\ \A x, y : Prec(queue, x, y) => x \in Range(queue) /\ y \in Range(queue)
           /\ \A x, y : Prec(flight, x, y) => x \in Range(flight) /\ y \in Range(flight)
<1>1. queue \in Seq(All) /\ flight \in Seq(All)
  BY DEF Types
<1> QED
  BY <1>1, ListFacts

\* A barrier after the one whose sequence runs is in the queue.
LEMMA LaterBarrierQueued ==
    ASSUME IInv, ordseq # {}, NEW c \in Barriers, orig < c, c <= submitted
    PROVE  c \in Range(queue)
<1>1. c \in Requests /\ NonPc(c) /\ kind[c] # "fs" /\ IsBarrier(c)
  BY KindFacts
<1>2. c # orig
  BY <1>1, Numbers DEF IInv, Types
<1>3. ~Ended(c)
  <2>1. Ended(c) => c < orig
    BY DEF IInv, Sequence
  <2> QED
    BY <1>1, <2>1, Numbers DEF IInv, Types
<1>4. c \notin sched /\ c \notin Range(flight)
  BY <1>1 DEF IInv, KindsInPlace
<1>5. ~(c > submitted)
  BY <1>1, Numbers DEF IInv, Types
<1> QED
  BY <1>1, <1>2, <1>3, <1>4, <1>5 DEF IInv, Places, InSequence

\* During a sequence, an entry of the queue that was submitted after the
\* barrier and has its colour again is behind a barrier that has not.
LEMMA ColourInQueue ==
    ASSUME IInv, ordseq # {}, NEW x \in Range(queue), NonPc(x), orig < x, color[x] = color[orig]
    PROVE  \E c \in Barriers : c \in Range(queue) /\ Prec(queue, c, x) /\ orig < c
                                 /\ color[c] # color[orig]
<1>1. x \in Requests /\ orig \in Barriers /\ orig \in Requests
  BY KindFacts DEF IInv, Sequence
<1>2. x <= submitted
  BY <1>1, Numbers DEF IInv, Places, Types
<1>3. PICK c \in Barriers : orig < c /\ c < x /\ color[c] # color[orig]
  BY <1>1, <1>2 DEF IInv, Coloured
<1>4. c \in Requests /\ NonPc(c) /\ IsBarrier(c)
  BY KindFacts
<1>5. c \in Range(queue)
  <2>1. c <= submitted
    BY <1>1, <1>2, <1>3, <1>4, Numbers DEF IInv, Types
  <2> QED
    BY <1>3, <2>1, LaterBarrierQueued
<1>6. c # x /\ ~(x < c)
  BY <1>1, <1>3, <1>4, Numbers
<1>7. ~Prec(queue, x, c)
  <2>1. Prec(queue, x, c) => Behind(x, c)
    BY <1>1, <1>4 DEF IInv, Lists, All
  <2> QED
    BY <1>4, <1>6, <2>1 DEF Behind
<1>8. Prec(queue, c, x)
  BY <1>5, <1>6, <1>7, ListFacts DEF IInv, Types
<1> QED
  BY <1>3, <1>5, <1>8

\* During a sequence, what the driver has was submitted before the barrier
\* exactly if it has its colour.
LEMMA ColourInFlight ==
    ASSUME IInv, ordseq # {}, NEW x \in Range(flight), NonPc(x),
           next_ordered.by = "tag" => x \notin overtaken
    PROVE  (x < orig <=> color[x] = color[orig]) /\ x # orig /\ (x < orig \/ orig < x)
<1>1. x \in Requests /\ orig \in Barriers /\ orig \in Requests /\ IsBarrier(orig) /\ NonPc(orig)
  BY KindFacts DEF IInv, Sequence
<1>2. /\ x <= submitted /\ orig <= submitted /\ ~IsBarrier(x) /\ x # orig /\ ~Ended(x)
      /\ InSequence(orig)
  BY <1>1, Numbers DEF IInv, Places, KindsInPlace, InSequence, Types
<1>3. x \in Int /\ orig \in Int /\ submitted \in Int
  BY <1>1, Numbers DEF IInv, Types
<1>4. ASSUME x < orig PROVE color[x] = color[orig]
  <2>1. SUFFICES ASSUME NEW c \in Barriers, x <= c, c < orig PROVE FALSE
    BY <1>1, <1>2, <1>4 DEF IInv, SameColour
  <2>2. c \in Requests /\ NonPc(c) /\ IsBarrier(c) /\ kind[c] # "fs" /\ c \in Int
    BY KindFacts, Numbers
  <2>3. x < c /\ c # orig /\ ~(c > submitted) /\ ~(orig < c)
    BY <1>2, <1>3, <2>1, <2>2
  <2>4. ~Ended(c)
    BY <1>1, <1>2, <2>3 DEF IInv, EndedAfter, Before, Sequence
  <2>5. c \notin Range(queue)
    BY <1>1, <1>2, <2>3 DEF IInv, Ahead
  <2>6. c \notin sched /\ c \notin Range(flight) /\ ~InSequence(c)
    BY <2>2, <2>3 DEF IInv, KindsInPlace, InSequence
  <2> QED
    BY <2>2, <2>3, <2>4, <2>5, <2>6 DEF IInv, Places
<1>5. ASSUME orig < x PROVE color[x] # color[orig]
  <2>1. SUFFICES ASSUME NEW c \in Barriers, orig < c, c < x PROVE FALSE
    BY <1>1, <1>2, <1>5 DEF IInv, Coloured
  <2>2. c \in Requests /\ c \in Int
    BY KindFacts, Numbers
  <2>3. c <= submitted /\ ~(x < c)
    BY <1>2, <1>3, <2>1, <2>2
  <2>4. c \in Range(queue)
    BY <2>1, <2>3, LaterBarrierQueued
  <2> QED
    BY <1>1, <2>3, <2>4 DEF IInv, Ahead, Reached
<1> QED
  BY <1>2, <1>3, <1>4, <1>5

\* The colours after a request has been given one.
LEMMA ColoursAdded ==
    ASSUME IInv, NEW r \in Requests, r = submitted + 1, __elv_add_request(r)
    PROVE  Coloured' /\ SameColour'
<1>1. /\ submitted \in Nat /\ submitted' = r /\ r \in Int /\ Barriers \subseteq Requests
      /\ color \in [Requests -> BOOLEAN] /\ ordcolor \in BOOLEAN /\ kind' = kind
      /\ Barriers' = Barriers
  BY Numbers, KindFacts, KindsSame DEF IInv, Types, __elv_add_request
<1>2. /\ color'[r] = ordcolor /\ \A x \in Requests : x # r => color'[x] = color[x]
  BY <1>1 DEF __elv_add_request
<1>3. ordcolor' = (ordcolor # IsBarrier(r))
  BY DEF __elv_add_request
<1>4. r \in Barriers => ordcolor' # ordcolor
  BY <1>3, KindFacts
<1>5. ordcolor' \in BOOLEAN
  BY <1>3
<1>6. r \notin Barriers => ordcolor' = ordcolor
  <2> SUFFICES ASSUME r \notin Barriers PROVE ordcolor' = ordcolor
    OBVIOUS
  <2>1. ~IsBarrier(r)
    BY KindFacts
  <2>2. CASE ordcolor = TRUE
    <3>1. IsBarrier(r) = FALSE
      BY <2>1 DEF IsBarrier
    <3>2. ordcolor # IsBarrier(r)
      BY <2>2, <3>1
    <3>3. ordcolor'
      BY <1>3, <3>2, Zenon
    <3>4. ordcolor' = TRUE
      BY <1>5, <3>3
    <3> QED
      BY <2>2, <3>4
  <2>3. CASE ordcolor = FALSE
    <3>1. IsBarrier(r) = FALSE
      BY <2>1 DEF IsBarrier
    <3>2. ~(ordcolor # IsBarrier(r))
      BY <2>3, <3>1
    <3>3. ~ordcolor'
      BY <1>3, <3>2, Zenon
    <3>4. ordcolor' = FALSE
      BY <1>5, <3>3
    <3> QED
      BY <2>3, <3>4
  <2> QED
    BY <1>1, <2>2, <2>3
<1>7. \A x \in Requests : x \in Int /\ (x <= r <=> x <= submitted \/ x = r) /\ (x <= submitted => x # r /\ x < r)
                          /\ (x < r => x <= submitted /\ x # r)
  BY <1>1, Numbers
<1>8. \A b \in Barriers : b \in Requests
  BY <1>1
<1>9. Coloured'
  <2> SUFFICES ASSUME NEW b \in Barriers
               PROVE  /\ \A x \in Requests : b < x /\ x <= r =>
                            color'[x] # color'[b] \/ \E c \in Barriers : b < c /\ c < x /\ color'[c] # color'[b]
                      /\ b <= r => ordcolor' # color'[b]
                                     \/ \E c \in Barriers : b < c /\ c <= r /\ color'[c] # color'[b]
    BY <1>1 DEF Coloured
  <2>1. ASSUME NEW x \in Requests, b < x, x <= r
        PROVE  color'[x] # color'[b] \/ \E c \in Barriers : b < c /\ c < x /\ color'[c] # color'[b]
    <3>1. CASE x = r
      <4>1. b <= submitted /\ b # r
        BY <1>7, <1>8, <2>1, <3>1
      <4>2. ordcolor # color[b] \/ \E c \in Barriers : b < c /\ c <= submitted /\ color[c] # color[b]
        BY <4>1 DEF IInv, Coloured
      <4> QED
        BY <1>2, <1>7, <1>8, <3>1, <4>1, <4>2
    <3>2. CASE x # r
      <4>1. x <= submitted
        BY <1>7, <2>1, <3>2
      <4>2. color[x] # color[b] \/ \E c \in Barriers : b < c /\ c < x /\ color[c] # color[b]
        BY <2>1, <4>1 DEF IInv, Coloured
      <4>3. \A c \in Barriers : c <= x => c # r
        BY <1>1, <1>7, <1>8, <4>1
      <4>4. \A c \in Barriers : c < x => c # r
        BY <1>1, <1>7, <1>8, <4>1
      <4> QED
        BY <1>2, <1>8, <2>1, <3>2, <4>2, <4>4
    <3> QED
      BY <3>1, <3>2
  <2>2. ASSUME b <= r
        PROVE  ordcolor' # color'[b] \/ \E c \in Barriers : b < c /\ c <= r /\ color'[c] # color'[b]
    <3>1. CASE b = r
      BY <1>2, <1>4, <3>1
    <3>2. CASE b # r
      <4>1. b <= submitted /\ b < r /\ color'[b] = color[b]
        BY <1>2, <1>7, <1>8, <2>2, <3>2
      <4>2. ordcolor # color[b] \/ \E c \in Barriers : b < c /\ c <= submitted /\ color[c] # color[b]
        BY <4>1 DEF IInv, Coloured
      <4>3. CASE \E c \in Barriers : b < c /\ c <= submitted /\ color[c] # color[b]
        BY <1>2, <1>7, <1>8, <4>1, <4>3
      <4>4. CASE ordcolor # color[b]
        <5>1. CASE r \in Barriers
          <6>1. b < r /\ r <= r /\ color'[r] # color'[b]
            BY <1>1, <1>2, <4>1, <4>4
          <6> QED
            BY <5>1, <6>1
        <5>2. CASE r \notin Barriers
          BY <1>6, <4>1, <4>4, <5>2
        <5> QED
          BY <5>1, <5>2
      <4> QED
        BY <4>2, <4>3, <4>4
    <3> QED
      BY <3>1, <3>2
  <2> QED
    BY <2>1, <2>2
<1>10. SameColour'
  <2> SUFFICES ASSUME NEW x \in Requests
               PROVE  /\ \A y \in Requests : x < y /\ y <= r =>
                            color'[x] = color'[y] \/ \E c \in Barriers : x <= c /\ c < y
                      /\ x <= r => color'[x] = ordcolor' \/ \E c \in Barriers : x <= c /\ c <= r
    BY <1>1 DEF SameColour
  <2>1. ASSUME NEW y \in Requests, x < y, y <= r
        PROVE  color'[x] = color'[y] \/ \E c \in Barriers : x <= c /\ c < y
    <3>1. CASE y = r
      <4>1. x <= submitted /\ x # r
        BY <1>7, <2>1, <3>1
      <4>2. color[x] = ordcolor \/ \E c \in Barriers : x <= c /\ c <= submitted
        BY <4>1 DEF IInv, SameColour
      <4> QED
        BY <1>2, <1>7, <1>8, <3>1, <4>1, <4>2
    <3>2. CASE y # r
      <4>1. y <= submitted /\ x # r
        BY <1>1, <1>7, <2>1, <3>2
      <4>2. color[x] = color[y] \/ \E c \in Barriers : x <= c /\ c < y
        BY <2>1, <4>1 DEF IInv, SameColour
      <4> QED
        BY <1>2, <3>2, <4>1, <4>2
    <3> QED
      BY <3>1, <3>2
  <2>2. ASSUME x <= r
        PROVE  color'[x] = ordcolor' \/ \E c \in Barriers : x <= c /\ c <= r
    <3>1. CASE r \in Barriers
      BY <1>1, <2>2, <3>1
    <3>2. CASE r \notin Barriers
      <4>1. CASE x = r
        BY <1>2, <1>6, <3>2, <4>1
      <4>2. CASE x # r
        <5>1. x <= submitted
          BY <1>7, <2>2, <4>2
        <5>2. color[x] = ordcolor \/ \E c \in Barriers : x <= c /\ c <= submitted
          BY <5>1 DEF IInv, SameColour
        <5> QED
          BY <1>2, <1>6, <1>7, <1>8, <3>2, <4>2, <5>2
      <4> QED
        BY <4>1, <4>2
    <3> QED
      BY <3>1, <3>2
  <2> QED
    BY <2>1, <2>2
<1> QED
  BY <1>9, <1>10

\* The colours when nothing is submitted.
LEMMA ColoursSame ==
    ASSUME IInv, UNCHANGED <<kind, submitted, color, ordcolor>>
    PROVE  Coloured' /\ SameColour'
<1>1. Barriers' = Barriers
  BY KindsSame
<1> QED
  BY <1>1 DEF IInv, Coloured, SameColour

\* Behind depends on the kinds and on the barrier whose sequence runs.
LEMMA BehindKept ==
    ASSUME kind' = kind, orig' = orig, ordseq' # {} => ordseq # {}
    PROVE  \A x, y : Behind(x, y) => Behind(x, y)'
BY KindsSame DEF Behind

\* What does not mention the scheduler and the requests submitted.
LEMMA CoreSame ==
    ASSUME IInv, UNCHANGED <<kind, queue, flight, overtaken, next_ordered, ordered, ordseq, orig,
                             orderr, result, failed>>
    PROVE  Lists' /\ Ahead' /\ EndedAfter' /\ Sequence' /\ Errors'
<1>1. /\ \A x : IsBarrier(x)' <=> IsBarrier(x)
      /\ \A x : NonPc(x)' <=> NonPc(x)
      /\ Barriers' = Barriers
      /\ \A x : Ended(x)' <=> Ended(x)
      /\ \A x : InSequence(x)' <=> InSequence(x)
      /\ \A x : Reached(x)' <=> Reached(x)
      /\ \A b : OrderedFor(b)' = OrderedFor(b)
  BY KindsSame DEF Ended, InSequence, Reached, OrderedFor
<1>2. Lists'
  BY BehindKept DEF IInv, Lists
<1>3. Ahead' /\ EndedAfter'
  BY <1>1 DEF IInv, Ahead, EndedAfter, Before
<1>4. Sequence'
  BY <1>1 DEF IInv, Sequence, Passed
<1>5. Errors'
  BY <1>1 DEF IInv, Errors, ErrorReported
<1> QED
  BY <1>2, <1>3, <1>4, <1>5

\* What depends on how requests ended and on the sequence, not on the lists.
LEMMA EndsSame ==
    ASSUME IInv, UNCHANGED <<kind, next_ordered, ordseq, orig, orderr, result, failed>>,
           next_ordered.by = "tag" =>
              \A x \in Range(flight) \cap overtaken : x \in Range(flight') /\ x \in overtaken'
    PROVE  EndedAfter' /\ Errors'
<1>1. /\ \A x : NonPc(x)' <=> NonPc(x)
      /\ Barriers' = Barriers
      /\ \A x : Ended(x)' <=> Ended(x)
      /\ \A x : InSequence(x)' <=> InSequence(x)
  BY KindsSame DEF Ended, InSequence
<1> QED
  BY <1>1 DEF IInv, EndedAfter, Before, Errors, ErrorReported

\* The sequence that is running, when no part of it moves.
LEMMA SequenceSame ==
    ASSUME IInv, UNCHANGED <<kind, next_ordered, ordered, ordseq, orig, result, flight,
                             overtaken>>,
           \A x \in Proxies : x \in Range(queue') <=> x \in Range(queue)
    PROVE  Sequence'
<1>1. /\ \A x : IsBarrier(x)' <=> IsBarrier(x)
      /\ \A x : NonPc(x)' <=> NonPc(x)
      /\ \A x : Ended(x)' <=> Ended(x)
      /\ \A b : OrderedFor(b)' = OrderedFor(b)
      /\ Barriers' = Barriers
  BY KindsSame DEF Ended, OrderedFor
<1> QED
  BY <1>1 DEF IInv, Sequence, Passed

\* What is not ordered may stand anywhere.
LEMMA PcAnywhere ==
    ASSUME NEW x, NEW y, x # y, ~NonPc(x), x \notin Proxies
    PROVE  Behind(x, y) /\ Behind(y, x)
BY KindFacts DEF Behind

\* A request submitted after every barrier may stand behind everything.
LEMMA LastInLine ==
    ASSUME IInv, NEW x \in All, NEW y \in Requests, x # y,
           x \in Requests => x <= submitted,
           \A b \in Barriers : b <= submitted => b < y,
           IsBarrier(y) => y > submitted
    PROVE  Behind(x, y)
<1>1. y \notin Proxies /\ y \in Int /\ submitted \in Int
  BY Numbers DEF IInv, Types
<1>2. NonPc(x) /\ NonPc(y) /\ (IsBarrier(x) \/ IsBarrier(y)) => x < y
  <2> SUFFICES ASSUME NonPc(x), IsBarrier(x) \/ IsBarrier(y) PROVE x < y
    OBVIOUS
  <2>1. x \in Requests /\ x \in Int /\ x <= submitted
    BY KindFacts, Numbers
  <2>2. CASE IsBarrier(x)
    BY <2>1, <2>2, KindFacts
  <2>3. CASE IsBarrier(y)
    BY <1>1, <2>1, <2>3
  <2> QED
    BY <2>2, <2>3
<1>3. ASSUME ordseq # {} PROVE orig < y /\ ~(y < orig)
  <2>1. orig \in Barriers /\ orig \in Requests /\ InSequence(orig) /\ orig \in Int
    BY <1>3, KindFacts, Numbers DEF IInv, Sequence, InSequence
  <2>2. orig <= submitted
    BY <1>1, <2>1 DEF IInv, Places
  <2>3. orig < y
    BY <2>1, <2>2
  <2> QED
    BY <1>1, <2>1, <2>3
<1> QED
  BY <1>1, <1>2, <1>3 DEF Behind

-----------------------------------------------------------------------------
(* Submitting *)

\* A request that is submitted is new.
LEMMA NewRequest ==
    ASSUME IInv, NEW r \in Requests, r = submitted + 1, __elv_add_request(r)
    PROVE  /\ submitted' = r /\ r \in 0 .. MaxRequests /\ r \in Int
           /\ r \notin sched /\ r \notin Range(queue) /\ r \notin Range(flight)
           /\ ~InSequence(r) /\ ~Ended(r)
           /\ \A x \in Requests : x \in Int /\ (x > r <=> x > submitted /\ x # r)
                                  /\ (x <= r <=> x <= submitted \/ x = r)
                                  /\ (x <= submitted => x < r)
           /\ \A x \in Requests : x \in sched \/ x \in Range(queue) \/ x \in Range(flight)
                                     \/ InSequence(x) \/ Ended(x) => x <= submitted /\ x < r /\ x # r
           /\ UNCHANGED <<kind, flight, overtaken, next_ordered, ordered, ordseq, orig, orderr, result, failed, requeues>>
           /\ \A x : Ended(x)' <=> Ended(x)
           /\ \A x : InSequence(x)' <=> InSequence(x)
           /\ \A x : Reached(x)' <=> Reached(x)
           /\ color' \in [Requests -> BOOLEAN] /\ ordcolor' \in BOOLEAN
<1>1. /\ submitted' = r
      /\ UNCHANGED <<kind, flight, overtaken, next_ordered, ordered, ordseq, orig, orderr, result, failed, requeues>>
      /\ color' = [color EXCEPT ![r] = ordcolor] /\ ordcolor' = (ordcolor # IsBarrier(r))
  BY DEF __elv_add_request
<1>2. color' \in [Requests -> BOOLEAN] /\ ordcolor' \in BOOLEAN
  BY <1>1 DEF IInv, Types
<1>3. submitted \in Int /\ r \in Int /\ r \in 0 .. MaxRequests /\ \A x \in Requests : x \in Int
  BY Numbers DEF IInv, Types
<1>4. r > submitted
  BY <1>3
<1>5. /\ r \notin sched /\ r \notin Range(queue) /\ r \notin Range(flight)
      /\ ~InSequence(r) /\ ~Ended(r)
  BY <1>4 DEF IInv, Places
<1>6. \A x \in Requests : x \in sched \/ x \in Range(queue) \/ x \in Range(flight)
                                     \/ InSequence(x) \/ Ended(x) => ~(x > submitted)
  BY DEF IInv, Places
<1>7. \A x \in Requests : ~(x > submitted) => x <= submitted /\ x < r /\ x # r
  BY <1>3
<1>8. \A x \in Requests : x \in Int /\ (x > r <=> x > submitted /\ x # r)
                                  /\ (x <= r <=> x <= submitted \/ x = r)
                                  /\ (x <= submitted => x < r)
  BY <1>3
<1>9. /\ \A x : Ended(x)' <=> Ended(x)
      /\ \A x : InSequence(x)' <=> InSequence(x)
      /\ \A x : Reached(x)' <=> Reached(x)
  BY <1>1 DEF Ended, InSequence, Reached
<1> QED
  BY <1>1, <1>2, <1>3, <1>5, <1>6, <1>7, <1>8, <1>9

\* The scheduler takes a file system request.
LEMMA InsertSortInv ==
    ASSUME IInv, NEW r \in Requests, r = submitted + 1, InsertSort(r)
    PROVE  IInv'
<1>1. kind[r] = "fs" /\ sched' = sched \cup {r} /\ queue' = queue /\ __elv_add_request(r)
  BY DEF InsertSort
<1>2. UNCHANGED <<kind, flight, overtaken, next_ordered, ordered, ordseq, orig, orderr, result, failed, requeues>>
  BY <1>1, NewRequest
<1>3. Types'
  BY <1>1, <1>2, NewRequest DEF IInv, Types
<1>4. Places'
  <2> SUFFICES ASSUME NEW x \in Requests
               PROVE  /\ x > r \/ x \in sched' \/ x \in Range(queue) \/ x \in Range(flight)
                            \/ InSequence(x) \/ Ended(x)
                      /\ ~(x > r /\ (x \in sched' \/ x \in Range(queue) \/ x \in Range(flight)
                                          \/ InSequence(x) \/ Ended(x)))
                      /\ ~(x \in sched' /\ (x \in Range(queue) \/ x \in Range(flight) \/ InSequence(x) \/ Ended(x)))
                      /\ ~(x \in Range(queue) /\ (x \in Range(flight) \/ InSequence(x) \/ Ended(x)))
                      /\ ~(x \in Range(flight) /\ (InSequence(x) \/ Ended(x)))
                      /\ ~(InSequence(x) /\ Ended(x))
    BY <1>1, <1>2, NewRequest DEF Places
  <2>1. CASE x = r
    BY <1>1, <2>1, NewRequest
  <2>2. CASE x # r
    <3>1. (x > r <=> x > submitted) /\ (x \in sched' <=> x \in sched)
      BY <1>1, <2>2, NewRequest
    <3> QED
      BY <3>1 DEF IInv, Places
  <2> QED
    BY <2>1, <2>2
<1>5. KindsInPlace'
  <2>1. ASSUME NEW x \in sched' PROVE kind[x] = "fs" /\ \A b \in Barriers : b <= r => b < x
    <3>1. \A b \in Barriers : b \in Requests /\ b # r
      BY <1>1, KindFacts
    <3>2. \A b \in Barriers : b <= r => b <= submitted /\ b < r
      BY <1>1, <3>1, NewRequest
    <3>3. CASE x = r
      BY <1>1, <3>2, <3>3
    <3>4. CASE x \in sched
      BY <3>2, <3>4 DEF IInv, KindsInPlace
    <3> QED
      BY <1>1, <3>3, <3>4
  <2>2. submitted' = r /\ Barriers' = Barriers /\ \A x : IsBarrier(x)' <=> IsBarrier(x)
    BY <1>1, <1>2, NewRequest, KindsSame
  <2> QED
    BY <1>2, <2>1, <2>2 DEF IInv, KindsInPlace
<1> QED
  BY <1>1, <1>2, <1>3, <1>4, <1>5, ColoursAdded, CoreSame DEF IInv

\* The scheduler is drained and the request goes to the end of the queue.
LEMMA InsertBackInv ==
    ASSUME IInv, NEW r \in Requests, r = submitted + 1, InsertBack(r)
    PROVE  IInv'
<1>1. sched' = {} /\ __elv_add_request(r)
  BY DEF InsertBack
<1>2. UNCHANGED <<kind, flight, overtaken, next_ordered, ordered, ordseq, orig, orderr, result, failed, requeues>>
  BY <1>1, NewRequest
<1>3. PICK s \in SetToSeqs(sched) : queue' = Append(queue \o s, r)
  BY DEF InsertBack
<1>4. sched \subseteq Requests /\ queue \in Seq(All) /\ flight \in Seq(All) /\ r \in All
  BY DEF IInv, Types, All
<1>5. s \in Seq(All) /\ Range(s) = sched /\ Once(s)
  <2>1. IsFiniteSet(sched)
    BY <1>4, Numbers, FS_Subset
  <2>2. s \in Seq(sched) /\ Range(s) = sched /\ Once(s)
    BY <2>1, SetToSeqsOrder
  <2>3. sched \subseteq All
    BY <1>4 DEF All
  <2> QED
    BY <2>2, <2>3, SeqMonotonic
<1>6. /\ queue \o s \in Seq(All) /\ Range(queue \o s) = Range(queue) \cup sched
      /\ \A x, y : Prec(queue \o s, x, y) <=>
            Prec(queue, x, y) \/ Prec(s, x, y) \/ (x \in Range(queue) /\ y \in sched)
  BY <1>4, <1>5, ConcatOrder
<1>7. /\ queue' \in Seq(All) /\ Range(queue') = Range(queue) \cup sched \cup {r}
      /\ \A x, y : Prec(queue', x, y) =>
            \/ Prec(queue, x, y) \/ Prec(s, x, y)
            \/ x \in Range(queue) /\ y \in sched
            \/ x \in Range(queue) \cup sched /\ y = r
  <2> DEFINE u == queue \o s
  <2>1. u \in Seq(All) /\ queue' = Append(u, r)
    BY <1>3, <1>6
  <2>2. Range(u) = Range(queue) \cup sched
    BY <1>6
  <2>3. \A x, y : Prec(u, x, y) =>
            Prec(queue, x, y) \/ Prec(s, x, y) \/ (x \in Range(queue) /\ y \in sched)
    BY <1>6
  <2> HIDE DEF u
  <2>4. /\ Append(u, r) \in Seq(All) /\ Range(Append(u, r)) = Range(u) \cup {r}
        /\ \A x, y : Prec(Append(u, r), x, y) <=> Prec(u, x, y) \/ (x \in Range(u) /\ y = r)
    BY <1>4, <2>1, AppendOrder
  <2> QED
    BY <2>1, <2>2, <2>3, <2>4
<1>8. Types'
  BY <1>1, <1>2, <1>7, NewRequest DEF IInv, Types
<1>9. Places'
  <2> SUFFICES ASSUME NEW x \in Requests
               PROVE  /\ x > r \/ x \in Range(queue') \/ x \in Range(flight)
                            \/ InSequence(x) \/ Ended(x)
                      /\ ~(x > r /\ (x \in Range(queue') \/ x \in Range(flight)
                                          \/ InSequence(x) \/ Ended(x)))
                      /\ ~(x \in Range(queue') /\ (x \in Range(flight) \/ InSequence(x) \/ Ended(x)))
                      /\ ~(x \in Range(flight) /\ (InSequence(x) \/ Ended(x)))
                      /\ ~(InSequence(x) /\ Ended(x))
    BY <1>1, <1>2, NewRequest DEF Places
  <2>1. CASE x = r
    BY <1>1, <1>7, <2>1, NewRequest
  <2>2. CASE x # r
    <3>1. (x > r <=> x > submitted) /\ (x \in Range(queue') <=> x \in sched \/ x \in Range(queue))
      BY <1>1, <1>7, <2>2, NewRequest
    <3> QED
      BY <3>1 DEF IInv, Places
  <2> QED
    BY <2>1, <2>2
<1>10. KindsInPlace'
  BY <1>1, <1>2, KindsSame DEF IInv, KindsInPlace
<1>11. /\ \A x \in Range(queue) \cup Range(flight), y \in sched : Behind(x, y)
       /\ \A x \in sched, y \in sched : x # y => Behind(x, y)
       /\ \A x \in Range(queue) \cup Range(flight) \cup sched : Behind(x, r)
  <2>1. Range(queue) \cup Range(flight) \cup sched \subseteq All
    BY <1>4, ListTypes DEF IInv, All
  <2>2. \A x \in Range(queue) \cup Range(flight) \cup sched : x \in Requests => x <= submitted /\ x # r
    BY <1>1, NewRequest
  <2>3. ASSUME NEW y \in sched
        PROVE  /\ y \in Requests /\ ~IsBarrier(y) /\ \A b \in Barriers : b <= submitted => b < y
               /\ \A x \in Range(queue) \cup Range(flight) : x # y
    <3>1. y \in Requests
      BY <1>4
    <3> QED
      BY <3>1, KindFacts DEF IInv, KindsInPlace, Places
  <2>4. \A x \in All, y \in sched : (x \in Requests => x <= submitted) /\ x # y => Behind(x, y)
    BY <2>3, LastInLine
  <2>5. /\ r > submitted /\ \A b \in Barriers : b <= submitted => b < r
    <3>1. \A b \in Barriers : b \in Requests
      BY KindFacts
    <3>2. r > submitted
      BY Numbers DEF IInv, Types
    <3> QED
      BY <1>1, <3>1, <3>2, NewRequest
  <2>6. \A x \in All : (x \in Requests => x <= submitted) /\ x # r => Behind(x, r)
    BY <2>5, LastInLine
  <2>7. \A x \in Range(queue) \cup Range(flight) \cup sched : x # r
    BY <1>1, NewRequest
  <2> QED
    BY <2>1, <2>2, <2>3, <2>4, <2>6, <2>7
<1>12. Lists'
  <2>1. \A x, y : Behind(x, y) => Behind(x, y)'
    BY <1>2, BehindKept
  <2>2. ASSUME NEW x \in All, NEW y \in All, Prec(queue', x, y) PROVE Behind(x, y)
    <3>1. CASE Prec(queue, x, y)
      BY <3>1 DEF IInv, Lists
    <3>2. CASE Prec(s, x, y)
      <4>1. x \in sched /\ y \in sched /\ x # y
        BY <1>5, <3>2, ListFacts DEF Once
      <4> QED
        BY <1>11, <4>1
    <3> QED
      BY <1>7, <1>11, <2>2, <3>1, <3>2
  <2>3. ASSUME NEW x \in Range(flight), NEW y \in Range(queue'), ordseq # {} PROVE Behind(x, y)
    BY <1>7, <1>11, <2>3 DEF IInv, Lists
  <2> QED
    BY <1>2, <2>1, <2>2, <2>3 DEF IInv, Lists
<1>13. Ahead'
  <2> SUFFICES ASSUME NEW b \in Barriers, b \in Range(queue'), NEW x \in Requests, NonPc(x),
                      Reached(x) \/ InSequence(x)
               PROVE  x < b
    <3>1. Barriers' = Barriers /\ \A x : NonPc(x)' <=> NonPc(x)
      BY <1>2, KindsSame
    <3>2. \A x : (Reached(x) \/ InSequence(x))' <=> Reached(x) \/ InSequence(x)
      BY <1>1, NewRequest
    <3> QED
      BY <3>1, <3>2 DEF Ahead
  <2>1. CASE b = r
    BY <1>1, <2>1, NewRequest DEF Reached
  <2>2. CASE b \in sched
    BY <2>2, KindFacts DEF IInv, KindsInPlace
  <2>3. CASE b \in Range(queue)
    BY <2>3 DEF IInv, Ahead
  <2> QED
    BY <1>7, <2>1, <2>2, <2>3
<1>14. Sequence'
  <2>1. \A x \in Proxies : x \in Range(queue') <=> x \in Range(queue)
    BY <1>4, <1>7, Numbers
  <2> QED
    BY <1>2, <2>1, SequenceSame
<1> QED
  BY <1>1, <1>2, <1>8, <1>9, <1>10, <1>12, <1>13, <1>14, ColoursAdded, EndsSame DEF IInv

\* A packet command goes to the head of the queue.
LEMMA InsertFrontInv ==
    ASSUME IInv, NEW r \in Requests, r = submitted + 1, InsertFront(r)
    PROVE  IInv'
<1>1. kind[r] = "pc" /\ queue' = <<r>> \o queue /\ sched' = sched /\ __elv_add_request(r)
  BY DEF InsertFront
<1>2. UNCHANGED <<kind, flight, overtaken, next_ordered, ordered, ordseq, orig, orderr, result, failed, requeues>>
  BY <1>1, NewRequest
<1>3. ~NonPc(r) /\ r \notin Barriers /\ ~IsBarrier(r) /\ r \notin Proxies
  BY <1>1, KindFacts, Numbers DEF NonPc
<1>4. /\ queue' \in Seq(All) /\ Range(queue') = Range(queue) \cup {r}
      /\ \A x, y : Prec(queue', x, y) => Prec(queue, x, y) \/ (x = r /\ y \in Range(queue))
  <2>1. queue \in Seq(All) /\ r \in All
    BY DEF IInv, Types, All
  <2> QED
    BY <1>1, <2>1, FrontOrder
<1>5. Types'
  BY <1>1, <1>2, <1>4, NewRequest DEF IInv, Types
<1>6. Places'
  <2> SUFFICES ASSUME NEW x \in Requests
               PROVE  /\ x > r \/ x \in sched \/ x \in Range(queue') \/ x \in Range(flight)
                            \/ InSequence(x) \/ Ended(x)
                      /\ ~(x > r /\ (x \in sched \/ x \in Range(queue') \/ x \in Range(flight)
                                          \/ InSequence(x) \/ Ended(x)))
                      /\ ~(x \in sched /\ (x \in Range(queue') \/ x \in Range(flight) \/ InSequence(x) \/ Ended(x)))
                      /\ ~(x \in Range(queue') /\ (x \in Range(flight) \/ InSequence(x) \/ Ended(x)))
                      /\ ~(x \in Range(flight) /\ (InSequence(x) \/ Ended(x)))
                      /\ ~(InSequence(x) /\ Ended(x))
    BY <1>1, <1>2, NewRequest DEF Places
  <2>1. CASE x = r
    BY <1>1, <1>4, <2>1, NewRequest
  <2>2. CASE x # r
    <3>1. (x > r <=> x > submitted) /\ (x \in Range(queue') <=> x \in Range(queue))
      BY <1>1, <1>4, <2>2, NewRequest
    <3> QED
      BY <3>1 DEF IInv, Places
  <2> QED
    BY <2>1, <2>2
<1>7. KindsInPlace'
  <2>1. submitted' = r /\ Barriers' = Barriers /\ \A x : IsBarrier(x)' <=> IsBarrier(x)
    BY <1>1, <1>2, NewRequest, KindsSame
  <2>2. \A b \in Barriers : b <= r => b <= submitted
    <3>1. \A b \in Barriers : b \in Requests /\ b # r
      BY <1>3, KindFacts
    <3> QED
      BY <1>1, <3>1, NewRequest
  <2> QED
    BY <1>1, <1>2, <2>1, <2>2 DEF IInv, KindsInPlace
<1>8. Lists'
  <2>1. \A x, y : Behind(x, y) => Behind(x, y)'
    BY <1>2, BehindKept
  <2>2. \A x \in Range(queue) \cup Range(flight) : x # r /\ Behind(x, r) /\ Behind(r, x)
    <3>1. \A x \in Range(queue) \cup Range(flight) : x # r
      BY <1>1, NewRequest
    <3> QED
      BY <1>3, <3>1, PcAnywhere
  <2> QED
    BY <1>2, <1>4, <2>1, <2>2 DEF IInv, Lists
<1>9. Ahead'
  <2>1. Barriers' = Barriers /\ \A x : NonPc(x)' <=> NonPc(x)
    BY <1>2, KindsSame
  <2>2. \A x : (Reached(x) \/ InSequence(x))' <=> Reached(x) \/ InSequence(x)
    BY <1>1, NewRequest
  <2> QED
    BY <1>3, <1>4, <2>1, <2>2 DEF IInv, Ahead
<1>10. Sequence'
  <2>1. \A x \in Proxies : x \in Range(queue') <=> x \in Range(queue)
    BY <1>3, <1>4
  <2> QED
    BY <1>2, <2>1, SequenceSame
<1> QED
  BY <1>1, <1>2, <1>5, <1>6, <1>7, <1>8, <1>9, <1>10, ColoursAdded, EndsSame DEF IInv

-----------------------------------------------------------------------------
(* The head of the queue *)

\* The invariant holds at the start.
LEMMA InitInv ==
    ASSUME Init
    PROVE  IInv
<1>1. /\ kind \in [Requests -> Kinds] /\ submitted = 0 /\ color = [r \in Requests |-> FALSE]
      /\ ordcolor = FALSE /\ sched = {} /\ queue = << >> /\ flight = << >> /\ next_ordered \in Modes
      /\ ordseq = {} /\ orig = 0 /\ orderr = FALSE /\ result = [r \in Requests |-> "none"]
      /\ failed = {} /\ requeues = 0 /\ overtaken = {}
  BY DEF Init
<1>2. /\ Range(queue) = {} /\ Range(flight) = {} /\ queue \in Seq(All) /\ flight \in Seq(All)
      /\ \A x, y : ~Prec(queue, x, y) /\ ~Prec(flight, x, y)
  BY <1>1, ShortLists
<1>3. /\ \A x \in Requests : ~Ended(x) /\ x \in Nat /\ x > submitted /\ ~(x <= submitted)
      /\ \A x : ~InSequence(x)
  BY <1>1, Numbers DEF Ended, InSequence
<1>4. \A b \in Barriers : b \in Requests
  BY KindFacts
<1>5. Types
  <2>1. 0 \in 0 .. MaxRequests /\ 0 \in 0 .. MaxRequeues
    BY OrderedAssumption
  <2>2. color \in [Requests -> BOOLEAN] /\ result \in [Requests -> {"none", "ok", "error"}]
    BY <1>1
  <2>3. ordcolor \in BOOLEAN /\ orderr \in BOOLEAN
    BY <1>1
  <2>4. sched \subseteq Requests /\ ordseq \subseteq STARTED .. POSTFLUSH
    BY <1>1
  <2> QED
    BY <1>1, <1>2, <2>1, <2>2, <2>3, <2>4 DEF Types
<1>6. Places /\ KindsInPlace /\ Coloured
  BY <1>1, <1>2, <1>3, <1>4, Numbers DEF Places, KindsInPlace, Coloured
<1>7. SameColour
  BY <1>1, <1>3 DEF SameColour
<1>8. Lists /\ Ahead /\ EndedAfter
  BY <1>1, <1>2, <1>3, <1>4 DEF Lists, Ahead, EndedAfter
<1>9. Sequence /\ Errors
  BY <1>1, <1>2, <1>3, <1>4 DEF Sequence, Errors, ErrorReported
<1> QED
  BY <1>5, <1>6, <1>7, <1>8, <1>9 DEF IInv

\* The entry at the head of the queue is nowhere else.
LEMMA HeadFirst ==
    ASSUME IInv, queue # << >>
    PROVE  /\ Head(queue) \in All /\ Tail(queue) \in Seq(All)
           /\ Range(queue) = Range(Tail(queue)) \cup {Head(queue)}
           /\ Head(queue) \notin Range(Tail(queue)) /\ Head(queue) \notin Range(flight)
           /\ \A x, y : Prec(Tail(queue), x, y) => Prec(queue, x, y)
           /\ \A y \in Range(Tail(queue)) : Prec(queue, Head(queue), y) /\ Behind(Head(queue), y)
           /\ \A x : ~Prec(queue, x, Head(queue))
<1>1. queue \in Seq(All)
  BY DEF IInv, Types
<1> DEFINE h == Head(queue)
           t == Tail(queue)
<1>2. /\ h \in All /\ t \in Seq(All) /\ Range(queue) = Range(t) \cup {h}
      /\ \A x, y : Prec(queue, x, y) <=> Prec(t, x, y) \/ (x = h /\ y \in Range(t))
  BY <1>1, TailOrder
<1> HIDE DEF h, t
<1>3. \A y \in Range(t) : Prec(queue, h, y) /\ y \in All
  BY <1>2, ListFacts
<1>4. \A y \in Range(t) : Behind(h, y)
  BY <1>2, <1>3 DEF IInv, Lists
<1>5. h \notin Range(t)
  BY <1>4 DEF Behind
<1>6. h \notin Range(flight)
  BY <1>2 DEF IInv, Places, Sequence, All
<1>7. \A x : ~Prec(queue, x, h)
  BY <1>2, <1>5, ListFacts
<1> QED
  BY <1>2, <1>3, <1>4, <1>5, <1>6, <1>7 DEF h, t

\* The scheduler dispatches a request.
LEMMA DispatchInv ==
    ASSUME IInv, Dispatch
    PROVE  IInv'
<1>1. queue = << >> /\ UNCHANGED <<kind, submitted, color, ordcolor, flight, overtaken, next_ordered,
                                   ordered, ordseq, orig, orderr, result, failed, requeues>>
  BY DEF Dispatch
<1>2. PICK r \in sched : queue' = <<r>> /\ sched' = sched \ {r}
  BY DEF Dispatch
<1>3. r \in Requests /\ r \in All /\ kind[r] = "fs" /\ ~IsBarrier(r) /\ NonPc(r) /\ r \notin Proxies
  BY KindFacts, Numbers DEF IInv, Types, KindsInPlace, All
<1>4. /\ queue' \in Seq(All) /\ Range(queue') = {r} /\ \A x, y : ~Prec(queue', x, y)
      /\ Range(queue) = {}
  BY <1>1, <1>2, <1>3, ShortLists
<1>5. Types'
  BY <1>1, <1>2, <1>4 DEF IInv, Types
<1>6. /\ \A x : Ended(x)' <=> Ended(x)
      /\ \A x : InSequence(x)' <=> InSequence(x)
      /\ \A x : Reached(x)' <=> Reached(x)
  BY <1>1 DEF Ended, InSequence, Reached
<1>7. Places'
  <2> SUFFICES ASSUME NEW x \in Requests
               PROVE  /\ x > submitted \/ x \in sched' \/ x \in Range(queue') \/ x \in Range(flight)
                            \/ InSequence(x) \/ Ended(x)
                      /\ ~(x > submitted /\ (x \in sched' \/ x \in Range(queue') \/ x \in Range(flight)
                                          \/ InSequence(x) \/ Ended(x)))
                      /\ ~(x \in sched' /\ (x \in Range(queue') \/ x \in Range(flight) \/ InSequence(x) \/ Ended(x)))
                      /\ ~(x \in Range(queue') /\ (x \in Range(flight) \/ InSequence(x) \/ Ended(x)))
                      /\ ~(x \in Range(flight) /\ (InSequence(x) \/ Ended(x)))
                      /\ ~(InSequence(x) /\ Ended(x))
    BY <1>1, <1>6 DEF Places
  <2> QED
    BY <1>2, <1>4 DEF IInv, Places
<1>8. KindsInPlace'
  BY <1>1, <1>2, KindsSame DEF IInv, KindsInPlace
<1>9. Lists'
  <2>1. \A x, y : Behind(x, y) => Behind(x, y)'
    BY <1>1, BehindKept
  <2>2. \A x \in Range(flight) : Behind(x, r)
    <3>1. \A x \in Range(flight) : x \in All /\ x # r
      BY <1>3, ListTypes DEF IInv, Places
    <3>2. \A x \in Range(flight) : x \in Requests => x <= submitted
      BY Numbers DEF IInv, Places, Types
    <3>3. \A b \in Barriers : b <= submitted => b < r
      BY DEF IInv, KindsInPlace
    <3> QED
      BY <1>3, <3>1, <3>2, <3>3, LastInLine
  <2> QED
    BY <1>1, <1>4, <2>1, <2>2 DEF IInv, Lists
<1>10. Ahead'
  <2>1. Barriers' = Barriers
    BY <1>1, KindsSame
  <2> QED
    BY <1>3, <1>4, <2>1, KindFacts DEF Ahead
<1>11. Sequence'
  <2>1. \A x \in Proxies : x \in Range(queue') <=> x \in Range(queue)
    BY <1>3, <1>4
  <2> QED
    BY <1>1, <2>1, SequenceSame
<1> QED
  BY <1>1, <1>5, <1>7, <1>8, <1>9, <1>10, <1>11, ColoursSame, EndsSame DEF IInv

\* A barrier at the head of a queue that cannot order ends.
LEMMA NotSupportedInv ==
    ASSUME IInv, NotSupported
    PROVE  IInv'
<1> DEFINE h == Head(queue)
           t == Tail(queue)
<1>1. /\ queue # << >> /\ ordseq = {} /\ IsBarrier(h) /\ next_ordered.by = "none"
      /\ queue' = t /\ result' = [result EXCEPT ![h] = "error"]
      /\ UNCHANGED <<kind, submitted, color, ordcolor, sched, flight, overtaken, next_ordered, ordered,
                     ordseq, orig, orderr, failed, requeues>>
  BY DEF NotSupported
<1>2. /\ h \in All /\ t \in Seq(All) /\ Range(queue) = Range(t) \cup {h}
      /\ h \notin Range(t) /\ h \notin Range(flight)
      /\ \A x, y : Prec(t, x, y) => Prec(queue, x, y)
      /\ \A y \in Range(t) : Behind(h, y)
  BY <1>1, HeadFirst
<1> HIDE DEF h, t
<1>3. h \in Requests /\ NonPc(h) /\ h \in Barriers /\ kind[h] # "fs" /\ h \notin Proxies
  BY <1>1, KindFacts, Numbers
<1>4. /\ \A x \in Requests : Ended(x)' <=> Ended(x) \/ x = h
      /\ \A x : ~InSequence(x)' /\ ~InSequence(x)
      /\ \A x \in Requests : Reached(x)' <=> Reached(x) \/ x = h
      /\ result'[h] = "error" /\ \A x \in Requests : x # h => result'[x] = result[x]
      /\ result' \in [Requests -> {"none", "ok", "error"}]
  BY <1>1, <1>3 DEF Ended, InSequence, Reached, IInv, Types
<1>5. Barriers' = Barriers /\ (\A x : NonPc(x)' <=> NonPc(x)) /\ \A x : IsBarrier(x)' <=> IsBarrier(x)
  BY <1>1, KindsSame
<1>6. Types'
  BY <1>1, <1>2, <1>4 DEF IInv, Types
<1>7. Places'
  <2> SUFFICES ASSUME NEW x \in Requests
               PROVE  /\ x > submitted \/ x \in sched \/ x \in Range(t) \/ x \in Range(flight) \/ Ended(x) \/ x = h
                      /\ ~(x > submitted /\ (x \in sched \/ x \in Range(t) \/ x \in Range(flight) \/ Ended(x) \/ x = h))
                      /\ ~(x \in sched /\ (x \in Range(t) \/ x \in Range(flight) \/ Ended(x) \/ x = h))
                      /\ ~(x \in Range(t) /\ (x \in Range(flight) \/ Ended(x) \/ x = h))
                      /\ ~(x \in Range(flight) /\ (Ended(x) \/ x = h))
    BY <1>1, <1>4 DEF Places
  <2> QED
    BY <1>2, <1>4 DEF IInv, Places
<1>8. KindsInPlace'
  BY <1>1, <1>5 DEF IInv, KindsInPlace
<1>9. Lists'
  <2>1. \A x, y : Behind(x, y) => Behind(x, y)'
    BY <1>1, BehindKept
  <2> QED
    BY <1>1, <1>2, <2>1 DEF IInv, Lists
<1>10. Ahead'
  <2> SUFFICES ASSUME NEW b \in Barriers, b \in Range(t), NEW x \in Requests, NonPc(x), Reached(x) \/ x = h
               PROVE  x < b
    BY <1>1, <1>4, <1>5 DEF Ahead
  <2>1. CASE x = h
    BY <1>1, <1>2, <1>3, <2>1, KindFacts DEF Behind
  <2>2. CASE Reached(x)
    BY <1>2, <2>2 DEF IInv, Ahead
  <2> QED
    BY <2>1, <2>2
<1>11. EndedAfter'
  BY <1>1 DEF EndedAfter
<1>12. Sequence'
  BY <1>1, <1>2 DEF IInv, Sequence
<1>13. Errors'
  <2>1. failed \subseteq Requests /\ \A b \in failed : Ended(b)
    BY <1>4 DEF IInv, Errors
  <2>2. ErrorReported'
    BY <1>1, <1>3, <1>4, <1>5, KindFacts DEF ErrorReported, IInv, Errors
  <2> QED
    BY <1>1, <1>4, <2>1, <2>2 DEF Errors
<1> QED
  BY <1>1, <1>6, <1>7, <1>8, <1>9, <1>10, <1>11, <1>12, <1>13, ColoursSame DEF IInv

\* A request that the sequence lets go by draining was submitted before the
\* barrier.
LEMMA LetGoByDraining ==
    ASSUME IInv, queue # << >>, ordseq # {}, ordered.by # "tag", NonPc(Head(queue)),
           blk_do_ordered(Head(queue))
    PROVE  Head(queue) < orig /\ ~IsBarrier(Head(queue))
<1> DEFINE h == Head(queue)
<1>1. h \in Range(queue) /\ (\A x : ~Prec(queue, x, h)) /\ h \in Requests /\ kind[h] # "pc"
  BY HeadFirst, KindFacts DEF NonPc
<1>2. blk_ordered_req_seq(h) <= blk_ordered_cur_seq(ordseq)
  BY <1>1 DEF blk_do_ordered
<1> HIDE DEF h
<1>3. IsBarrier(orig) /\ InSequence(orig) /\ orig \in Requests /\ NonPc(orig)
  BY KindFacts DEF IInv, Sequence, InSequence
<1>4. h # orig /\ h \in Int /\ orig \in Int
  BY <1>1, <1>3, Numbers DEF IInv, Places
<1>5. blk_ordered_cur_seq(ordseq) \in 0 .. 4
  <2>1. ordseq \in SUBSET (0 .. 4) /\ ordseq # 0 .. 4
    BY Stages DEF IInv, Types, Sequence
  <2> QED
    BY <2>1, CurSeq, Stages
<1>6. color[h] = color[orig]
  <2>1. blk_ordered_req_seq(h) # 5
    BY <1>2, <1>5
  <2> QED
    BY <1>1, <2>1, ReqSeq
<1>7. ~(orig < h)
  BY <1>1, <1>6, ColourInQueue DEF NonPc
<1>8. h < orig
  BY <1>4, <1>7
<1>9. ~IsBarrier(h)
  <2>1. IsBarrier(h) => orig < h
    BY <1>1, <1>3, KindFacts DEF IInv, Ahead
  <2> QED
    BY <1>7, <2>1
<1> QED
  BY <1>8, <1>9 DEF h

\* The driver takes the head of the queue.
LEMMA FetchInv ==
    ASSUME IInv, blk_fetch_request
    PROVE  IInv'
<1> DEFINE h == Head(queue)
           t == Tail(queue)
<1>1. /\ queue # << >> /\ queue' = t /\ flight' = Append(flight, h) /\ blk_do_ordered(h)
      /\ UNCHANGED <<kind, submitted, color, ordcolor, sched, overtaken, next_ordered, ordered,
                     ordseq, orig, orderr, result, failed, requeues>>
  BY DEF blk_fetch_request
<1>2. /\ h \in All /\ t \in Seq(All) /\ Range(queue) = Range(t) \cup {h}
      /\ h \notin Range(t) /\ h \notin Range(flight)
      /\ \A x, y : Prec(t, x, y) => Prec(queue, x, y)
      /\ \A y \in Range(t) : Behind(h, y)
  BY <1>1, HeadFirst
<1>3. ordseq # {} /\ ordered.by # "tag" /\ NonPc(h) => h < orig /\ ~IsBarrier(h)
  BY <1>1, LetGoByDraining
<1> HIDE DEF h, t
<1>4. /\ flight' \in Seq(All) /\ Range(flight') = Range(flight) \cup {h}
      /\ \A x, y : Prec(flight', x, y) => Prec(flight, x, y) \/ (x \in Range(flight) /\ y = h)
  BY <1>1, <1>2, AppendOrder DEF IInv, Types
<1>5. ~IsBarrier(h)
  <2>1. CASE ordseq = {}
    BY <1>1, <2>1 DEF blk_do_ordered
  <2>2. CASE ordseq # {} /\ ordered.by = "tag"
    BY <1>1, <2>2, KindFacts DEF blk_do_ordered, NonPc
  <2>3. CASE ordseq # {} /\ ordered.by # "tag"
    BY <1>3, <2>3, KindFacts
  <2> QED
    BY <2>1, <2>2, <2>3
<1>6. /\ \A x : Ended(x)' <=> Ended(x)
      /\ \A x : InSequence(x)' <=> InSequence(x)
      /\ \A x : Reached(x)' <=> Reached(x) \/ x = h
  BY <1>1, <1>4 DEF Ended, InSequence, Reached
<1>7. /\ Barriers' = Barriers /\ (\A x : NonPc(x)' <=> NonPc(x)) /\ \A x : IsBarrier(x)' <=> IsBarrier(x)
      /\ \A b : OrderedFor(b)' = OrderedFor(b)
  BY <1>1, KindsSame DEF OrderedFor
<1>8. Types'
  BY <1>1, <1>2, <1>4 DEF IInv, Types
<1>9. Places'
  <2> SUFFICES ASSUME NEW x \in Requests
               PROVE  /\ x > submitted \/ x \in sched \/ x \in Range(t) \/ x \in Range(flight')
                            \/ InSequence(x) \/ Ended(x)
                      /\ ~(x > submitted /\ (x \in sched \/ x \in Range(t) \/ x \in Range(flight')
                                          \/ InSequence(x) \/ Ended(x)))
                      /\ ~(x \in sched /\ (x \in Range(t) \/ x \in Range(flight') \/ InSequence(x) \/ Ended(x)))
                      /\ ~(x \in Range(t) /\ (x \in Range(flight') \/ InSequence(x) \/ Ended(x)))
                      /\ ~(x \in Range(flight') /\ (InSequence(x) \/ Ended(x)))
                      /\ ~(InSequence(x) /\ Ended(x))
    BY <1>1, <1>6 DEF Places
  <2> QED
    BY <1>2, <1>4 DEF IInv, Places
<1>10. KindsInPlace'
  BY <1>1, <1>4, <1>5, <1>7 DEF IInv, KindsInPlace
<1>11. Lists'
  <2>1. \A x, y : Behind(x, y) => Behind(x, y)'
    BY <1>1, BehindKept
  <2>2. \A x \in Range(flight'), y \in Range(t) : ordseq # {} => Behind(x, y)
    BY <1>2, <1>4 DEF IInv, Lists
  <2>3. \A x, y \in All : Prec(flight', x, y) => x # y
    BY <1>2, <1>4 DEF IInv, Lists
  <2>4. ordseq # {} /\ ordered.by = "tag" => \A x, y \in All : Prec(flight', x, y) => Behind(x, y)
    BY <1>2, <1>4 DEF IInv, Lists
  <2> QED
    BY <1>1, <1>2, <2>1, <2>2, <2>3, <2>4 DEF IInv, Lists
<1>12. Ahead'
  <2> SUFFICES ASSUME NEW b \in Barriers, b \in Range(t), NEW x \in Requests, NonPc(x),
                      Reached(x) \/ x = h \/ InSequence(x)
               PROVE  x < b
    BY <1>1, <1>6, <1>7 DEF Ahead
  <2>1. CASE x = h
    BY <1>2, <2>1, KindFacts DEF Behind
  <2>2. CASE x # h
    BY <1>2, <2>2 DEF IInv, Ahead
  <2> QED
    BY <2>1, <2>2
<1>13. Sequence'
  <2>1. \A x \in Proxies :
          /\ ~(x \in Range(t) /\ x \in Range(flight'))
          /\ x \in Range(t) \cup Range(flight') <=> ordseq # {} /\ x + 5 \notin ordseq
    BY <1>2, <1>4 DEF IInv, Sequence
  <2>2. ASSUME ordseq # {}, ordered.by # "tag"
        PROVE  /\ \A x \in Range(flight') : NonPc(x) => x < orig
               /\ \A x \in Proxies \cap Range(flight') : 0 .. x + 4 \subseteq ordseq
    <3>1. \A x \in Range(flight') : NonPc(x) => x < orig
      BY <1>3, <1>4, <2>2 DEF IInv, Sequence
    <3>2. ASSUME h \in Proxies PROVE 0 .. h + 4 \subseteq ordseq
      <4>1. h \notin Requests /\ ~IsBarrier(h) /\ h \in Int
        BY <3>2, Numbers DEF IsBarrier
      <4>2. h + 5 <= blk_ordered_cur_seq(ordseq)
        BY <1>1, <2>2, <3>2, <4>1, ReqSeq DEF blk_do_ordered
      <4>3. ordseq \in SUBSET (0 .. 4)
        BY Stages DEF IInv, Types
      <4>4. blk_ordered_cur_seq(ordseq) \in 0 .. 5 /\ 0 .. blk_ordered_cur_seq(ordseq) - 1 \subseteq ordseq
        BY <2>2, <4>3, CurSeq
      <4> QED
        BY <4>1, <4>2, <4>4
    <3> QED
      BY <1>4, <2>2, <3>1, <3>2 DEF IInv, Sequence
  <2>3. ordseq # {} => Passed'
    <3> SUFFICES ASSUME ordseq # {}, NEW y \in Requests, NonPc(y), Ended(y), orig < y, NEW p \in Proxies
                 PROVE  p \notin Range(t) /\ (p \in Range(flight') => p \in overtaken)
      BY <1>1, <1>6, <1>7 DEF Passed
    <3>1. p \notin Range(queue) /\ (p \in Range(flight) => p \in overtaken)
      BY DEF IInv, Sequence, Passed
    <3> QED
      BY <1>2, <1>4, <3>1
  <2> QED
    BY <1>1, <1>6, <1>7, <2>1, <2>2, <2>3 DEF IInv, Sequence
<1>14. \A x \in Range(flight) \cap overtaken : x \in Range(flight') /\ x \in overtaken'
  BY <1>1, <1>4
<1> QED
  BY <1>1, <1>8, <1>9, <1>10, <1>11, <1>12, <1>13, <1>14, ColoursSame, EndsSame DEF IInv

-----------------------------------------------------------------------------
(* A sequence starts *)

\* The parts of a barrier are those whose stages are not skipped, in order.
LEMMA PartsFacts ==
    ASSUME NEW o, o.pre \in BOOLEAN, o.bar \in BOOLEAN, o.post \in BOOLEAN
    PROVE  /\ Parts(o) \in Seq(All)
           /\ Range(Parts(o)) = {x \in Proxies : x + 5 \notin Skipped(o)}
           /\ \A x, y : Prec(Parts(o), x, y) => x \in Proxies /\ y \in Proxies /\ x < y
           /\ Skipped(o) \subseteq 1 .. 4
           /\ {STARTED} \cup Skipped(o) = 0 .. 4 => ~o.pre /\ ~o.bar /\ Range(Parts(o)) = {}
           /\ DRAIN \in Skipped(o) <=> ~(o.by = "drain" /\ queue_in_flight # {})
<1> DEFINE p1 == IF o.pre THEN <<pre_flush_rq>> ELSE << >>
           p2 == IF o.bar THEN <<bar_rq>> ELSE << >>
           p3 == IF o.post THEN <<post_flush_rq>> ELSE << >>
<1>1. pre_flush_rq = -3 /\ bar_rq = -2 /\ post_flush_rq = -1
  BY DEF pre_flush_rq, bar_rq, post_flush_rq
<1>2. -3 \in All /\ -2 \in All /\ -1 \in All
  BY Numbers DEF All
<1>3. p1 \in Seq(All) /\ Range(p1) = (IF o.pre THEN {-3} ELSE {}) /\ \A x, y : ~Prec(p1, x, y)
  BY <1>1, <1>2, ShortLists
<1>4. p2 \in Seq(All) /\ Range(p2) = (IF o.bar THEN {-2} ELSE {}) /\ \A x, y : ~Prec(p2, x, y)
  BY <1>1, <1>2, ShortLists
<1>5. p3 \in Seq(All) /\ Range(p3) = (IF o.post THEN {-1} ELSE {}) /\ \A x, y : ~Prec(p3, x, y)
  BY <1>1, <1>2, ShortLists
<1>6. Parts(o) = p1 \o p2 \o p3
  BY DEF Parts
<1> HIDE DEF p1, p2, p3
<1> DEFINE p12 == p1 \o p2
<1>7. /\ p12 \in Seq(All) /\ Range(p12) = Range(p1) \cup Range(p2)
      /\ \A x, y : Prec(p12, x, y) <=>
            Prec(p1, x, y) \/ Prec(p2, x, y) \/ (x \in Range(p1) /\ y \in Range(p2))
  BY <1>3, <1>4, ConcatOrder
<1>8. Parts(o) = p12 \o p3
  BY <1>6
<1> HIDE DEF p12
<1>9. /\ Parts(o) \in Seq(All) /\ Range(Parts(o)) = Range(p12) \cup Range(p3)
      /\ \A x, y : Prec(Parts(o), x, y) <=>
            Prec(p12, x, y) \/ Prec(p3, x, y) \/ (x \in Range(p12) /\ y \in Range(p3))
  BY <1>5, <1>7, <1>8, ConcatOrder
<1>10. Range(Parts(o)) = (IF o.pre THEN {-3} ELSE {}) \cup (IF o.bar THEN {-2} ELSE {})
                            \cup (IF o.post THEN {-1} ELSE {})
  BY <1>3, <1>4, <1>5, <1>7, <1>9
<1>11. ASSUME NEW x, NEW y, Prec(Parts(o), x, y) PROVE x \in Proxies /\ y \in Proxies /\ x < y
  <2>1. \/ x = -3 /\ y = -2
        \/ x \in {-3, -2} /\ y = -1
    BY <1>3, <1>4, <1>5, <1>7, <1>9, <1>11
  <2> QED
    BY <2>1, Numbers
<1>12. /\ Skipped(o) \subseteq 1 .. 4
       /\ 1 \in Skipped(o) <=> ~(o.by = "drain" /\ queue_in_flight # {})
       /\ 2 \in Skipped(o) <=> ~o.pre
       /\ 3 \in Skipped(o) <=> ~o.bar
       /\ 4 \in Skipped(o) <=> ~o.post
  BY Stages DEF Skipped
<1>13. Range(Parts(o)) = {x \in Proxies : x + 5 \notin Skipped(o)}
  <2>1. -3 + 5 = 2 /\ -2 + 5 = 3 /\ -1 + 5 = 4
    OBVIOUS
  <2>2. \A x \in Proxies : x = -3 \/ x = -2 \/ x = -1
    BY Numbers
  <2>3. \A x \in Proxies : x \in Range(Parts(o)) <=> x + 5 \notin Skipped(o)
    BY <1>10, <1>12, <2>1, <2>2
  <2>4. Range(Parts(o)) \subseteq Proxies
    BY <1>10, Numbers
  <2> QED
    BY <2>3, <2>4
<1>14. {STARTED} \cup Skipped(o) = 0 .. 4 => ~o.pre /\ ~o.bar /\ Range(Parts(o)) = {}
  <2>1. {0} \cup Skipped(o) = 0 .. 4 => 2 \in Skipped(o) /\ 3 \in Skipped(o) /\ 4 \in Skipped(o)
    <3> SUFFICES ASSUME {0} \cup Skipped(o) = 0 .. 4
                 PROVE  2 \in Skipped(o) /\ 3 \in Skipped(o) /\ 4 \in Skipped(o)
      OBVIOUS
    <3>1. 2 \in 0 .. 4 /\ 3 \in 0 .. 4 /\ 4 \in 0 .. 4
      OBVIOUS
    <3> QED
      BY <3>1
  <2> QED
    BY <1>10, <1>12, <2>1, Stages
<1> QED
  BY <1>9, <1>11, <1>12, <1>13, <1>14, Stages

\* blk_ordered_complete_seq in terms of sets.
LEMMA CompleteSeq ==
    ASSUME NEW b, NEW seq \in SUBSET (0 .. 4), seq # {}, NEW s \in SUBSET (0 .. 4), NEW err \in BOOLEAN,
           NEW before \in BOOLEAN, NEW done, blk_ordered_complete_seq(b, seq, s, err, before, done)
    PROVE  /\ orderr' = (before \/ err)
           /\ seq \cup s = 0 .. 4 =>
                 /\ ordseq' = {}
                 /\ result' = [done EXCEPT ![b] = IF before \/ err THEN "error" ELSE "ok"]
           /\ seq \cup s # 0 .. 4 => ordseq' = seq \cup s /\ result' = done
<1> DEFINE u == seq \cup s
<1>1. u \in SUBSET (0 .. 4) /\ u # {}
  OBVIOUS
<1>2. blk_ordered_cur_seq(u) = DONE <=> u = 0 .. 4
  <2> HIDE DEF u
  <2> QED
    BY <1>1, CurSeq
<1> QED
  BY <1>2 DEF blk_ordered_complete_seq

\* When nothing that barriers order is with the driver, all that was
\* submitted before a barrier at the head of the queue has ended.
LEMMA NothingBefore ==
    ASSUME IInv, queue # << >>, ordseq = {}, IsBarrier(Head(queue)), queue_in_flight = {}
    PROVE  \A x \in Requests : NonPc(x) /\ x < Head(queue) => Ended(x)
<1> DEFINE b == Head(queue)
           t == Tail(queue)
<1>1. /\ b \in Range(queue) /\ Range(queue) = Range(t) \cup {b} /\ b \in Requests /\ b \in Int
      /\ NonPc(b) /\ b \in Barriers
      /\ \A y \in Range(t) : Behind(b, y)
  BY HeadFirst, KindFacts, Numbers
<1> HIDE DEF b, t
<1> SUFFICES ASSUME NEW x \in Requests, NonPc(x), x < b PROVE Ended(x)
  BY DEF b
<1>2. x \in Int /\ ~(b < x) /\ x # b /\ submitted \in Int /\ b <= submitted
  BY <1>1, Numbers DEF IInv, Types, Places
<1>3. ~(x > submitted)
  BY <1>1, <1>2
<1>4. x \notin sched
  BY <1>1, <1>2 DEF IInv, KindsInPlace
<1>5. x \notin Range(queue)
  <2>1. x \in Range(t) => b < x
    BY <1>1, KindFacts DEF Behind
  <2> QED
    BY <1>1, <1>2, <2>1
<1>6. x \notin Range(flight)
  BY KindFacts DEF queue_in_flight
<1> QED
  BY <1>3, <1>4, <1>5, <1>6 DEF IInv, Places, InSequence

\* The barrier at the head of the queue starts its sequence.
LEMMA StartInv ==
    ASSUME IInv, start_ordered
    PROVE  IInv'
<1> DEFINE b == Head(queue)
           t == Tail(queue)
           o == OrderedFor(b)
           S == {STARTED} \cup Skipped(o)
<1>1. /\ queue # << >> /\ ordseq = {} /\ IsBarrier(b) /\ next_ordered.by # "none"
      /\ ordered' = o /\ orig' = b /\ queue' = Parts(o) \o t
      /\ blk_ordered_complete_seq(b, {STARTED}, Skipped(o), FALSE, FALSE, result)
      /\ UNCHANGED <<kind, submitted, color, ordcolor, sched, flight, overtaken, next_ordered,
                     failed, requeues>>
  BY DEF start_ordered
<1>2. /\ b \in All /\ t \in Seq(All) /\ Range(queue) = Range(t) \cup {b}
      /\ b \notin Range(t) /\ b \notin Range(flight)
      /\ \A x, y : Prec(t, x, y) => Prec(queue, x, y)
      /\ \A y \in Range(t) : Behind(b, y)
  BY <1>1, HeadFirst
<1>3. queue_in_flight = {} => \A x \in Requests : NonPc(x) /\ x < b => Ended(x)
  BY <1>1, NothingBefore
<1>4. /\ o.by \in {"drain", "tag"} /\ o.pre \in BOOLEAN /\ o.bar \in BOOLEAN /\ o.post \in BOOLEAN
      /\ o.by = "tag" => o.pre \/ o.bar
  BY <1>1, ModeFacts DEF IInv, Types
<1>5. OrderedFor(orig)' = o /\ IsBarrier(orig)'
  BY <1>1 DEF OrderedFor, IsBarrier
<1> HIDE DEF b, t, o
<1>6. /\ Parts(o) \in Seq(All)
      /\ Range(Parts(o)) = {x \in Proxies : x + 5 \notin Skipped(o)}
      /\ \A x, y : Prec(Parts(o), x, y) => x \in Proxies /\ y \in Proxies /\ x < y
      /\ Skipped(o) \subseteq 1 .. 4
      /\ {STARTED} \cup Skipped(o) = 0 .. 4 => ~o.pre /\ ~o.bar /\ Range(Parts(o)) = {}
      /\ DRAIN \in Skipped(o) <=> ~(o.by = "drain" /\ queue_in_flight # {})
  BY <1>4, PartsFacts
<1>7. /\ queue' \in Seq(All) /\ Range(queue') = Range(Parts(o)) \cup Range(t)
      /\ \A x, y : Prec(queue', x, y) =>
            Prec(Parts(o), x, y) \/ Prec(t, x, y) \/ (x \in Range(Parts(o)) /\ y \in Range(t))
  BY <1>1, <1>2, <1>6, ConcatOrder
<1>8. /\ b \in Requests /\ NonPc(b) /\ b \in Barriers /\ kind[b] # "fs" /\ b \notin Proxies /\ b \in Int
      /\ b \in 0 .. MaxRequests /\ b \in Range(queue)
  BY <1>1, <1>2, KindFacts, Numbers
<1>9. S \in SUBSET (0 .. 4) /\ S # {} /\ 0 \in S
  BY <1>6, Stages
<1>10. /\ orderr' = FALSE
       /\ S = 0 .. 4 => ordseq' = {} /\ result' = [result EXCEPT ![b] = "ok"]
       /\ S # 0 .. 4 => ordseq' = S /\ result' = result
  <2>1. {STARTED} \in SUBSET (0 .. 4) /\ Skipped(o) \in SUBSET (0 .. 4) /\ {STARTED} # {}
    BY <1>6, Stages
  <2>2. /\ orderr' = (FALSE \/ FALSE)
        /\ S = 0 .. 4 => ordseq' = {} /\ result' = [result EXCEPT ![b] = IF FALSE \/ FALSE THEN "error" ELSE "ok"]
        /\ S # 0 .. 4 => ordseq' = S /\ result' = result
    BY <1>1, <2>1, CompleteSeq
  <2> QED
    BY <2>2
<1>11. S = 0 .. 4 => o.by # "tag" /\ Range(Parts(o)) = {} /\ DRAIN \in S
  BY <1>4, <1>6, Stages
<1>12. DRAIN \in S /\ o.by # "tag" => \A x \in Requests : NonPc(x) /\ x < b => Ended(x)
  BY <1>3, <1>4, <1>6, Stages
<1> HIDE DEF S
<1>13. /\ \A x \in Requests : Ended(x)' <=> Ended(x) \/ (S = 0 .. 4 /\ x = b)
       /\ \A x : InSequence(x)' <=> S # 0 .. 4 /\ x = b
       /\ \A x : ~InSequence(x)
       /\ result' \in [Requests -> {"none", "ok", "error"}]
       /\ \A x \in Requests : x # b => result'[x] = result[x]
       /\ S = 0 .. 4 => result'[b] = "ok"
       /\ \A x \in Requests : Reached(x)' <=> Reached(x) \/ (S = 0 .. 4 /\ x = b)
  <2>1. result \in [Requests -> {"none", "ok", "error"}]
    BY DEF IInv, Types
  <2>2. /\ \A x : InSequence(x)' <=> S # 0 .. 4 /\ x = b
        /\ \A x : ~InSequence(x)
    BY <1>1, <1>9, <1>10 DEF InSequence
  <2>3. CASE S = 0 .. 4
    BY <1>1, <1>8, <1>10, <2>1, <2>2, <2>3 DEF Ended, Reached
  <2>4. CASE S # 0 .. 4
    BY <1>1, <1>10, <2>1, <2>2, <2>4 DEF Ended, Reached
  <2> QED
    BY <2>3, <2>4
<1>14. Barriers' = Barriers /\ (\A x : NonPc(x)' <=> NonPc(x)) /\ \A x : IsBarrier(x)' <=> IsBarrier(x)
  BY <1>1, KindsSame
<1>15. Range(t) \cap Proxies = {} /\ Range(flight) \cap Proxies = {}
  BY <1>1, <1>2 DEF IInv, Sequence
<1>16. /\ \A x \in Range(flight) : NonPc(x) => x < b
       /\ \A x \in Requests : NonPc(x) /\ Ended(x) => x < b
  BY <1>8, KindFacts DEF IInv, Ahead, Reached
<1>17. \A y \in Range(t) : NonPc(y) => b < y /\ ~(y < b)
  <2>1. \A y \in Range(t) : NonPc(y) => b < y /\ y \in Int
    BY <1>1, <1>2, <1>8, KindFacts, Numbers DEF Behind
  <2> QED
    BY <1>8, <2>1
<1>18. Types'
  <2>1. ordseq' \subseteq STARTED .. POSTFLUSH
    BY <1>9, <1>10, Stages
  <2> QED
    BY <1>1, <1>7, <1>8, <1>10, <1>13, <2>1 DEF IInv, Types
<1>19. Places'
  <2> SUFFICES ASSUME NEW x \in Requests
               PROVE  /\ x > submitted \/ x \in sched \/ x \in Range(queue') \/ x \in Range(flight)
                            \/ InSequence(x)' \/ Ended(x)'
                      /\ ~(x > submitted /\ (x \in sched \/ x \in Range(queue') \/ x \in Range(flight)
                                          \/ InSequence(x)' \/ Ended(x)'))
                      /\ ~(x \in sched /\ (x \in Range(queue') \/ x \in Range(flight) \/ InSequence(x)' \/ Ended(x)'))
                      /\ ~(x \in Range(queue') /\ (x \in Range(flight) \/ InSequence(x)' \/ Ended(x)'))
                      /\ ~(x \in Range(flight) /\ (InSequence(x)' \/ Ended(x)'))
                      /\ ~(InSequence(x)' /\ Ended(x)')
    BY <1>1 DEF Places
  <2>1. x \in Range(queue') <=> x \in Range(t)
    BY <1>6, <1>7, Numbers
  <2> QED
    BY <1>2, <1>13, <2>1 DEF IInv, Places
<1>20. KindsInPlace'
  BY <1>1, <1>14 DEF IInv, KindsInPlace
<1>21. Lists'
  <2>1. \A x, y \in All : Prec(queue', x, y) => Behind(x, y)'
    <3> SUFFICES ASSUME NEW x \in All, NEW y \in All, Prec(queue', x, y) PROVE Behind(x, y)'
      OBVIOUS
    <3>1. x \in Int /\ y \in Int
      BY Numbers
    <3>2. CASE Prec(Parts(o), x, y)
      <4>1. x \in Proxies /\ y \in Proxies /\ x < y /\ ~NonPc(x) /\ ~NonPc(y)
        BY <1>6, <3>2, KindFacts, Numbers
      <4>2. x # y
        BY <3>1, <4>1
      <4> QED
        BY <1>14, <4>1, <4>2 DEF Behind
    <3>3. CASE Prec(t, x, y)
      <4>1. Behind(x, y) /\ x \in Range(t) /\ y \in Range(t)
        BY <1>2, <3>3, ListFacts DEF IInv, Lists
      <4>2. x \notin Proxies /\ y \notin Proxies
        BY <1>15, <4>1
      <4> QED
        BY <1>1, <1>14, <1>17, <4>1, <4>2 DEF Behind
    <3>4. CASE x \in Range(Parts(o)) /\ y \in Range(t)
      <4>1. x \in Proxies /\ y \notin Proxies /\ ~NonPc(x) /\ x # y
        BY <1>6, <1>15, <3>4, KindFacts, Numbers
      <4> QED
        BY <1>1, <1>14, <1>17, <3>4, <4>1 DEF Behind
    <3> QED
      BY <1>7, <3>2, <3>3, <3>4
  <2>2. ASSUME NEW x \in Range(flight), NEW y \in Range(queue') PROVE Behind(x, y)'
    <3>1. x \notin Proxies /\ ~IsBarrier(x)
      BY <1>15 DEF IInv, KindsInPlace
    <3>2. CASE y \in Proxies
      <4>1. x # y /\ ~NonPc(y)
        BY <3>1, <3>2, KindFacts, Numbers
      <4> QED
        BY <1>1, <1>14, <1>16, <3>1, <3>2, <4>1 DEF Behind
    <3>3. CASE y \notin Proxies
      <4>1. y \in Range(t)
        BY <1>6, <1>7, <3>3
      <4>2. y \in Requests /\ y \in Range(queue) /\ x # y
        <5>1. y \in Range(queue) /\ y \in All
          BY <1>2, <4>1, ListTypes DEF IInv
        <5> QED
          BY <3>3, <5>1 DEF IInv, Places, All
      <4>3. NonPc(x) /\ IsBarrier(y) => x < y
        BY <4>2, KindFacts DEF IInv, Ahead, Reached
      <4> QED
        BY <1>1, <1>14, <1>17, <3>1, <3>3, <4>1, <4>2, <4>3 DEF Behind
    <3> QED
      BY <3>2, <3>3
  <2>3. ASSUME NEW x \in All, NEW y \in All, Prec(flight, x, y) PROVE Behind(x, y)'
    <3>1. x \in Range(flight) /\ y \in Range(flight) /\ x # y
      BY <2>3, ListTypes DEF IInv, Lists
    <3>2. x \notin Proxies /\ y \notin Proxies /\ ~IsBarrier(x) /\ ~IsBarrier(y)
      BY <1>15, <3>1 DEF IInv, KindsInPlace
    <3> QED
      BY <1>1, <1>14, <1>16, <3>1, <3>2 DEF Behind
  <2>4. \A x, y \in All : Prec(flight, x, y) => x # y
    BY DEF IInv, Lists
  <2> QED
    BY <1>1, <2>1, <2>2, <2>3, <2>4 DEF Lists
<1>22. Ahead'
  <2> SUFFICES ASSUME NEW c \in Barriers, c \in Range(queue'), NEW x \in Requests, NonPc(x), Reached(x) \/ x = b
               PROVE  x < c
    BY <1>13, <1>14 DEF Ahead
  <2>1. c \in Range(t) /\ NonPc(c)
    BY <1>6, <1>7, KindFacts, Numbers
  <2>2. CASE x = b
    BY <1>17, <2>1, <2>2
  <2>3. CASE Reached(x)
    BY <1>2, <2>1, <2>3 DEF IInv, Ahead
  <2> QED
    BY <2>2, <2>3
<1>23. EndedAfter'
  <2> SUFFICES ASSUME NEW c \in Barriers, Ended(c)', NEW x \in Requests, NonPc(x), x < c PROVE Before(x)'
    BY <1>14 DEF EndedAfter
  <2>1. c \in Requests
    BY KindFacts
  <2>2. CASE Ended(c)
    BY <1>1, <1>13, <2>2 DEF IInv, EndedAfter, Before
  <2>3. CASE S = 0 .. 4 /\ c = b
    BY <1>11, <1>12, <1>13, <2>3 DEF Before
  <2> QED
    BY <1>13, <2>1, <2>2, <2>3
<1>24. Sequence'
  <2>1. CASE S = 0 .. 4
    <3>1. ordseq' = {} /\ Range(queue') = Range(t)
      BY <1>7, <1>10, <1>11, <2>1
    <3> QED
      BY <1>1, <1>15, <3>1 DEF Sequence
  <2>2. CASE S # 0 .. 4
    <3>1. ordseq' = S
      BY <1>10, <2>2
    <3>2. \A x \in Proxies : x + 5 \in S <=> x + 5 \in Skipped(o)
      BY Numbers, Stages DEF S
    <3>3. \A x \in Proxies :
            /\ ~(x \in Range(queue') /\ x \in Range(flight))
            /\ x \in Range(queue') \cup Range(flight) <=> x + 5 \notin S
      BY <1>6, <1>7, <1>15, <3>2
    <3>4. o.by = "tag" => DRAIN \in S
      BY <1>6 DEF S
    <3>5. STARTED \in S /\ S # STARTED .. POSTFLUSH /\ S # {}
      BY <1>9, <2>2, Stages
    <3>6. \A x \in Requests : Ended(x)' <=> Ended(x)
      BY <1>13, <2>2
    <3>7. \A x \in Proxies \cap Range(flight) : 0 .. x + 4 \subseteq S
      BY <1>15
    <3>8. \A x \in Requests : NonPc(x) /\ Ended(x)' => x < b /\ ~(b < x)
      BY <1>8, <1>16, <3>6, Numbers
    <3>9. Passed'
      BY <1>1, <1>14, <3>8 DEF Passed
    <3>10. \A c \in Barriers : Ended(c)' => c < b
      BY <3>8, KindFacts
    <3> QED
      BY <1>1, <1>5, <1>12, <1>14, <1>16, <3>1, <3>3, <3>4, <3>5, <3>6, <3>7, <3>9, <3>10 DEF Sequence
  <2> QED
    BY <2>1, <2>2
<1>25. Errors'
  <2>1. b \notin failed
    <3>1. b \in failed => Ended(b)
      BY <1>13 DEF IInv, Errors
    <3> QED
      BY <1>8, <3>1 DEF IInv, Places
  <2>2. failed \subseteq Requests /\ \A x \in failed : Ended(x)
    BY <1>13 DEF IInv, Errors
  <2>3. ErrorReported'
    <3> SUFFICES ASSUME NEW c \in Barriers, Ended(c)'
                 PROVE  result'[c] = "error" <=> c \in failed \/ next_ordered.by = "none"
      BY <1>1, <1>14 DEF ErrorReported
    <3>1. c \in Requests
      BY KindFacts
    <3>2. CASE c = b
      <4>1. S = 0 .. 4
        BY <1>8, <1>13, <3>2 DEF IInv, Places
      <4> QED
        BY <1>1, <1>13, <2>1, <3>2, <4>1
    <3>3. CASE c # b
      BY <1>13, <3>1, <3>3 DEF IInv, Errors, ErrorReported
    <3> QED
      BY <3>2, <3>3
  <2> QED
    BY <1>1, <1>10, <1>13, <2>1, <2>2, <2>3 DEF Errors
<1> QED
  BY <1>1, <1>18, <1>19, <1>20, <1>21, <1>22, <1>23, <1>24, <1>25, ColoursSame DEF IInv

-----------------------------------------------------------------------------
(* Requests and parts end *)

\* An entry leaves the driver.
LEMMA UnlinkedFacts ==
    ASSUME IInv, NEW e \in Range(flight)
    PROVE  /\ Unlinked(flight, e) \in Seq(All)
           /\ Range(Unlinked(flight, e)) = Range(flight) \ {e}
           /\ \A x, y : Prec(Unlinked(flight, e), x, y) => Prec(flight, x, y)
           /\ e \in All /\ ~IsBarrier(e)
<1>1. flight \in Seq(All)
  BY DEF IInv, Types
<1>2. Once(flight)
  BY ListTypes DEF Once, IInv, Lists
<1>3. \E k \in DOMAIN flight : flight[k] = e
  BY <1>1, ListFacts
<1> DEFINE i == CHOOSE k \in DOMAIN flight : flight[k] = e
<1>4. i \in DOMAIN flight /\ flight[i] = e
  BY <1>3
<1>5. i \in 1 .. Len(flight)
  BY <1>1, <1>4, ListFacts
<1>6. Unlinked(flight, e) = RemoveAt(flight, i)
  BY DEF Unlinked
<1> HIDE DEF i
<1>7. /\ RemoveAt(flight, i) \in Seq(All)
      /\ \A x, y : Prec(RemoveAt(flight, i), x, y) => Prec(flight, x, y)
      /\ Range(RemoveAt(flight, i)) = Range(flight) \ {flight[i]}
  BY <1>1, <1>2, <1>5, RemoveOrder
<1>8. e \in All /\ ~IsBarrier(e)
  BY ListTypes DEF IInv, KindsInPlace
<1> QED
  BY <1>4, <1>6, <1>7, <1>8

\* What has seen a later one end when entry e ends.
LEMMA OvertakenFacts ==
    ASSUME IInv, NEW e
    PROVE  \A x : x \in Overtaken(e) <=> x # e /\ (x \in overtaken \/ Prec(flight, x, e))
<1>1. DOMAIN flight = 1 .. Len(flight)
  BY ListTypes DEF IInv
<1>2. \A x : x \in {flight[i] : i \in {i \in DOMAIN flight : \E k \in DOMAIN flight :
                                            i < k /\ flight[k] = e}} <=> Prec(flight, x, e)
  BY <1>1 DEF Prec
<1> QED
  BY <1>2 DEF Overtaken

\* What holds of the places when an entry leaves the driver, and with it
\* possibly the sequence.
LEMMA LeavesDriver ==
    ASSUME IInv, NEW e \in Range(flight), flight' = Unlinked(flight, e), overtaken' = Overtaken(e),
           UNCHANGED <<kind, submitted, color, ordcolor, sched, queue, next_ordered, ordered, orig, requeues>>,
           orderr' \in BOOLEAN, result' \in [Requests -> {"none", "ok", "error"}],
           ordseq' \subseteq 0 .. 4, ordseq = {} => ordseq' = {},
           \A x \in Requests : Ended(x)' <=>
              Ended(x) \/ x = e \/ (ordseq # {} /\ ordseq' = {} /\ x = orig),
           ordseq # {} /\ ordseq' = {} => \A x \in Requests : NonPc(x) /\ x < orig => Before(x)'
    PROVE  /\ Types' /\ Places' /\ KindsInPlace' /\ Coloured' /\ SameColour'
           /\ Lists' /\ Ahead' /\ EndedAfter'
<1>1. /\ flight' \in Seq(All) /\ Range(flight') = Range(flight) \ {e}
      /\ \A x, y : Prec(flight', x, y) => Prec(flight, x, y)
      /\ e \in All /\ ~IsBarrier(e)
  BY UnlinkedFacts
<1>2. Barriers' = Barriers /\ (\A x : NonPc(x)' <=> NonPc(x)) /\ \A x : IsBarrier(x)' <=> IsBarrier(x)
  BY KindsSame
<1>3. \A x : InSequence(x)' <=> InSequence(x) /\ ordseq' # {}
  BY DEF InSequence
<1>4. \A x \in Requests : Reached(x)' => Reached(x) \/ InSequence(x)
  BY <1>1 DEF Reached, InSequence
<1>5. Types'
  <2>1. ordseq' \subseteq STARTED .. POSTFLUSH
    BY Stages
  <2>2. overtaken' \subseteq Range(flight')
    BY <1>1, OvertakenFacts, ListTypes DEF IInv, Types
  <2> QED
    BY <1>1, <2>1, <2>2 DEF IInv, Types
<1>6. Places'
  <2> SUFFICES ASSUME NEW x \in Requests
               PROVE  /\ x > submitted \/ x \in sched \/ x \in Range(queue) \/ x \in Range(flight')
                            \/ InSequence(x)' \/ Ended(x)'
                      /\ ~(x > submitted /\ (x \in sched \/ x \in Range(queue) \/ x \in Range(flight')
                                          \/ InSequence(x)' \/ Ended(x)'))
                      /\ ~(x \in sched /\ (x \in Range(queue) \/ x \in Range(flight') \/ InSequence(x)' \/ Ended(x)'))
                      /\ ~(x \in Range(queue) /\ (x \in Range(flight') \/ InSequence(x)' \/ Ended(x)'))
                      /\ ~(x \in Range(flight') /\ (InSequence(x)' \/ Ended(x)'))
                      /\ ~(InSequence(x)' /\ Ended(x)')
    BY DEF Places
  <2>1. x \in Range(flight') <=> x \in Range(flight) /\ x # e
    BY <1>1
  <2>2. InSequence(x) <=> ordseq # {} /\ x = orig
    BY DEF InSequence
  <2> QED
    BY <1>3, <2>1, <2>2 DEF IInv, Places
<1>7. KindsInPlace'
  BY <1>1, <1>2 DEF IInv, KindsInPlace
<1>8. Coloured' /\ SameColour'
  BY ColoursSame
<1>9. Lists'
  <2>1. \A x, y : Behind(x, y) => Behind(x, y)'
    BY BehindKept
  <2> QED
    BY <1>1, <2>1 DEF IInv, Lists
<1>10. Ahead'
  BY <1>2, <1>3, <1>4 DEF IInv, Ahead
<1>11. EndedAfter'
  <2> SUFFICES ASSUME next_ordered.by # "none", NEW c \in Barriers, Ended(c)', NEW x \in Requests, NonPc(x), x < c
               PROVE  Before(x)'
    BY <1>2 DEF EndedAfter
  <2>1. c \in Requests /\ c # e
    BY <1>1, KindFacts
  <2>2. Before(x) => Before(x)'
    BY <1>1, OvertakenFacts DEF Before
  <2> QED
    BY <2>1, <2>2 DEF IInv, EndedAfter
<1> QED
  BY <1>5, <1>6, <1>7, <1>8, <1>9, <1>10, <1>11

\* A file system request or barrier that waits in the queue and was submitted
\* before the running barrier has its colour.
LEMMA EarlierColour ==
    ASSUME IInv, ordseq # {}, NEW x \in Range(queue), NonPc(x), x < orig
    PROVE  color[x] = color[orig]
<1>1. /\ x \in Requests /\ orig \in Requests /\ InSequence(orig) /\ orig \in Int /\ x \in Int
      /\ submitted \in Int /\ orig \in Barriers /\ NonPc(orig)
  BY KindFacts, Numbers DEF IInv, Sequence, InSequence, Types
<1>2. orig <= submitted
  BY <1>1 DEF IInv, Places
<1>3. SUFFICES ASSUME NEW c \in Barriers, x <= c, c < orig PROVE FALSE
  BY <1>1, <1>2 DEF IInv, SameColour
<1>4. c \in Requests /\ NonPc(c) /\ IsBarrier(c) /\ kind[c] # "fs" /\ c \in Int
  BY KindFacts, Numbers
<1>5. ~(c > submitted) /\ c # orig /\ ~(orig < c) /\ (x < c \/ x = c)
  BY <1>1, <1>2, <1>3, <1>4
<1>6. c \notin Range(queue)
  BY <1>1, <1>5 DEF IInv, Ahead
<1>7. c \notin sched /\ c \notin Range(flight) /\ ~InSequence(c)
  BY <1>4, <1>5 DEF IInv, KindsInPlace, InSequence
<1>8. Ended(c)
  BY <1>4, <1>5, <1>6, <1>7 DEF IInv, Places
<1>9. Ended(x) \/ x \in Range(flight)
  BY <1>1, <1>5, <1>8 DEF IInv, EndedAfter, Before, Sequence
<1> QED
  BY <1>1, <1>9 DEF IInv, Places

\* When elv_completed_request finds the queue drained, all that was submitted
\* before the barrier has ended but the request that leaves.
LEMMA DrainedMeans ==
    ASSUME IInv, NEW r, Drained(r)
    PROVE  /\ ordseq # {} /\ DRAIN \notin ordseq /\ ordered.by # "tag"
           /\ \A x \in Requests : NonPc(x) /\ x < orig => x = r \/ Ended(x)
<1>1. /\ ordseq # {} /\ queue_in_flight \subseteq {r} /\ blk_ordered_cur_seq(ordseq) = 1
      /\ queue = << >> \/ blk_ordered_req_seq(Head(queue)) > 1
  BY Stages DEF Drained
<1>2. DRAIN \notin ordseq /\ ordered.by # "tag"
  <2>1. ordseq \in SUBSET (0 .. 4)
    BY Stages DEF IInv, Types
  <2>2. 1 \notin ordseq
    BY <1>1, <2>1, CurSeq
  <2> QED
    BY <1>1, <2>2, Stages DEF IInv, Sequence
<1>3. /\ orig \in Requests /\ InSequence(orig) /\ orig \in Int /\ submitted \in Int /\ orig \in Barriers
  BY <1>1, KindFacts, Numbers DEF IInv, Sequence, InSequence, Types
<1>4. orig <= submitted
  BY <1>3 DEF IInv, Places
<1>5. ASSUME NEW x \in Requests, NonPc(x), x < orig, x # r PROVE Ended(x)
  <2>1. x \in Int /\ ~(x > submitted) /\ x # orig /\ ~(orig < x)
    BY <1>3, <1>4, <1>5, Numbers
  <2>2. x \notin sched
    BY <1>3, <1>4, <2>1 DEF IInv, KindsInPlace
  <2>3. x \notin Range(flight)
    BY <1>1, <1>5, KindFacts DEF queue_in_flight
  <2>4. x \notin Range(queue)
    <3> SUFFICES ASSUME x \in Range(queue) PROVE FALSE
      OBVIOUS
    <3>1. queue # << >>
      BY ShortLists
    <3> DEFINE h == Head(queue)
    <3>2. /\ h \in All /\ h \in Range(queue) /\ (x = h \/ Behind(h, x)) /\ blk_ordered_req_seq(h) > 1
      BY <1>1, <3>1, HeadFirst
    <3> HIDE DEF h
    <3>3. h \notin Proxies
      BY <1>1, <1>5, <2>1, <3>2, Numbers DEF Behind
    <3>4. h \in Requests
      BY <3>2, <3>3 DEF All
    <3>5. NonPc(h) /\ color[h] # color[orig]
      BY <3>2, <3>4, ReqSeq DEF NonPc
    <3>6. h < orig
      BY <1>1, <1>5, <3>2, <3>5 DEF Behind
    <3> QED
      BY <1>1, <3>2, <3>5, <3>6, EarlierColour
  <2> QED
    BY <2>1, <2>2, <2>3, <2>4 DEF IInv, Places, InSequence
<1> QED
  BY <1>1, <1>2, <1>5

\* When a request that was submitted after the barrier ends, by tag, every
\* part of the barrier is ahead of it with the driver or has ended.
LEMMA EndsBehind ==
    ASSUME IInv, NEW r \in Range(flight), NonPc(r), ordseq # {}, orig < r
    PROVE  \A p \in Proxies : p \notin Range(queue) /\ (p \in Range(flight) => p \in Overtaken(r))
<1>1. ordered.by = "tag" /\ ~(r < orig)
  <2>1. orig \in Int /\ r \in Int
    BY KindFacts, Numbers DEF IInv, Sequence
  <2>2. ~(r < orig)
    BY <2>1
  <2> QED
    BY <2>2 DEF IInv, Sequence
<1> SUFFICES ASSUME NEW p \in Proxies
             PROVE  p \notin Range(queue) /\ (p \in Range(flight) => p \in Overtaken(r))
  OBVIOUS
<1>2. p \in All /\ r \in All /\ p # r
  BY KindFacts, Numbers DEF All
<1>3. p \notin Range(queue)
  BY <1>1 DEF IInv, Lists, Behind
<1>4. ASSUME p \in Range(flight) PROVE p \in Overtaken(r)
  <2>1. ~Prec(flight, r, p)
    BY <1>1, <1>2 DEF IInv, Lists, Behind
  <2>2. Prec(flight, p, r)
    BY <1>2, <1>4, <2>1, ListFacts DEF IInv, Types
  <2> QED
    BY <1>2, <2>2, OvertakenFacts
<1> QED
  BY <1>3, <1>4

\* A request ends.
LEMMA CompletedInv ==
    ASSUME IInv, NEW r \in Requests, elv_completed_request(r)
    PROVE  IInv'
<1> DEFINE ended == [result EXCEPT ![r] = "ok"]
<1>1. /\ r \in Range(flight) /\ flight' = Unlinked(flight, r) /\ overtaken' = Overtaken(r)
      /\ UNCHANGED <<kind, submitted, color, ordcolor, sched, queue, next_ordered, ordered, orig,
                     failed, requeues>>
      /\ Drained(r) => blk_ordered_complete_seq(orig, ordseq, {DRAIN}, FALSE, orderr, ended)
      /\ ~Drained(r) => result' = ended /\ UNCHANGED <<ordseq, orderr>>
  BY DEF elv_completed_request
<1>2. /\ Range(flight') = Range(flight) \ {r} /\ ~IsBarrier(r) /\ r \notin Proxies
  BY <1>1, UnlinkedFacts, Numbers
<1>3. /\ result \in [Requests -> {"none", "ok", "error"}] /\ orderr \in BOOLEAN /\ ordseq \in SUBSET (0 .. 4)
  BY Stages DEF IInv, Types
<1>4. /\ ended \in [Requests -> {"none", "ok", "error"}] /\ ended[r] = "ok"
      /\ \A x \in Requests : x # r => ended[x] = result[x]
  BY <1>3
<1> HIDE DEF ended
<1>5. Barriers' = Barriers /\ (\A x : NonPc(x)' <=> NonPc(x)) /\ (\A x : IsBarrier(x)' <=> IsBarrier(x))
      /\ \A b : OrderedFor(b)' = OrderedFor(b)
  BY <1>1, KindsSame DEF OrderedFor
<1>6. ordseq # {} /\ NonPc(r) /\ ordered.by # "tag" => r < orig
  BY <1>1 DEF IInv, Sequence
<1>7. ordseq # {} => orig \in Requests /\ orig \in Barriers /\ orig # r /\ IsBarrier(orig)
  BY <1>2, KindFacts DEF IInv, Sequence
<1>8. \A b \in Barriers : b \in Requests /\ b # r
  BY <1>2, KindFacts
<1> DEFINE over == Drained(r) /\ ordseq \cup {DRAIN} = 0 .. 4
<1>9. Drained(r) => ordseq # {} /\ DRAIN \notin ordseq /\ ordered.by # "tag"
                     /\ \A x \in Requests : NonPc(x) /\ x < orig => x = r \/ Ended(x)
  BY DrainedMeans
<1>10. Drained(r) =>
         /\ orderr' = (orderr \/ FALSE)
         /\ ordseq \cup {DRAIN} = 0 .. 4 =>
               ordseq' = {} /\ result' = [ended EXCEPT ![orig] = IF orderr \/ FALSE THEN "error" ELSE "ok"]
         /\ ordseq \cup {DRAIN} # 0 .. 4 => ordseq' = ordseq \cup {DRAIN} /\ result' = ended
  <2> SUFFICES ASSUME Drained(r)
               PROVE  /\ orderr' = (orderr \/ FALSE)
                      /\ ordseq \cup {DRAIN} = 0 .. 4 =>
                            /\ ordseq' = {}
                            /\ result' = [ended EXCEPT ![orig] = IF orderr \/ FALSE THEN "error" ELSE "ok"]
                      /\ ordseq \cup {DRAIN} # 0 .. 4 => ordseq' = ordseq \cup {DRAIN} /\ result' = ended
    OBVIOUS
  <2>1. {DRAIN} \in SUBSET (0 .. 4) /\ FALSE \in BOOLEAN
    BY Stages
  <2>2. blk_ordered_complete_seq(orig, ordseq, {DRAIN}, FALSE, orderr, ended) /\ ordseq # {}
    BY <1>1, <1>9
  <2> DEFINE u == ordseq \cup {DRAIN}
  <2>3. u \in SUBSET (0 .. 4) /\ u # {}
    BY <1>3, <2>1
  <2>4. blk_ordered_cur_seq(u) = DONE <=> u = 0 .. 4
    <3> HIDE DEF u
    <3> QED
      BY <2>3, CurSeq
  <2> QED
    BY <2>2, <2>4 DEF blk_ordered_complete_seq
<1>11. /\ orderr' \in BOOLEAN /\ (orderr' <=> orderr)
       /\ over => ordseq # {} /\ ordseq' = {}
                   /\ result' = [ended EXCEPT ![orig] = IF orderr THEN "error" ELSE "ok"]
       /\ ~over => result' = ended /\ ordseq \subseteq ordseq' /\ ordseq' \subseteq ordseq \cup {DRAIN}
                   /\ (~Drained(r) => ordseq' = ordseq)
                   /\ (ordseq = {} => ordseq' = {})
                   /\ (Drained(r) => ordseq' # 0 .. 4)
  <2>1. CASE Drained(r)
    <3>1. orderr' \in BOOLEAN /\ (orderr' <=> orderr) /\ (orderr \/ FALSE <=> orderr)
      BY <1>3, <1>10, <2>1
    <3>2. over => ordseq # {} /\ ordseq' = {}
                   /\ result' = [ended EXCEPT ![orig] = IF orderr THEN "error" ELSE "ok"]
      BY <1>9, <1>10, <2>1
    <3>3. ~over => ordseq' = ordseq \cup {DRAIN} /\ result' = ended /\ ordseq \cup {DRAIN} # 0 .. 4
      BY <1>10, <2>1
    <3> HIDE DEF over
    <3> QED
      BY <1>9, <2>1, <3>1, <3>2, <3>3
  <2>2. CASE ~Drained(r)
    <3>1. orderr' \in BOOLEAN /\ (orderr' <=> orderr)
      BY <1>1, <1>3, <2>2
    <3>2. ~over /\ result' = ended /\ ordseq' = ordseq
      BY <1>1, <2>2
    <3> HIDE DEF over
    <3> QED
      BY <2>2, <3>1, <3>2
  <2> QED
    BY <2>1, <2>2
<1>12. over => Drained(r) /\ ordseq \cup {DRAIN} = 0 .. 4
  OBVIOUS
<1> HIDE DEF over
<1>13. over <=> ordseq # {} /\ ordseq' = {}
  BY <1>11
<1>14. /\ result' \in [Requests -> {"none", "ok", "error"}]
       /\ \A x \in Requests : Ended(x)' <=> Ended(x) \/ x = r \/ (over /\ x = orig)
       /\ \A x \in Requests : x # r /\ ~(over /\ x = orig) => result'[x] = result[x]
       /\ over => result'[orig] = IF orderr THEN "error" ELSE "ok"
  <2>1. CASE over
    <3>1. result' = [ended EXCEPT ![orig] = IF orderr THEN "error" ELSE "ok"] /\ orig \in Requests /\ orig # r
      BY <1>7, <1>11, <2>1
    <3> QED
      BY <1>3, <1>4, <2>1, <3>1 DEF Ended
  <2>2. CASE ~over
    BY <1>3, <1>4, <1>11, <2>2 DEF Ended
  <2> QED
    BY <2>1, <2>2
<1>15. ordseq' \subseteq 0 .. 4
  <2>1. ordseq' \subseteq ordseq \cup {DRAIN} /\ DRAIN \in 0 .. 4
    BY <1>11, Stages
  <2> QED
    BY <1>3, <2>1
<1>16. over => \A x \in Requests : NonPc(x) /\ x < orig => Before(x)'
  BY <1>9, <1>12, <1>14 DEF Before
<1>17. /\ Types' /\ Places' /\ KindsInPlace' /\ Coloured' /\ SameColour'
       /\ Lists' /\ Ahead' /\ EndedAfter'
  <2>1. \A x \in Requests : Ended(x)' <=>
              Ended(x) \/ x = r \/ (ordseq # {} /\ ordseq' = {} /\ x = orig)
    BY <1>13, <1>14
  <2>2. ordseq # {} /\ ordseq' = {} => \A x \in Requests : NonPc(x) /\ x < orig => Before(x)'
    BY <1>13, <1>16
  <2>3. ordseq = {} => ordseq' = {}
    BY <1>11
  <2> QED
    BY <1>1, <1>11, <1>14, <1>15, <2>1, <2>2, <2>3, LeavesDriver
<1>18. Sequence'
  <2>1. \A x \in Proxies : x \in Range(flight') <=> x \in Range(flight)
    BY <1>2
  <2>2. \A x \in Proxies : x + 5 # DRAIN
    BY Numbers, Stages
  <2>3. \A x \in Proxies :
          /\ ~(x \in Range(queue') /\ x \in Range(flight'))
          /\ x \in Range(queue') \cup Range(flight') <=> ordseq' # {} /\ x + 5 \notin ordseq'
    <3>1. CASE over
      <4>1. \A x \in Proxies : x + 5 \in 0 .. 4
        BY Numbers
      <4>2. \A x \in Proxies : x + 5 \in ordseq
        BY <1>12, <2>2, <3>1, <4>1
      <4> QED
        BY <1>1, <1>11, <2>1, <3>1, <4>2 DEF IInv, Sequence
    <3>2. CASE ~over
      BY <1>1, <1>11, <2>1, <2>2, <3>2 DEF IInv, Sequence
    <3> QED
      BY <3>1, <3>2
  <2>4. ASSUME ordseq' # {}
        PROVE  /\ STARTED \in ordseq' /\ ordseq' # STARTED .. POSTFLUSH
               /\ IsBarrier(orig)
               /\ next_ordered.by # "none" /\ ordered = OrderedFor(orig)
               /\ ordered.by = "tag" => DRAIN \in ordseq'
               /\ \A b \in Barriers : Ended(b)' => b < orig
               /\ Passed'
               /\ ordered.by # "tag" =>
                     /\ \A x \in Requests : NonPc(x) /\ Ended(x)' => x < orig
                     /\ \A x \in Range(flight') : NonPc(x) => x < orig
                     /\ DRAIN \in ordseq' => \A x \in Requests : NonPc(x) /\ x < orig => Ended(x)'
                     /\ \A x \in Proxies \cap Range(flight') : 0 .. x + 4 \subseteq ordseq'
    <3>1. ~over /\ ordseq # {} /\ ordseq \subseteq ordseq'
      BY <1>11, <2>4
    <3>2. STARTED \in ordseq' /\ ordseq' # STARTED .. POSTFLUSH
      BY <1>11, <3>1, Stages DEF IInv, Sequence
    <3>3. ordered.by # "tag" => \A x \in Requests : NonPc(x) /\ Ended(x)' => x < orig
      BY <1>6, <1>14, <3>1 DEF IInv, Sequence
    <3>7. \A b \in Barriers : Ended(b)' => b < orig
      BY <1>8, <1>14, <3>1 DEF IInv, Sequence
    <3>8. Passed'
      <4> SUFFICES ASSUME NEW y \in Requests, NonPc(y), Ended(y)', orig < y, NEW p \in Proxies
                   PROVE  p \notin Range(queue) /\ (p \in Range(flight') => p \in Overtaken(r))
        BY <1>1, <1>5 DEF Passed
      <4>1. CASE y = r
        BY <1>1, <1>2, <3>1, <4>1, EndsBehind
      <4>2. CASE y # r
        <5>1. Ended(y)
          BY <1>14, <3>1, <4>2
        <5>2. p \notin Range(queue) /\ (p \in Range(flight) => p \in overtaken)
          BY <3>1, <5>1 DEF IInv, Sequence, Passed
        <5> QED
          BY <1>2, <5>2, OvertakenFacts
      <4> QED
        BY <4>1, <4>2
    <3>4. ASSUME ordered.by # "tag", DRAIN \in ordseq' PROVE \A x \in Requests : NonPc(x) /\ x < orig => Ended(x)'
      <4>1. CASE Drained(r)
        BY <1>9, <1>14, <4>1
      <4>2. CASE ~Drained(r)
        BY <1>11, <1>14, <3>1, <3>4, <4>2 DEF IInv, Sequence
      <4> QED
        BY <4>1, <4>2
    <3>5. IsBarrier(orig) /\ next_ordered.by # "none" /\ ordered = OrderedFor(orig)
            /\ (ordered.by = "tag" => DRAIN \in ordseq')
      BY <3>1 DEF IInv, Sequence
    <3>6. ordered.by # "tag" =>
                     /\ \A x \in Range(flight') : NonPc(x) => x < orig
                     /\ \A x \in Proxies \cap Range(flight') : 0 .. x + 4 \subseteq ordseq'
      BY <1>2, <3>1 DEF IInv, Sequence
    <3> QED
      BY <3>2, <3>3, <3>4, <3>5, <3>6, <3>7, <3>8
  <2>5. OrderedFor(orig)' = OrderedFor(orig) /\ (IsBarrier(orig)' <=> IsBarrier(orig))
    BY <1>1 DEF OrderedFor, IsBarrier
  <2> QED
    BY <1>1, <1>5, <2>3, <2>4, <2>5 DEF Sequence
<1>19. Errors'
  <2>1. ordseq' # {} => (orderr' <=> orig \in failed)
    BY <1>11 DEF IInv, Errors
  <2>2. failed \subseteq Requests /\ \A b \in failed : Ended(b)' \/ InSequence(b)'
    <3>1. \A b : InSequence(b) => InSequence(b)' \/ (over /\ b = orig)
      BY <1>1, <1>13 DEF InSequence
    <3> QED
      BY <1>14, <3>1 DEF IInv, Errors
  <2>3. ErrorReported'
    <3> SUFFICES ASSUME NEW c \in Barriers, Ended(c)'
                 PROVE  result'[c] = "error" <=> c \in failed \/ next_ordered.by = "none"
      BY <1>1, <1>5 DEF ErrorReported
    <3>1. CASE over /\ c = orig
      <4>1. (orderr <=> orig \in failed) /\ next_ordered.by # "none"
        BY <1>13, <3>1 DEF IInv, Errors, Sequence
      <4> QED
        BY <1>14, <3>1, <4>1
    <3>2. CASE ~(over /\ c = orig)
      BY <1>8, <1>14, <3>2 DEF IInv, Errors, ErrorReported
    <3> QED
      BY <3>1, <3>2
  <2> QED
    BY <1>1, <2>1, <2>2, <2>3 DEF Errors
<1> QED
  BY <1>17, <1>18, <1>19 DEF IInv

\* A part of the barrier ends.
LEMMA PartEndsInv ==
    ASSUME IInv, NEW e \in Proxies, NEW err \in BOOLEAN, PartEnds(e, err)
    PROVE  IInv'
<1>1. /\ e \in Range(flight) /\ flight' = Unlinked(flight, e) /\ overtaken' = Overtaken(e)
      /\ UNCHANGED <<kind, submitted, color, ordcolor, sched, queue, next_ordered, ordered, orig, requeues>>
      /\ blk_ordered_complete_seq(orig, ordseq, {e + 5}, err, orderr, result)
      /\ failed' = IF err THEN failed \cup {orig} ELSE failed
  BY ReqSeq DEF PartEnds
<1>2. Range(flight') = Range(flight) \ {e} /\ e \notin Requests /\ e \in Int /\ e + 5 \in 2 .. 4 /\ ~NonPc(e)
  BY <1>1, UnlinkedFacts, Numbers, KindFacts
<1>3. /\ result \in [Requests -> {"none", "ok", "error"}] /\ orderr \in BOOLEAN /\ ordseq \in SUBSET (0 .. 4)
  BY Stages DEF IInv, Types
<1>4. ordseq # {} /\ e + 5 \notin ordseq /\ e \notin Range(queue)
  BY <1>1 DEF IInv, Sequence
<1>5. /\ orig \in Requests /\ orig \in Barriers /\ IsBarrier(orig) /\ InSequence(orig) /\ ~Ended(orig)
      /\ orig \in Int /\ submitted \in Int
  BY <1>4, KindFacts, Numbers DEF IInv, Sequence, InSequence, Places, Types
<1> DEFINE S == ordseq \cup {e + 5}
<1>6. S \in SUBSET (0 .. 4) /\ S # {}
  BY <1>2, <1>3
<1>7. /\ orderr' = (orderr \/ err)
      /\ S = 0 .. 4 => ordseq' = {} /\ result' = [result EXCEPT ![orig] = IF orderr \/ err THEN "error" ELSE "ok"]
      /\ S # 0 .. 4 => ordseq' = S /\ result' = result
  <2>1. blk_ordered_cur_seq(S) = DONE <=> S = 0 .. 4
    <3> HIDE DEF S
    <3> QED
      BY <1>6, CurSeq
  <2> QED
    BY <1>1, <2>1 DEF blk_ordered_complete_seq
<1>8. DRAIN \in S <=> DRAIN \in ordseq
  BY <1>2, Stages
<1>9. ordseq \subseteq S /\ \A y \in Proxies : y + 5 \in S <=> y + 5 \in ordseq \/ y = e
  BY <1>2, Numbers
<1> HIDE DEF S
<1>10. orderr' \in BOOLEAN /\ (orderr' <=> orderr \/ err)
  BY <1>3, <1>7
<1>11. S = 0 .. 4 <=> ordseq # {} /\ ordseq' = {}
  BY <1>4, <1>6, <1>7
<1>12. /\ result' \in [Requests -> {"none", "ok", "error"}]
       /\ \A x \in Requests : Ended(x)' <=> Ended(x) \/ (S = 0 .. 4 /\ x = orig)
       /\ \A x \in Requests : ~(S = 0 .. 4 /\ x = orig) => result'[x] = result[x]
       /\ S = 0 .. 4 => result'[orig] = IF orderr \/ err THEN "error" ELSE "ok"
  <2>1. CASE S = 0 .. 4
    BY <1>3, <1>5, <1>7, <2>1 DEF Ended
  <2>2. CASE S # 0 .. 4
    BY <1>3, <1>7, <2>2 DEF Ended
  <2> QED
    BY <2>1, <2>2
<1>13. Barriers' = Barriers /\ (\A x : NonPc(x)' <=> NonPc(x)) /\ \A x : IsBarrier(x)' <=> IsBarrier(x)
  BY <1>1, KindsSame
<1>14. ASSUME S = 0 .. 4, NEW x \in Requests, NonPc(x), x < orig
      PROVE  Ended(x) \/ (next_ordered.by = "tag" /\ x \in Range(flight) /\ x \in Overtaken(e))
  <2>1. CASE ordered.by # "tag"
    <3>1. DRAIN \in ordseq
      BY <1>8, <1>14, Stages
    <3> QED
      BY <1>4, <1>14, <2>1, <3>1 DEF IInv, Sequence
  <2>2. CASE ordered.by = "tag"
    <3>1. next_ordered.by = "tag"
      BY <1>4, <2>2, ModeFacts DEF IInv, Sequence, Types
    <3>2. x \in Int /\ ~(orig < x) /\ x # orig /\ x \in All /\ e \in All /\ x # e
      BY <1>2, <1>5, <1>14, Numbers DEF All
    <3>3. ~(x > submitted) /\ x \notin sched
      <4>1. orig <= submitted
        BY <1>5 DEF IInv, Places
      <4> QED
        BY <1>5, <1>14, <3>2, <4>1 DEF IInv, KindsInPlace
    <3>4. x \notin Range(queue)
      BY <1>1, <1>4, <1>14, <3>2 DEF IInv, Lists, Behind
    <3>5. x \in Range(flight) => x \in Overtaken(e)
      <4> SUFFICES ASSUME x \in Range(flight) PROVE x \in Overtaken(e)
        OBVIOUS
      <4>1. Prec(flight, x, e) \/ Prec(flight, e, x)
        BY <1>1, <3>2, ListFacts DEF IInv, Types
      <4>2. ~Prec(flight, e, x)
        BY <1>4, <1>14, <2>2, <3>2 DEF IInv, Lists, Behind
      <4> QED
        BY <3>2, <4>1, <4>2, OvertakenFacts
    <3> QED
      BY <3>1, <3>2, <3>3, <3>4, <3>5 DEF IInv, Places, InSequence
  <2> QED
    BY <2>1, <2>2
<1>15. /\ Types' /\ Places' /\ KindsInPlace' /\ Coloured' /\ SameColour'
       /\ Lists' /\ Ahead' /\ EndedAfter'
  <2>1. \A x \in Requests : Ended(x)' <=>
              Ended(x) \/ x = e \/ (ordseq # {} /\ ordseq' = {} /\ x = orig)
    BY <1>2, <1>11, <1>12
  <2>2. ordseq # {} /\ ordseq' = {} => \A x \in Requests : NonPc(x) /\ x < orig => Before(x)'
    <3> SUFFICES ASSUME ordseq' = {}, NEW x \in Requests, NonPc(x), x < orig PROVE Before(x)'
      OBVIOUS
    <3>1. Ended(x) \/ (next_ordered.by = "tag" /\ x \in Range(flight) /\ x \in Overtaken(e))
      BY <1>4, <1>11, <1>14
    <3>2. x # e
      BY <1>2
    <3> QED
      BY <1>1, <1>2, <1>12, <3>1, <3>2 DEF Before
  <2>3. (ordseq = {} => ordseq' = {}) /\ ordseq' \subseteq 0 .. 4
    BY <1>4, <1>6, <1>7
  <2> QED
    BY <1>1, <1>10, <1>12, <2>1, <2>2, <2>3, LeavesDriver
<1>16. Sequence'
  <2>1. \A x \in Proxies :
          /\ ~(x \in Range(queue') /\ x \in Range(flight'))
          /\ x \in Range(queue') \cup Range(flight') <=> ordseq' # {} /\ x + 5 \notin ordseq'
    <3>1. \A x \in Proxies :
            /\ ~(x \in Range(queue) /\ x \in Range(flight'))
            /\ x \in Range(queue) \cup Range(flight') <=> x + 5 \notin S
      BY <1>2, <1>4, <1>9 DEF IInv, Sequence
    <3>2. CASE S = 0 .. 4
      <4>1. \A x \in Proxies : x + 5 \in S
        BY <3>2, Numbers
      <4> QED
        BY <1>1, <1>7, <3>1, <3>2, <4>1
    <3>3. CASE S # 0 .. 4
      BY <1>1, <1>6, <1>7, <3>1, <3>3
    <3> QED
      BY <3>2, <3>3
  <2>2. ASSUME ordseq' # {}
        PROVE  /\ STARTED \in ordseq' /\ ordseq' # STARTED .. POSTFLUSH
               /\ IsBarrier(orig)
               /\ next_ordered.by # "none" /\ ordered = OrderedFor(orig)
               /\ ordered.by = "tag" => DRAIN \in ordseq'
               /\ \A b \in Barriers : Ended(b)' => b < orig
               /\ Passed'
               /\ ordered.by # "tag" =>
                     /\ \A x \in Requests : NonPc(x) /\ Ended(x)' => x < orig
                     /\ \A x \in Range(flight') : NonPc(x) => x < orig
                     /\ DRAIN \in ordseq' => \A x \in Requests : NonPc(x) /\ x < orig => Ended(x)'
                     /\ \A x \in Proxies \cap Range(flight') : 0 .. x + 4 \subseteq ordseq'
    <3>1. S # 0 .. 4 /\ ordseq' = S
      BY <1>7, <2>2
    <3>2. STARTED \in ordseq' /\ ordseq' # STARTED .. POSTFLUSH
      BY <1>4, <1>9, <3>1, Stages DEF IInv, Sequence
    <3>3. /\ ordered.by # "tag" => \A x \in Requests : NonPc(x) /\ Ended(x)' => x < orig
          /\ \A b \in Barriers : Ended(b)' => b < orig
      BY <1>4, <1>12, <3>1, KindFacts DEF IInv, Sequence
    <3>6. Passed'
      <4> SUFFICES ASSUME NEW y \in Requests, NonPc(y), Ended(y), orig < y, NEW p \in Proxies
                   PROVE  p \notin Range(queue) /\ (p \in Range(flight') => p \in Overtaken(e))
        BY <1>1, <1>12, <1>13, <3>1 DEF Passed
      <4>1. p \notin Range(queue) /\ (p \in Range(flight) => p \in overtaken)
        BY <1>4 DEF IInv, Sequence, Passed
      <4> QED
        BY <1>2, <4>1, OvertakenFacts
    <3>4. IsBarrier(orig) /\ next_ordered.by # "none" /\ ordered = OrderedFor(orig)
            /\ (ordered.by = "tag" => DRAIN \in ordseq')
      BY <1>4, <1>9, <3>1 DEF IInv, Sequence
    <3>5. ordered.by # "tag" =>
                     /\ \A x \in Range(flight') : NonPc(x) => x < orig
                     /\ DRAIN \in ordseq' => \A x \in Requests : NonPc(x) /\ x < orig => Ended(x)'
                     /\ \A x \in Proxies \cap Range(flight') : 0 .. x + 4 \subseteq ordseq'
      BY <1>2, <1>4, <1>8, <1>9, <1>12, <3>1 DEF IInv, Sequence
    <3> QED
      BY <3>2, <3>3, <3>4, <3>5, <3>6
  <2>3. OrderedFor(orig)' = OrderedFor(orig) /\ (IsBarrier(orig)' <=> IsBarrier(orig))
    BY <1>1 DEF OrderedFor, IsBarrier
  <2> QED
    BY <1>1, <1>13, <2>1, <2>2, <2>3 DEF Sequence
<1>17. Errors'
  <2>1. (orderr <=> orig \in failed) /\ next_ordered.by # "none" /\ failed \subseteq Requests
    BY <1>4 DEF IInv, Errors, Sequence
  <2>2. orig \in failed' <=> orderr \/ err
    BY <1>1, <2>1
  <2>3. failed' \subseteq Requests /\ \A b \in failed' : b # orig => b \in failed
    BY <1>1, <1>5, <2>1
  <2>4. \A b \in failed' : Ended(b)' \/ InSequence(b)'
    <3>1. Ended(orig)' \/ InSequence(orig)'
      BY <1>1, <1>4, <1>5, <1>11, <1>12 DEF InSequence
    <3>2. ASSUME NEW b \in failed', b # orig PROVE Ended(b)'
      BY <1>12, <2>3, <3>2 DEF IInv, Errors, InSequence
    <3>3. ASSUME NEW b \in failed', b = orig PROVE Ended(b)' \/ InSequence(b)'
      BY <1>1, <1>4, <1>5, <1>11, <1>12, <3>3 DEF InSequence
    <3> QED
      BY <3>2, <3>3
  <2>5. ErrorReported'
    <3> SUFFICES ASSUME NEW c \in Barriers, Ended(c)'
                 PROVE  result'[c] = "error" <=> c \in failed' \/ next_ordered.by = "none"
      BY <1>1, <1>13 DEF ErrorReported
    <3>1. c \in Requests
      BY KindFacts
    <3>2. CASE S = 0 .. 4 /\ c = orig
      BY <1>12, <2>1, <2>2, <3>2
    <3>3. CASE ~(S = 0 .. 4 /\ c = orig)
      <4>1. Ended(c) /\ c # orig /\ result'[c] = result[c]
        BY <1>5, <1>12, <3>1, <3>3
      <4>2. c \in failed' <=> c \in failed
        BY <1>1, <4>1
      <4> QED
        BY <4>1, <4>2 DEF IInv, Errors, ErrorReported
    <3> QED
      BY <3>2, <3>3
  <2> QED
    BY <1>1, <1>10, <2>2, <2>3, <2>4, <2>5 DEF Errors
<1> QED
  BY <1>15, <1>16, <1>17 DEF IInv

-----------------------------------------------------------------------------
(* The driver puts something back *)

\* During a sequence: what comes to stand before the request put back has an
\* earlier stage, and so has all that stands before that.
LEMMA RequeuedFacts ==
    ASSUME IInv, ordseq # {}, NEW e \in Range(flight)
    PROVE  /\ Requeued(e) \in Seq(All)
           /\ Range(Requeued(e)) = Range(queue) \cup {e}
           /\ \A x, y : Prec(Requeued(e), x, y) =>
                 \/ Prec(queue, x, y)
                 \/ x = e /\ y \in Range(queue)
                 \/ /\ y = e /\ x \in Range(queue)
                    /\ ~(blk_ordered_req_seq(e) <= blk_ordered_req_seq(x))
                    /\ \A w : Prec(queue, w, x) => ~(blk_ordered_req_seq(e) <= blk_ordered_req_seq(w))
<1> DEFINE later == {k \in DOMAIN queue : blk_ordered_req_seq(e) <= blk_ordered_req_seq(queue[k])}
           i == IF later = {} THEN Len(queue) + 1 ELSE Min(later)
<1>1. /\ queue \in Seq(All) /\ Len(queue) \in Nat /\ DOMAIN queue = 1 .. Len(queue) /\ e \in All
      /\ \A k \in DOMAIN queue : queue[k] \in Range(queue)
      /\ \A k \in 1 .. Len(queue) : queue[k] \in Range(queue)
  BY ListTypes, ListFacts DEF IInv, Types
<1>2. Requeued(e) = InsertAt(queue, i, e)
  BY DEF Requeued
<1>3. i \in 1 .. Len(queue) + 1 /\ \A k \in DOMAIN queue : k < i => k \notin later
  <2>1. CASE later = {}
    BY <1>1, <2>1
  <2>2. CASE later # {}
    <3>1. later \in SUBSET Nat
      BY <1>1
    <3>2. Min(later) \in later /\ \A k \in later : Min(later) <= k
      <4> HIDE DEF later
      <4> QED
        BY <2>2, <3>1, MinNat
    <3>3. i = Min(later)
      BY <2>2
    <3>4. i \in DOMAIN queue /\ \A k \in later : i <= k
      BY <3>2, <3>3
    <3> HIDE DEF i, later
    <3> QED
      BY <1>1, <3>4
  <2> QED
    BY <2>1, <2>2
<1>4. \A k \in DOMAIN queue : k < i => ~(blk_ordered_req_seq(e) <= blk_ordered_req_seq(queue[k]))
  BY <1>3
<1> HIDE DEF i, later
<1>5. /\ InsertAt(queue, i, e) \in Seq(All)
      /\ Range(InsertAt(queue, i, e)) = Range(queue) \cup {e}
      /\ \A x, y : Prec(InsertAt(queue, i, e), x, y) =>
            \/ Prec(queue, x, y)
            \/ y = e /\ \E k \in 1 .. Len(queue) : k < i /\ queue[k] = x
            \/ x = e /\ \E k \in 1 .. Len(queue) : i <= k /\ queue[k] = y
  BY <1>1, <1>3, InsertOrder
<1>6. ASSUME NEW k \in DOMAIN queue, k < i, NEW w, Prec(queue, w, queue[k])
      PROVE  ~(blk_ordered_req_seq(e) <= blk_ordered_req_seq(w))
  <2>1. PICK m, n \in DOMAIN queue : m < n /\ queue[m] = w /\ queue[n] = queue[k]
    BY <1>6 DEF Prec
  <2>2. n = k
    <3> SUFFICES ASSUME n # k PROVE FALSE
      OBVIOUS
    <3>1. n < k \/ k < n
      BY <1>1
    <3>2. Prec(queue, queue[k], queue[k])
      BY <2>1, <3>1 DEF Prec
    <3> QED
      BY <1>1, <3>2, ListTypes DEF IInv, Lists, Behind
  <2>3. m < i
    BY <1>1, <1>3, <1>6, <2>1, <2>2
  <2> QED
    BY <1>4, <2>1, <2>3
<1>7. ASSUME NEW x, NEW y, Prec(InsertAt(queue, i, e), x, y)
      PROVE  \/ Prec(queue, x, y)
             \/ x = e /\ y \in Range(queue)
             \/ /\ y = e /\ x \in Range(queue)
                /\ ~(blk_ordered_req_seq(e) <= blk_ordered_req_seq(x))
                /\ \A w : Prec(queue, w, x) => ~(blk_ordered_req_seq(e) <= blk_ordered_req_seq(w))
  <2>1. CASE y = e /\ \E k \in 1 .. Len(queue) : k < i /\ queue[k] = x
    <3>1. PICK k \in DOMAIN queue : k < i /\ queue[k] = x
      BY <1>1, <2>1
    <3> QED
      BY <1>1, <1>4, <1>6, <2>1, <3>1
  <2>2. CASE x = e /\ \E k \in 1 .. Len(queue) : i <= k /\ queue[k] = y
    BY <1>1, <2>2
  <2> QED
    BY <1>5, <1>7, <2>1, <2>2
<1> QED
  BY <1>2, <1>5, <1>7

\* What comes to stand before the request put back may.
LEMMA RequeuedBehind ==
    ASSUME IInv, ordseq # {}, NEW e \in Range(flight), NEW u \in Range(queue),
           next_ordered.by = "tag" => e \notin overtaken,
           ~(blk_ordered_req_seq(e) <= blk_ordered_req_seq(u)),
           \A w : Prec(queue, w, u) => ~(blk_ordered_req_seq(e) <= blk_ordered_req_seq(w))
    PROVE  Behind(u, e)
<1>1. e \in All /\ u \in All /\ ~IsBarrier(e) /\ u # e
  <2>1. e \in All /\ u \in All /\ ~IsBarrier(e)
    BY ListTypes DEF IInv, KindsInPlace
  <2> QED
    BY <2>1 DEF IInv, Places, Sequence, All
<1>2. \A x \in Proxies : x \notin Requests /\ ~NonPc(x) /\ x + 5 \in 2 .. 4 /\ x \in Int
  BY Numbers, KindFacts
<1>3. \A x \in Requests : blk_ordered_req_seq(x) = 1 \/ blk_ordered_req_seq(x) = 5
  BY ReqSeq
<1>4. \A x \in Proxies : blk_ordered_req_seq(x) = x + 5
  BY ReqSeq
<1>5. \A x : NonPc(x) => x \in Requests /\ (blk_ordered_req_seq(x) = 1 <=> color[x] = color[orig])
  BY ReqSeq, KindFacts DEF NonPc
<1>6. orig \in Requests /\ orig \in Int /\ IsBarrier(orig) /\ NonPc(orig) /\ InSequence(orig)
  BY KindFacts, Numbers DEF IInv, Sequence, InSequence
<1>7. blk_ordered_req_seq(e) \in 1 .. 5
  BY <1>1, <1>2, <1>3, <1>4 DEF All
<1>8. blk_ordered_req_seq(e) <= 5
  BY <1>7
<1>9. ASSUME NonPc(u), orig < u PROVE FALSE
  <2>1. blk_ordered_req_seq(u) = 1
    BY <1>3, <1>5, <1>8, <1>9
  <2>2. PICK c \in Barriers : Prec(queue, c, u) /\ color[c] # color[orig]
    BY <1>5, <1>9, <2>1, ColourInQueue
  <2>3. blk_ordered_req_seq(c) = 5
    BY <1>3, <1>5, <2>2, KindFacts
  <2> QED
    BY <1>8, <2>2, <2>3
<1>10. NonPc(u) => u < orig /\ ~IsBarrier(u)
  <2> SUFFICES ASSUME NonPc(u) PROVE u < orig /\ ~IsBarrier(u)
    OBVIOUS
  <2>1. u \in Requests /\ u \in Int /\ u # orig
    BY <1>5, <1>6, Numbers DEF IInv, Places
  <2>2. ~(orig < u)
    BY <1>9
  <2>3. ~IsBarrier(u)
    BY <1>6, <2>2, KindFacts DEF IInv, Ahead
  <2> QED
    BY <1>6, <2>1, <2>2, <2>3
<1>11. u \in Proxies /\ e \in Proxies => u < e
  BY <1>2, <1>4
<1>12. u \in Proxies /\ NonPc(e) => orig < e
  <2> SUFFICES ASSUME u \in Proxies, NonPc(e) PROVE orig < e
    OBVIOUS
  <2>1. blk_ordered_req_seq(e) # 1
    BY <1>2, <1>4
  <2> QED
    BY <1>5, <2>1, ColourInFlight
<1> QED
  BY <1>1, <1>10, <1>11, <1>12 DEF Behind

\* The driver puts back a request or a part of the barrier.
LEMMA RequeueInv ==
    ASSUME IInv, NEW e \in Requests \cup Proxies, elv_requeue_request(e)
    PROVE  IInv'
<1>1. /\ e \in Range(flight) /\ (next_ordered.by = "tag" => e = Last(flight) /\ e \notin overtaken)
      /\ overtaken' = overtaken \ {e}
      /\ requeues < MaxRequeues /\ requeues' = requeues + 1
      /\ flight' = Unlinked(flight, e) /\ queue' = Requeued(e)
      /\ UNCHANGED <<kind, submitted, color, ordcolor, sched, next_ordered, ordered, ordseq, orig,
                     orderr, result, failed>>
  BY DEF elv_requeue_request
<1>2. /\ flight' \in Seq(All) /\ Range(flight') = Range(flight) \ {e}
      /\ \A x, y : Prec(flight', x, y) => Prec(flight, x, y)
      /\ e \in All /\ ~IsBarrier(e)
  BY <1>1, UnlinkedFacts
<1>3. /\ queue' \in Seq(All) /\ Range(queue') = Range(queue) \cup {e}
      /\ \A x, y : Prec(queue', x, y) => Behind(x, y)
  <2>1. CASE ordseq = {}
    <3>1. queue' = <<e>> \o queue /\ queue \in Seq(All)
      BY <1>1, <2>1 DEF Requeued, IInv, Types
    <3>2. /\ queue' \in Seq(All) /\ Range(queue') = Range(queue) \cup {e}
          /\ \A x, y : Prec(queue', x, y) => Prec(queue, x, y) \/ (x = e /\ y \in Range(queue))
      BY <1>2, <3>1, FrontOrder
    <3>3. \A x, y : Prec(queue, x, y) => Behind(x, y)
      BY ListTypes DEF IInv, Lists
    <3>4. e \in Requests /\ e \notin Range(queue)
      BY <1>1, <1>2, <2>1 DEF IInv, Sequence, Places, All
    <3>5. \A y \in Range(queue) : NonPc(e) /\ IsBarrier(y) => e < y
      BY <1>1, <3>4, KindFacts DEF IInv, Ahead, Reached
    <3>6. \A y \in Range(queue) : Behind(e, y)
      BY <1>2, <2>1, <3>4, <3>5 DEF Behind
    <3> QED
      BY <3>2, <3>3, <3>6
  <2>2. CASE ordseq # {}
    <3>1. \A x, y : Prec(queue, x, y) => Behind(x, y)
      BY ListTypes DEF IInv, Lists
    <3>2. \A y \in Range(queue) : Behind(e, y)
      BY <1>1, <2>2 DEF IInv, Lists
    <3>3. /\ queue' \in Seq(All) /\ Range(queue') = Range(queue) \cup {e}
          /\ \A x, y : Prec(queue', x, y) =>
                 \/ Prec(queue, x, y)
                 \/ x = e /\ y \in Range(queue)
                 \/ /\ y = e /\ x \in Range(queue)
                    /\ ~(blk_ordered_req_seq(e) <= blk_ordered_req_seq(x))
                    /\ \A w : Prec(queue, w, x) => ~(blk_ordered_req_seq(e) <= blk_ordered_req_seq(w))
      BY <1>1, <2>2, RequeuedFacts
    <3>4. \A x \in Range(queue) :
             /\ ~(blk_ordered_req_seq(e) <= blk_ordered_req_seq(x))
             /\ \A w : Prec(queue, w, x) => ~(blk_ordered_req_seq(e) <= blk_ordered_req_seq(w))
             => Behind(x, e)
      BY <1>1, <2>2, RequeuedBehind
    <3> QED
      BY <3>1, <3>2, <3>3, <3>4
  <2> QED
    BY <2>1, <2>2
<1>4. ASSUME ordseq # {}, NEW y \in Range(flight), y # e PROVE Behind(y, e)
  <2>1. y \in All /\ ~IsBarrier(y)
    BY ListTypes DEF IInv, KindsInPlace
  <2>2. CASE ordered.by = "tag"
    <3>1. e = Last(flight)
      BY <1>1, <1>4, <2>2, ModeFacts DEF IInv, Sequence, Types
    <3>2. Prec(flight, y, e)
      BY <1>4, <3>1, LastOrder DEF IInv, Types
    <3> QED
      BY <1>2, <1>4, <2>1, <2>2, <3>2 DEF IInv, Lists
  <2>3. CASE ordered.by # "tag"
    <3>1. \A x \in Range(flight) : NonPc(x) => x < orig
      BY <1>4, <2>3 DEF IInv, Sequence
    <3>2. \A x \in Proxies : x \in Range(flight) => 0 .. x + 4 \subseteq ordseq /\ x + 5 \notin ordseq
      BY <1>4, <2>3 DEF IInv, Sequence
    <3>3. y \in Proxies /\ e \in Proxies => FALSE
      BY <1>1, <1>4, <3>2, Numbers
    <3>4. y \in Proxies /\ NonPc(e) => FALSE
      <4> SUFFICES ASSUME y \in Proxies, NonPc(e) PROVE FALSE
        OBVIOUS
      <4>1. 1 \in 0 .. y + 4
        BY Numbers
      <4>2. DRAIN \in ordseq
        BY <1>4, <3>2, <4>1, Stages
      <4>3. Ended(e)
        BY <1>1, <1>4, <2>3, <3>1, <4>2, KindFacts DEF IInv, Sequence
      <4> QED
        BY <1>1, <4>3, KindFacts DEF IInv, Places
    <3> QED
      BY <1>2, <1>4, <2>1, <3>1, <3>3, <3>4 DEF Behind
  <2> QED
    BY <2>2, <2>3
<1>5. Barriers' = Barriers /\ (\A x : NonPc(x)' <=> NonPc(x)) /\ (\A x : IsBarrier(x)' <=> IsBarrier(x))
  BY <1>1, KindsSame
<1>6. /\ \A x : Ended(x)' <=> Ended(x)
      /\ \A x : InSequence(x)' <=> InSequence(x)
      /\ \A x : Reached(x)' => Reached(x)
  BY <1>1, <1>2 DEF Ended, InSequence, Reached
<1>7. Types'
  <2>1. requeues' \in 0 .. MaxRequeues
    BY <1>1, OrderedAssumption DEF IInv, Types
  <2>2. overtaken' \subseteq Range(flight')
    BY <1>1, <1>2 DEF IInv, Types
  <2> QED
    BY <1>1, <1>2, <1>3, <2>1, <2>2 DEF IInv, Types
<1>8. Places'
  <2> SUFFICES ASSUME NEW x \in Requests
               PROVE  /\ x > submitted \/ x \in sched \/ x \in Range(queue') \/ x \in Range(flight')
                            \/ InSequence(x) \/ Ended(x)
                      /\ ~(x > submitted /\ (x \in sched \/ x \in Range(queue') \/ x \in Range(flight')
                                          \/ InSequence(x) \/ Ended(x)))
                      /\ ~(x \in sched /\ (x \in Range(queue') \/ x \in Range(flight') \/ InSequence(x) \/ Ended(x)))
                      /\ ~(x \in Range(queue') /\ (x \in Range(flight') \/ InSequence(x) \/ Ended(x)))
                      /\ ~(x \in Range(flight') /\ (InSequence(x) \/ Ended(x)))
                      /\ ~(InSequence(x) /\ Ended(x))
    BY <1>1, <1>6 DEF Places
  <2>1. /\ x \in Range(queue') <=> x \in Range(queue) \/ x = e
        /\ x \in Range(flight') <=> x \in Range(flight) /\ x # e
        /\ e \in Range(flight)
    BY <1>1, <1>2, <1>3
  <2> QED
    BY <2>1 DEF IInv, Places
<1>9. KindsInPlace'
  BY <1>1, <1>2, <1>5 DEF IInv, KindsInPlace
<1>10. Lists'
  <2>1. \A x, y : Behind(x, y) => Behind(x, y)'
    BY <1>1, BehindKept
  <2>2. \A x \in Range(flight'), y \in Range(queue') : ordseq # {} => Behind(x, y)
    BY <1>2, <1>3, <1>4 DEF IInv, Lists
  <2> QED
    BY <1>1, <1>2, <1>3, <2>1, <2>2 DEF IInv, Lists
<1>11. Ahead'
  <2>1. \A b \in Barriers : b # e
    BY <1>2, KindFacts
  <2> QED
    BY <1>3, <1>5, <1>6, <2>1 DEF IInv, Ahead
<1>12. Sequence'
  <2>1. OrderedFor(orig)' = OrderedFor(orig) /\ (IsBarrier(orig)' <=> IsBarrier(orig))
    BY <1>1 DEF OrderedFor, IsBarrier
  <2>2. \A x \in Proxies :
          /\ ~(x \in Range(queue') /\ x \in Range(flight'))
          /\ x \in Range(queue') \cup Range(flight') <=> x \in Range(queue) \cup Range(flight)
    BY <1>1, <1>2, <1>3 DEF IInv, Sequence
  <2>3. Range(flight') \subseteq Range(flight)
    BY <1>2
  <2>4. ordseq # {} => Passed'
    <3> SUFFICES ASSUME ordseq # {}, NEW y \in Requests, NonPc(y), Ended(y), orig < y, NEW p \in Proxies
                 PROVE  p \notin Range(queue') /\ (p \in Range(flight') => p \in overtaken')
      BY <1>1, <1>5, <1>6 DEF Passed
    <3>1. p \notin Range(queue) /\ (p \in Range(flight) => p \in overtaken)
      BY DEF IInv, Sequence, Passed
    <3>2. next_ordered.by = "tag"
      <4>1. orig \in Int /\ y \in Int
        BY KindFacts, Numbers DEF IInv, Sequence
      <4>2. ~(y < orig)
        BY <4>1
      <4>3. ordered.by = "tag"
        BY <4>2 DEF IInv, Sequence
      <4> QED
        BY <4>3, ModeFacts DEF IInv, Sequence, Types
    <3>3. p # e
      BY <1>1, <3>1, <3>2
    <3> QED
      BY <1>1, <1>2, <1>3, <3>1, <3>3
  <2> QED
    BY <1>1, <1>5, <1>6, <2>1, <2>2, <2>3, <2>4 DEF IInv, Sequence
<1>13. next_ordered.by = "tag" =>
          \A x \in Range(flight) \cap overtaken : x \in Range(flight') /\ x \in overtaken'
  BY <1>1, <1>2
<1> QED
  BY <1>1, <1>7, <1>8, <1>9, <1>10, <1>11, <1>12, <1>13, ColoursSame, EndsSame DEF IInv

-----------------------------------------------------------------------------
(* The invariant and what it implies *)

\* Every step keeps the invariant.
LEMMA NextInv ==
    ASSUME IInv, Next
    PROVE  IInv'
<1>1. CASE Submit
  <2>1. submitted + 1 \in Requests
    BY <1>1, Numbers DEF Submit, IInv, Types
  <2> QED
    BY <1>1, <2>1, InsertSortInv, InsertBackInv, InsertFrontInv DEF Submit
<1>2. CASE blk_peek_request
  BY <1>2, DispatchInv, StartInv, NotSupportedInv, FetchInv DEF blk_peek_request
<1>3. CASE \E r \in Requests : elv_completed_request(r)
  BY <1>3, CompletedInv
<1>4. CASE \E x \in Proxies, err \in BOOLEAN : PartEnds(x, err)
  BY <1>4, PartEndsInv
<1>5. CASE \E x \in Requests \cup Proxies : elv_requeue_request(x)
  BY <1>5, RequeueInv
<1> QED
  BY <1>1, <1>2, <1>3, <1>4, <1>5 DEF Next

\* A step that changes nothing keeps it.
LEMMA StutterInv ==
    ASSUME IInv, UNCHANGED vars
    PROVE  IInv'
<1>1. UNCHANGED <<kind, submitted, color, ordcolor, sched, queue, flight, overtaken, next_ordered,
                  ordered, ordseq, orig, orderr, result, failed, requeues>>
  BY DEF vars
<1>2. Types'
  BY <1>1 DEF IInv, Types
<1>3. Places' /\ KindsInPlace'
  <2>1. /\ \A x : Ended(x)' <=> Ended(x)
        /\ \A x : InSequence(x)' <=> InSequence(x)
    BY <1>1 DEF Ended, InSequence
  <2> QED
    BY <1>1, <2>1, KindsSame DEF IInv, Places, KindsInPlace
<1> QED
  BY <1>1, <1>2, <1>3, ColoursSame, CoreSame DEF IInv

\* The invariant holds in every state.
THEOREM Invariant == Init /\ [][Next]_vars => []IInv
<1>1. Init => IInv
  BY InitInv
<1>2. IInv /\ [Next]_vars => IInv'
  BY NextInv, StutterInv
<1> QED
  BY <1>1, <1>2, PTL

\* A request is in exactly one place, a part in at most one.
LEMMA ImpliesTypeOK ==
    ASSUME IInv
    PROVE  TypeOK
<1>1. Once(queue) /\ Once(flight)
  BY ListTypes DEF Once, IInv, Lists, Behind
<1>2. IsInjective(queue) /\ IsInjective(flight)
  BY <1>1, OnceInjective DEF IInv, Types
<1>3. ASSUME NEW r \in Requests
      PROVE  Cardinality({p \in 1 .. 6 : \/ p = 1 /\ r > submitted
                                         \/ p = 2 /\ r \in sched
                                         \/ p = 3 /\ r \in Range(queue)
                                         \/ p = 4 /\ r \in Range(flight)
                                         \/ p = 5 /\ InSequence(r)
                                         \/ p = 6 /\ Ended(r)}) = 1
  <2> DEFINE In(p) == \/ p = 1 /\ r > submitted
                      \/ p = 2 /\ r \in sched
                      \/ p = 3 /\ r \in Range(queue)
                      \/ p = 4 /\ r \in Range(flight)
                      \/ p = 5 /\ InSequence(r)
                      \/ p = 6 /\ Ended(r)
             P == {p \in 1 .. 6 : In(p)}
  <2>1. \E p \in 1 .. 6 : In(p)
    BY DEF IInv, Places
  <2>2. \A p, n \in 1 .. 6 : In(p) /\ In(n) => p = n
    BY DEF IInv, Places
  <2>3. \E p : P = {p}
    <3> HIDE DEF In
    <3>1. PICK p \in 1 .. 6 : In(p)
      BY <2>1
    <3>2. P = {p}
      BY <2>2, <3>1
    <3> QED
      BY <3>2
  <2>4. Cardinality(P) = 1
    <3> HIDE DEF P
    <3> QED
      BY <2>3, FS_Singleton
  <2> QED
    BY <2>4
<1>4. queue \in Seq(Requests \cup Proxies) /\ flight \in Seq(Requests \cup Proxies)
  BY DEF IInv, Types, All
<1> QED
  BY <1>2, <1>3, <1>4 DEF TypeOK, IInv, Types

\* The stages are gone through in turn.
LEMMA ImpliesStagesInTurn ==
    ASSUME IInv
    PROVE  StagesInTurn
<1>1. ASSUME ordseq # {}
      PROVE  /\ blk_ordered_cur_seq(ordseq) \in 0 .. 5 /\ blk_ordered_cur_seq(ordseq) \notin ordseq
             /\ 0 .. blk_ordered_cur_seq(ordseq) - 1 \subseteq ordseq
  BY <1>1, CurSeq, Stages DEF IInv, Types
<1>2. StagesOnce
  BY ReqSeq DEF StagesOnce, IInv, Sequence
<1>3. HeadInTurn
  <2> DEFINE h == Head(queue)
             c == blk_ordered_cur_seq(ordseq)
  <2> SUFFICES ASSUME ordseq # {}, ordered.by = "drain", queue # << >>, IsFs(h) \/ h \in Proxies
               PROVE  blk_ordered_req_seq(h) >= c
    BY DEF HeadInTurn
  <2>1. h \in Range(queue) /\ h \in All /\ \A x : ~Prec(queue, x, h)
    BY HeadFirst
  <2>2. c \in 0 .. 5 /\ c \notin ordseq /\ 0 .. c - 1 \subseteq ordseq
    BY <1>1
  <2> HIDE DEF h, c
  <2>3. CASE h \in Proxies
    <3>1. h + 5 \notin ordseq /\ blk_ordered_req_seq(h) = h + 5 /\ h \in Int /\ h + 5 \in 0 .. 5
      BY <2>1, <2>3, ReqSeq, Numbers DEF IInv, Sequence
    <3> QED
      BY <2>2, <3>1
  <2>4. CASE h \notin Proxies
    <3>1. NonPc(h) /\ h \in Requests /\ h \in Int
      BY <2>4, KindFacts, Numbers
    <3>2. CASE color[h] # color[orig]
      BY <2>2, <3>1, <3>2, ReqSeq DEF NonPc
    <3>3. CASE color[h] = color[orig]
      <4>1. ~(orig < h)
        BY <2>1, <3>1, <3>3, ColourInQueue
      <4>2. orig \in Int /\ h # orig
        BY <2>1, <3>1, Numbers, KindFacts DEF IInv, Sequence, Places, InSequence
      <4>3. ~Ended(h) /\ h < orig
        BY <2>1, <3>1, <4>1, <4>2 DEF IInv, Places
      <4>4. 1 \notin ordseq
        BY <3>1, <4>3, Stages DEF IInv, Sequence
      <4>5. blk_ordered_req_seq(h) = 1
        BY <3>1, <3>3, ReqSeq
      <4> QED
        BY <2>2, <4>4, <4>5
    <3> QED
      BY <3>2, <3>3
  <2> QED
    BY <2>3, <2>4
<1>4. PartsInTurn
  <2> DEFINE c == blk_ordered_cur_seq(ordseq)
  <2> SUFFICES ASSUME ordseq # {}, ordered.by = "drain", NEW x \in Proxies \cap Range(flight)
               PROVE  blk_ordered_req_seq(x) = c
    BY DEF PartsInTurn
  <2>1. c \in 0 .. 5 /\ c \notin ordseq /\ 0 .. c - 1 \subseteq ordseq
    BY <1>1
  <2> HIDE DEF c
  <2>2. 0 .. x + 4 \subseteq ordseq /\ x + 5 \notin ordseq /\ blk_ordered_req_seq(x) = x + 5
    BY ReqSeq DEF IInv, Sequence
  <2>3. x \in Int /\ x + 5 \in 2 .. 4
    BY Numbers
  <2> QED
    BY <2>1, <2>2, <2>3
<1> QED
  BY <1>2, <1>3, <1>4 DEF StagesInTurn

\* Where a barrier is that something submitted later has overtaken: it has
\* ended or its sequence runs.
LEMMA PassedBarrier ==
    ASSUME IInv, NEW b \in Barriers, NEW r \in Requests, NonPc(r), r > b, Reached(r)
    PROVE  Ended(b) \/ InSequence(b)
<1>1. /\ b \in Requests /\ b \in Int /\ r \in Int /\ submitted \in Int /\ NonPc(b) /\ IsBarrier(b)
      /\ kind[b] # "fs"
  BY KindFacts, Numbers DEF IInv, Types
<1>2. r <= submitted
  BY <1>1 DEF IInv, Places, Reached
<1>3. ~(b > submitted) /\ ~(r < b)
  BY <1>1, <1>2
<1>4. b \notin Range(queue)
  BY <1>3 DEF IInv, Ahead
<1>5. b \notin sched /\ b \notin Range(flight)
  BY <1>1 DEF IInv, KindsInPlace
<1> QED
  BY <1>1, <1>3, <1>4, <1>5 DEF IInv, Places

\* A barrier orders what is submitted around it.
LEMMA ImpliesBarrierOrder ==
    ASSUME IInv
    PROVE  BarrierOrder
<1>1. \A r \in Fs : r \in Requests /\ NonPc(r)
  BY KindFacts
<1>2. \A b \in Barriers : b \in Requests /\ IsBarrier(b) /\ NonPc(b) /\ b \in Int
  BY KindFacts, Numbers
<1>3. \A r \in Requests : r \in Int
  BY Numbers
<1>4. ordseq # {} => (ordered.by = "tag" => next_ordered.by = "tag") /\ orig \in Int
  BY ModeFacts, Numbers, KindFacts DEF IInv, Sequence, Types
<1>5. ASSUME NEW b \in Barriers, next_ordered.by # "none", Ended(b), NEW r \in Fs, r < b
      PROVE  Reached(r) /\ (next_ordered.by # "tag" => Ended(r))
  BY <1>1, <1>5 DEF IInv, EndedAfter, Before, Reached
<1>6. DrainOrder
  <2> SUFFICES ASSUME next_ordered.by = "drain", NEW b \in Barriers
               PROVE  /\ (Ended(b) \/ (InSequence(b) /\ Proxies \cap Range(flight) # {}))
                            => \A r \in Fs : r < b => Ended(r)
                      /\ \A r \in Fs : (r > b /\ Reached(r)) => Ended(b)
    BY DEF DrainOrder
  <2>1. ASSUME InSequence(b), NEW p \in Proxies \cap Range(flight), NEW r \in Fs, r < b PROVE Ended(r)
    <3>1. ordseq # {} /\ b = orig /\ ordered.by # "tag"
      BY <1>4, <2>1 DEF InSequence
    <3>2. 1 \in 0 .. p + 4 /\ 0 .. p + 4 \subseteq ordseq
      BY <3>1, Numbers DEF IInv, Sequence
    <3> QED
      BY <1>1, <2>1, <3>1, <3>2, Stages DEF IInv, Sequence
  <2>2. ASSUME NEW r \in Fs, r > b, Reached(r) PROVE Ended(b)
    <3> SUFFICES ASSUME InSequence(b) PROVE FALSE
      BY <1>1, <2>2, PassedBarrier
    <3>1. ordseq # {} /\ b = orig /\ ordered.by # "tag"
      BY <1>4 DEF InSequence
    <3>2. r < orig
      BY <1>1, <2>2, <3>1 DEF IInv, Sequence, Reached
    <3> QED
      BY <1>1, <1>2, <1>3, <2>2, <3>1, <3>2
  <2> QED
    BY <1>5, <2>1, <2>2
<1>7. TagOrder
  <2> SUFFICES ASSUME next_ordered.by = "tag", NEW b \in Barriers
               PROVE  /\ (Ended(b) \/ (InSequence(b) /\ Proxies \cap Range(flight) # {}))
                            => \A r \in Fs : r < b => Reached(r)
                      /\ \A r \in Fs : (r > b /\ Reached(r))
                            => Ended(b) \/ (InSequence(b) /\ Range(queue) \cap Proxies = {})
    BY DEF TagOrder
  <2>1. ASSUME InSequence(b), NEW p \in Proxies \cap Range(flight), NEW r \in Fs, r < b PROVE Reached(r)
    <3>1. ordseq # {} /\ b = orig
      BY <2>1 DEF InSequence
    <3>2. r \in Requests /\ NonPc(r) /\ r \in Int /\ b \in Int /\ ~(b < r) /\ r # b /\ submitted \in Int
      BY <1>1, <1>2, <1>3, <2>1 DEF IInv, Types
    <3>3. b <= submitted
      BY <1>2, <2>1, <3>2 DEF IInv, Places
    <3>4. ~(r > submitted) /\ r \notin sched
      BY <2>1, <3>2, <3>3 DEF IInv, KindsInPlace
    <3>5. r \notin Range(queue)
      BY <2>1, <3>1, <3>2 DEF IInv, Lists, Behind
    <3> QED
      BY <3>1, <3>2, <3>4, <3>5 DEF IInv, Places, InSequence, Reached
  <2>2. ASSUME NEW r \in Fs, r > b, Reached(r)
        PROVE  Ended(b) \/ (InSequence(b) /\ Range(queue) \cap Proxies = {})
    <3>1. ASSUME InSequence(b), NEW p \in Range(queue) \cap Proxies PROVE FALSE
      <4>1. ordseq # {} /\ b = orig /\ r \in Requests /\ NonPc(r)
        BY <1>1, <3>1 DEF InSequence
      <4>2. CASE Ended(r)
        <5>1. orig < r
          BY <1>2, <1>3, <2>2, <4>1
        <5> QED
          BY <3>1, <4>1, <4>2, <5>1 DEF IInv, Sequence, Passed
      <4>3. CASE r \in Range(flight)
        <5>1. r < orig
          BY <3>1, <4>1, <4>3 DEF IInv, Lists, Behind
        <5> QED
          BY <1>2, <1>3, <2>2, <4>1, <5>1
      <4> QED
        BY <2>2, <4>2, <4>3 DEF Reached
    <3> QED
      BY <1>1, <2>2, <3>1, PassedBarrier
  <2>3. \A r : Ended(r) => Reached(r)
    BY DEF Reached
  <2> QED
    BY <1>5, <2>1, <2>2, <2>3
<1> QED
  BY <1>6, <1>7 DEF BarrierOrder

\* Barriers end in the order in which they were submitted.
LEMMA ImpliesBarriersInOrder ==
    ASSUME IInv
    PROVE  BarriersInOrder
<1> SUFFICES ASSUME NEW b \in Barriers, NEW c \in Barriers, b < c, Ended(c) PROVE Ended(b)
  BY DEF BarriersInOrder
<1>1. b \in Requests /\ c \in Requests /\ NonPc(b) /\ NonPc(c) /\ b \in Int /\ c \in Int
  BY KindFacts, Numbers
<1>2. CASE next_ordered.by # "none"
  BY <1>1, <1>2, KindFacts DEF IInv, EndedAfter, Before, KindsInPlace
<1>3. CASE next_ordered.by = "none"
  <2>1. ~InSequence(b)
    BY <1>3 DEF IInv, Sequence, InSequence
  <2>2. c > b /\ Reached(c)
    BY <1>1 DEF Reached
  <2> QED
    BY <1>1, <2>1, <2>2, PassedBarrier
<1> QED
  BY <1>2, <1>3

-----------------------------------------------------------------------------
(* Theorems *)

\* A request that was submitted is in exactly one place: with the scheduler,
\* once in the queue, with the driver, replaced by the parts of its sequence,
\* or ended.
THEOREM SafetyTypeOK == Spec => []TypeOK
<1>1. IInv => TypeOK
  BY ImpliesTypeOK
<1> QED
  BY <1>1, Invariant, PTL DEF Spec

\* The assertions of blk-barrier.c: no stage is completed twice (BUG_ON in
\* blk_ordered_complete_seq), the head of the queue is never behind its stage
\* (WARN_ON in blk_do_ordered), and by draining a part is with the driver
\* only in its turn.
THEOREM SafetyStagesInTurn == Spec => []StagesInTurn
<1>1. IInv => StagesInTurn
  BY ImpliesStagesInTurn
<1> QED
  BY <1>1, Invariant, PTL DEF Spec

\* Nothing submitted before a barrier comes after it and nothing submitted
\* after it comes before it, by draining and by tag, whatever is completed,
\* fails or is put back in between.
THEOREM SafetyBarrierOrder == Spec => []BarrierOrder
<1>1. IInv => BarrierOrder
  BY ImpliesBarrierOrder
<1> QED
  BY <1>1, Invariant, PTL DEF Spec

\* Barriers end in the order in which they were submitted, in every mode.
THEOREM SafetyBarriersInOrder == Spec => []BarriersInOrder
<1>1. IInv => BarriersInOrder
  BY ImpliesBarriersInOrder
<1> QED
  BY <1>1, Invariant, PTL DEF Spec

\* A barrier is reported as failed exactly if a part of it failed or the
\* queue cannot order: q->orderr never carries over from one sequence to the
\* next.
THEOREM SafetyErrorReported == Spec => []ErrorReported
<1>1. IInv => ErrorReported
  BY DEF IInv, Errors
<1> QED
  BY <1>1, Invariant, PTL DEF Spec
=============================================================================
