----------------------------- MODULE BlkProofs -----------------------------
(***************************************************************************)
(* Theorems about a request queue, for every set of bios and packet        *)
(* commands, every device and every depth of the virtqueue.                *)
(***************************************************************************)
EXTENDS BlkQueue, ListLemmas

-----------------------------------------------------------------------------
(* Lists *)

\* The recursive definition of Without has a solution, and the list it makes
\* has the entries of s that are not in T.
LEMMA WithoutEntries ==
    ASSUME NEW S, NEW s \in Seq(S), NEW T
    PROVE  Without(s, T) \in Seq(S) /\ Range(Without(s, T)) = Range(s) \ T
<1> DEFINE B(f, n) == IF n = 0 THEN << >> ELSE IF s[n] \in T THEN f[n - 1] ELSE Append(f[n - 1], s[n])
           Upto(k) == \E f \in [0 .. k -> Seq(S)] : \A n \in 0 .. k : f[n] = B(f, n)
           Bad == {k \in 0 .. Len(s) : ~Upto(k)}
<1>1. /\ Len(s) \in Nat /\ DOMAIN s = 1 .. Len(s) /\ \A k \in 1 .. Len(s) : s[k] \in S
  BY LenProperties, ElementOfSeq
<1>2. Bad = {}
  <2>1. SUFFICES ASSUME Bad # {} PROVE FALSE
    OBVIOUS
  <2>2. Bad \in SUBSET Nat
    BY <1>1
  <2>3. PICK k \in Bad : \A j \in Bad : k <= j
    BY <2>1, <2>2, MinNat
  <2>4. k \in 0 .. Len(s) /\ ~Upto(k)
    BY <2>3
  <2>5. CASE k = 0
    <3> DEFINE f == [n \in 0 .. 0 |-> << >>]
    <3>1. f \in [0 .. 0 -> Seq(S)]
      OBVIOUS
    <3>2. \A n \in 0 .. 0 : f[n] = B(f, n)
      OBVIOUS
    <3> QED
      BY <2>4, <2>5, <3>1, <3>2
  <2>6. CASE k # 0
    <3>1. k - 1 \in 0 .. Len(s) /\ k - 1 < k /\ k \in 1 .. Len(s)
      BY <1>1, <2>4, <2>6
    <3>2. Upto(k - 1)
      <4> HIDE DEF Upto
      <4>1. k - 1 \notin Bad
        <5> HIDE DEF Bad
        <5> QED  BY <1>1, <2>3, <2>4, <3>1
      <4> QED
        BY <3>1, <4>1
    <3>3. PICK f \in [0 .. k - 1 -> Seq(S)] : \A n \in 0 .. k - 1 : f[n] = B(f, n)
      BY <3>2
    <3> DEFINE g == [n \in 0 .. k |-> IF n = k THEN B(f, k) ELSE f[n]]
    <3>4. B(f, k) \in Seq(S)
      <4>1. f[k - 1] \in Seq(S) /\ s[k] \in S
        BY <1>1, <3>1
      <4> QED
        BY <2>6, <4>1, AppendProperties
    <3>5. g \in [0 .. k -> Seq(S)]
      <4>1. \A n \in 0 .. k : n # k => f[n] \in Seq(S)
        BY <1>1, <3>1
      <4> QED
        BY <3>4, <4>1
    <3>6. ASSUME NEW n \in 0 .. k PROVE g[n] = B(g, n)
      <4>1. n # 0 => n - 1 \in 0 .. k - 1 /\ n - 1 \in 0 .. k /\ n - 1 # k
        BY <3>1
      <4>2. n # 0 => g[n - 1] = f[n - 1]
        BY <4>1
      <4>3. B(g, n) = B(f, n)
        BY <4>2
      <4>4. CASE n = k
        BY <4>3, <4>4
      <4>5. CASE n # k
        <5>1. n \in 0 .. k - 1
          BY <3>1, <4>5
        <5> QED
          BY <3>3, <4>3, <4>5, <5>1
      <4> QED
        BY <4>4, <4>5
    <3> HIDE DEF g, B
    <3> QED
      BY <2>4, <3>5, <3>6
  <2> QED
    BY <2>5, <2>6
<1>3. PICK f \in [0 .. Len(s) -> Seq(S)] : \A n \in 0 .. Len(s) : f[n] = B(f, n)
  <2>1. Upto(Len(s))
    <3> HIDE DEF Upto
    <3> QED  BY <1>1, <1>2
  <2> QED
    BY <2>1
<1>4. f = [n \in 0 .. Len(s) |-> B(f, n)]
  BY <1>3
<1> DEFINE F == CHOOSE g : g = [n \in 0 .. Len(s) |-> B(g, n)]
<1>5. F = [n \in 0 .. Len(s) |-> B(F, n)]
  BY <1>4
<1>6. Without(s, T) = F[Len(s)]
  BY DEF Without
<1> HIDE DEF F
<1> DEFINE Sound(k) == F[k] \in Seq(S) /\ Range(F[k]) = {s[i] : i \in 1 .. k} \ T
           Wrong == {k \in 0 .. Len(s) : ~Sound(k)}
<1>7. ASSUME Wrong # {} PROVE FALSE
  <2>1. Wrong \in SUBSET Nat
    BY <1>1
  <2>2. PICK k \in Wrong : \A j \in Wrong : k <= j
    BY <1>7, <2>1, MinNat
  <2>3. k \in 0 .. Len(s) /\ ~Sound(k)
    BY <2>2
  <2>4. CASE k = 0
    <3>1. F[0] = << >>
      BY <1>1, <1>5
    <3>2. << >> \in Seq(S) /\ Range(<< >>) = {}
      BY ShortLists
    <3>3. {s[i] : i \in 1 .. 0} = {}
      OBVIOUS
    <3> QED
      BY <2>3, <2>4, <3>1, <3>2, <3>3
  <2>5. CASE k # 0
    <3>1. k - 1 \in 0 .. Len(s) /\ k - 1 < k /\ k \in 1 .. Len(s)
      BY <1>1, <2>3, <2>5
    <3>2. Sound(k - 1)
      <4> HIDE DEF Sound
      <4>1. k - 1 \notin Wrong
        <5> HIDE DEF Wrong
        <5> QED  BY <1>1, <2>2, <2>3, <3>1
      <4> QED
        BY <3>1, <4>1
    <3>3. F[k] = IF s[k] \in T THEN F[k - 1] ELSE Append(F[k - 1], s[k])
      BY <1>5, <2>3, <2>5
    <3>4. s[k] \in S
      BY <1>1, <3>1
    <3>5. {s[i] : i \in 1 .. k} = {s[i] : i \in 1 .. k - 1} \cup {s[k]}
      BY <3>1
    <3>6. /\ Append(F[k - 1], s[k]) \in Seq(S)
          /\ Range(Append(F[k - 1], s[k])) = Range(F[k - 1]) \cup {s[k]}
      BY <3>2, <3>4, AppendOrder
    <3> HIDE DEF F
    <3> QED
      BY <2>3, <3>2, <3>3, <3>5, <3>6
  <2> QED
    BY <2>4, <2>5
<1>8. Sound(Len(s))
  <2> HIDE DEF Sound
  <2> QED  BY <1>1, <1>7
<1>9. {s[i] : i \in 1 .. Len(s)} = Range(s)
  BY <1>1 DEF Range
<1> QED
  BY <1>6, <1>8, <1>9

-----------------------------------------------------------------------------
(* Somebody always comes for the requests *)

\* What the owner of the lock may have left to do.
Shapes ==
    { << >>, <<"thresh">>, <<"thresh", "unplug">>, <<"unplug">>, <<"unplug", "unplug">>,
      <<"request_fn">>, <<"request_fn", "unplug">>,
      <<"drain", "addtail", "run", "thresh", "unplug">>,
      <<"addtail", "run", "thresh", "unplug">>, <<"run", "thresh", "unplug">>,
      <<"request_fn", "thresh", "unplug">>, <<"blk_done">>, <<"run">> }

\* Call c is still to be made.
Owed(c) == c \in Range(cs)

\* A plug has somebody who will pull it, and none is on a stopped queue; a
\* stopped queue has a completion to come or being handled; and requests
\* wait for a completion, for the plug or for the owner of the lock.
Served ==
    /\ cs \in Shapes
    /\ plugged => ~stopped /\ (timer \/ work \/ kblockd = "lock" \/ Owed("unplug"))
    /\ stopped => inflight # {} \/ Owed("blk_done")
    /\ ~elv_queue_empty =>
          inflight # {} \/ plugged \/ Owed("request_fn") \/ Owed("run") \/ Owed("blk_done")

\* The entries of each of those lists, its head and its tail.
LEMMA ShapeEntries ==
    /\ Range(<< >>) = {}
    /\ \A a : Range(<<a>>) = {a} /\ Head(<<a>>) = a /\ Tail(<<a>>) = << >>
    /\ \A a, b : Range(<<a, b>>) = {a, b} /\ Head(<<a, b>>) = a /\ Tail(<<a, b>>) = <<b>>
    /\ \A a, b, c : /\ Range(<<a, b, c>>) = {a, b, c}
                    /\ Head(<<a, b, c>>) = a /\ Tail(<<a, b, c>>) = <<b, c>>
    /\ \A a, b, c, d : /\ Range(<<a, b, c, d>>) = {a, b, c, d}
                       /\ Head(<<a, b, c, d>>) = a /\ Tail(<<a, b, c, d>>) = <<b, c, d>>
    /\ \A a, b, c, d, e : /\ Range(<<a, b, c, d, e>>) = {a, b, c, d, e}
                          /\ Head(<<a, b, c, d, e>>) = a
                          /\ Tail(<<a, b, c, d, e>>) = <<b, c, d, e>>
<1>1. Range(<< >>) = {}
  BY DEF Range
<1>2. ASSUME NEW a PROVE Range(<<a>>) = {a} /\ Head(<<a>>) = a /\ Tail(<<a>>) = << >>
  BY DEF Range
<1>3. ASSUME NEW a, NEW b
      PROVE  Range(<<a, b>>) = {a, b} /\ Head(<<a, b>>) = a /\ Tail(<<a, b>>) = <<b>>
  BY DEF Range
<1>4. ASSUME NEW a, NEW b, NEW c
      PROVE  /\ Range(<<a, b, c>>) = {a, b, c}
             /\ Head(<<a, b, c>>) = a /\ Tail(<<a, b, c>>) = <<b, c>>
  BY DEF Range
<1>5. ASSUME NEW a, NEW b, NEW c, NEW d
      PROVE  /\ Range(<<a, b, c, d>>) = {a, b, c, d}
             /\ Head(<<a, b, c, d>>) = a /\ Tail(<<a, b, c, d>>) = <<b, c, d>>
  BY DEF Range
<1>6. ASSUME NEW a, NEW b, NEW c, NEW d, NEW e
      PROVE  /\ Range(<<a, b, c, d, e>>) = {a, b, c, d, e}
             /\ Head(<<a, b, c, d, e>>) = a /\ Tail(<<a, b, c, d, e>>) = <<b, c, d, e>>
  BY DEF Range
<1> QED
  BY <1>1, <1>2, <1>3, <1>4, <1>5, <1>6

\* A call put in front of a list.
LEMMA ShapeFronts ==
    /\ \A a : <<a>> \o << >> = <<a>>
    /\ \A a, b : <<a>> \o <<b>> = <<a, b>>
    /\ \A a, b, c : <<a>> \o <<b, c>> = <<a, b, c>>
<1>1. ASSUME NEW a PROVE <<a>> \o << >> = <<a>>
  OBVIOUS
<1>2. ASSUME NEW a, NEW b PROVE <<a>> \o <<b>> = <<a, b>>
  <2> DEFINE S == {a, b}
             s == <<a>>
             t == <<b>>
             u == <<a, b>>
  <2>1. /\ s \in Seq(S) /\ Len(s) = 1 /\ s[1] = a
        /\ t \in Seq(S) /\ Len(t) = 1 /\ t[1] = b
        /\ u \in Seq(S) /\ Len(u) = 2 /\ u[1] = a /\ u[2] = b
    OBVIOUS
  <2> HIDE DEF S, s, t, u
  <2>2. /\ s \o t \in Seq(S) /\ Len(s \o t) = 2
        /\ \A i \in 1 .. 2 : (s \o t)[i] = IF i <= 1 THEN s[i] ELSE t[i - 1]
    BY <2>1, ConcatProperties
  <2>3. \A i \in 1 .. 2 : (s \o t)[i] = u[i]
    BY <2>1, <2>2
  <2>4. s \o t = u
    BY <2>1, <2>2, <2>3, SeqEqual
  <2> QED
    BY <2>4 DEF s, t, u
<1>3. ASSUME NEW a, NEW b, NEW c PROVE <<a>> \o <<b, c>> = <<a, b, c>>
  <2> DEFINE S == {a, b, c}
             s == <<a>>
             t == <<b, c>>
             u == <<a, b, c>>
  <2>1. /\ s \in Seq(S) /\ Len(s) = 1 /\ s[1] = a
        /\ t \in Seq(S) /\ Len(t) = 2 /\ t[1] = b /\ t[2] = c
        /\ u \in Seq(S) /\ Len(u) = 3 /\ u[1] = a /\ u[2] = b /\ u[3] = c
    OBVIOUS
  <2> HIDE DEF S, s, t, u
  <2>2. /\ s \o t \in Seq(S) /\ Len(s \o t) = 3
        /\ \A i \in 1 .. 3 : (s \o t)[i] = IF i <= 1 THEN s[i] ELSE t[i - 1]
    <3>1. /\ s \o t \in Seq(S) /\ Len(s \o t) = Len(s) + Len(t)
          /\ \A i \in 1 .. Len(s) + Len(t) : (s \o t)[i] = IF i <= Len(s) THEN s[i] ELSE t[i - Len(s)]
      BY <2>1, ConcatProperties
    <3>2. Len(s) + Len(t) = 3
      BY <2>1
    <3> QED
      BY <2>1, <3>1, <3>2
  <2>3. \A i \in 1 .. 3 : (s \o t)[i] = u[i]
    BY <2>1, <2>2
  <2>4. s \o t = u
    BY <2>1, <2>2, <2>3, SeqEqual
  <2> QED
    BY <2>4 DEF s, t, u
<1> QED
  BY <1>1, <1>2, <1>3

\* Which lists start with which call.
LEMMA ShapeHeads ==
    ASSUME cs \in Shapes
    PROVE  /\ Calling("drain") => cs = <<"drain", "addtail", "run", "thresh", "unplug">>
           /\ Calling("addtail") => cs = <<"addtail", "run", "thresh", "unplug">>
           /\ Calling("run") => cs \in {<<"run", "thresh", "unplug">>, <<"run">>}
           /\ Calling("thresh") => cs \in {<<"thresh">>, <<"thresh", "unplug">>}
           /\ Calling("unplug") => cs \in {<<"unplug">>, <<"unplug", "unplug">>}
           /\ Calling("request_fn") => cs \in {<<"request_fn">>, <<"request_fn", "unplug">>,
                                               <<"request_fn", "thresh", "unplug">>}
           /\ Calling("blk_done") => cs = <<"blk_done">>
  BY ShapeEntries DEF Shapes, Calling

LEMMA ServedInit == Init => Served
  BY ShapeEntries DEF Init, Served, Shapes, Owed, elv_queue_empty

\* Steps of submitters.
LEMMA ServedSubmitter ==
    ASSUME Served, NEW x \in Reqs, Submitter(x)
    PROVE  Served'
<1>1. ASSUME NEW b \in Bios, OutCalls(b) = << >> \/ OutCalls(b) = <<"unplug">>,
             cs = << >>, cs' = OutCalls(b) \/ cs' = << >>, ~elv_queue_empty \/ elv_queue_empty',
             UNCHANGED <<inflight, plugging>>
      PROVE  Served'
  BY <1>1, ShapeEntries DEF Served, Shapes, Owed, plugging
<1>2. ASSUME NEW b \in Bios PROVE OutCalls(b) = << >> \/ OutCalls(b) = <<"unplug">>
  BY DEF OutCalls
<1>3. ASSUME NEW b \in Bios, BackMerge(b) PROVE Served'
  BY <1>1, <1>2, <1>3 DEF BackMerge
<1>4. ASSUME NEW b \in Bios, FrontMerge(b) PROVE Served'
  BY <1>1, <1>2, <1>4 DEF FrontMerge
<1>5. ASSUME NEW b \in Bios, get_request(b) PROVE Served'
  <2>1. elv_queue_empty' <=> elv_queue_empty
    BY <1>5 DEF get_request, sched, elv_queue_empty
  <2> QED
    BY <1>1, <1>2, <1>5, <2>1 DEF get_request
<1>6. ASSUME NEW b \in Bios, add_request(b) PROVE Served'
  <2>1. cs = << >> /\ inflight' = inflight /\ cs' = <<"thresh">> \o OutCalls(b)
    BY <1>6 DEF add_request
  <2>2. cs' = <<"thresh">> \/ cs' = <<"thresh", "unplug">>
    BY <1>2, <2>1, ShapeFronts
  <2>3. CASE elv_queue_empty
    <3>1. blk_plug_device
      BY <1>6, <2>3 DEF add_request
    <3> QED
      BY <2>1, <2>2, <3>1, ShapeEntries DEF blk_plug_device, Served, Shapes, Owed
  <2>4. CASE ~elv_queue_empty
    <3>1. UNCHANGED plugging
      BY <1>6, <2>4 DEF add_request
    <3> QED
      BY <2>1, <2>2, <2>4, <3>1, ShapeEntries DEF plugging, Served, Shapes, Owed
  <2> QED
    BY <2>3, <2>4
<1>7. ASSUME NEW p \in Pcs, blk_get_request(p) PROVE Served'
  <2>1. elv_queue_empty' <=> elv_queue_empty
    BY <1>7 DEF blk_get_request, sched, elv_queue_empty
  <2> QED
    BY <1>7, <2>1 DEF blk_get_request, plugging, Served, Owed
<1>8. ASSUME NEW p \in Pcs, NEW h \in BOOLEAN, blk_execute_rq_nowait(p, h) PROVE Served'
  <2>1. cs = << >> /\ inflight' = inflight /\ blk_plug_device
    BY <1>8 DEF blk_execute_rq_nowait
  <2>2. \/ cs' = <<"thresh", "unplug">>
        \/ cs' = <<"drain", "addtail", "run", "thresh", "unplug">>
    BY <1>8 DEF blk_execute_rq_nowait
  <2> QED
    BY <2>1, <2>2, ShapeEntries DEF blk_plug_device, Served, Shapes, Owed
<1> QED
  BY <1>3, <1>4, <1>5, <1>6, <1>7, <1>8 DEF Submitter

\* Steps of the owner of the lock.
LEMMA ServedOwner ==
    ASSUME Served, LockOwner
    PROVE  Served'
<1>1. CASE DrainPass
  <2>1. Calling("drain") /\ UNCHANGED <<inflight, plugging, cs>>
    BY <1>1 DEF DrainPass
  <2>2. cs = <<"drain", "addtail", "run", "thresh", "unplug">>
    BY <2>1, ShapeHeads DEF Served
  <2> QED
    BY <2>1, <2>2, ShapeEntries DEF plugging, Served, Shapes, Owed
<1>2. CASE DrainEnd
  <2>1. Calling("drain") /\ UNCHANGED <<inflight, plugging>> /\ cs' = Tail(cs)
    BY <1>2 DEF DrainEnd, Return
  <2>2. cs = <<"drain", "addtail", "run", "thresh", "unplug">>
    BY <2>1, ShapeHeads DEF Served
  <2>3. cs' = <<"addtail", "run", "thresh", "unplug">>
    BY <2>1, <2>2, ShapeEntries
  <2> QED
    BY <2>1, <2>2, <2>3, ShapeEntries DEF plugging, Served, Shapes, Owed
<1>3. CASE AddTail
  <2>1. Calling("addtail") /\ UNCHANGED <<inflight, plugging>> /\ cs' = Tail(cs)
    BY <1>3 DEF AddTail, Return
  <2>2. cs = <<"addtail", "run", "thresh", "unplug">>
    BY <2>1, ShapeHeads DEF Served
  <2>3. cs' = <<"run", "thresh", "unplug">>
    BY <2>1, <2>2, ShapeEntries
  <2> QED
    BY <2>1, <2>2, <2>3, ShapeEntries DEF plugging, Served, Shapes, Owed
<1>4. CASE __blk_run_queue
  <2>1. /\ Calling("run") /\ UNCHANGED <<inflight, stopped, work, kblockd>>
        /\ plugged' = FALSE /\ timer' = (timer /\ ~plugged)
        /\ cs' = IF stopped \/ elv_queue_empty THEN Tail(cs) ELSE <<"request_fn">> \o Tail(cs)
        /\ (elv_queue_empty' <=> elv_queue_empty)
    BY <1>4 DEF __blk_run_queue, blk_remove_plug, elv_queue_empty, sched
  <2>2. cs \in {<<"run", "thresh", "unplug">>, <<"run">>}
    BY <2>1, ShapeHeads DEF Served
  <2>5. /\ Tail(cs) \in {<<"thresh", "unplug">>, << >>}
        /\ <<"request_fn">> \o Tail(cs) \in {<<"request_fn", "thresh", "unplug">>, <<"request_fn">>}
    <3>1. CASE cs = <<"run">>
      BY <3>1, ShapeFronts
    <3>2. CASE cs = <<"run", "thresh", "unplug">>
      BY <3>2, ShapeFronts
    <3> QED
      BY <2>2, <3>1, <3>2
  <2>3. \/ (stopped \/ elv_queue_empty) /\ cs' \in {<<"thresh", "unplug">>, << >>}
        \/ cs' \in {<<"request_fn", "thresh", "unplug">>, <<"request_fn">>}
    BY <2>1, <2>5
  <2>4. stopped => inflight # {}
    BY <2>2, ShapeEntries DEF Served, Owed
  <2>6. CASE (stopped \/ elv_queue_empty) /\ cs' \in {<<"thresh", "unplug">>, << >>}
    <3>1. stopped' => inflight' # {}
      BY <2>1, <2>4
    <3>2. cs' \in Shapes
      BY <2>6 DEF Shapes
    <3>3. ~elv_queue_empty' => inflight' # {}
      BY <2>1, <2>4, <2>6
    <3> QED
      BY <2>1, <3>1, <3>2, <3>3 DEF Served
  <2>7. CASE cs' \in {<<"request_fn", "thresh", "unplug">>, <<"request_fn">>}
    <3>1. stopped' => inflight' # {}
      BY <2>1, <2>4
    <3>2. cs' \in Shapes
      BY <2>7 DEF Shapes
    <3>3. Owed("request_fn")'
      BY <2>7, ShapeEntries DEF Owed
    <3> QED
      BY <2>1, <3>1, <3>2, <3>3 DEF Served
  <2> QED
    BY <2>3, <2>6, <2>7
<1>5. CASE UnplugThreshold
  <2>1. /\ Calling("thresh") /\ UNCHANGED <<inflight, plugging>>
        /\ cs' = Tail(cs) \/ cs' = <<"unplug">> \o Tail(cs)
        /\ (elv_queue_empty' <=> elv_queue_empty)
    BY <1>5 DEF UnplugThreshold, elv_queue_empty, sched
  <2>2. cs \in {<<"thresh">>, <<"thresh", "unplug">>}
    BY <2>1, ShapeHeads DEF Served
  <2>3. \/ cs = <<"thresh">> /\ cs' \in {<< >>, <<"unplug">>}
        \/ cs = <<"thresh", "unplug">> /\ cs' \in {<<"unplug">>, <<"unplug", "unplug">>}
    BY <2>1, <2>2, ShapeEntries
  <2> QED
    BY <2>1, <2>3, ShapeEntries DEF plugging, Served, Shapes, Owed
<1>6. CASE __generic_unplug_device
  <2>1. /\ Calling("unplug") /\ UNCHANGED <<inflight, stopped, work, kblockd>>
        /\ \/ (stopped \/ ~plugged) /\ cs' = Tail(cs) /\ UNCHANGED <<plugged, timer>>
           \/ plugged' = FALSE /\ timer' = (timer /\ ~plugged) /\ cs' = <<"request_fn">> \o Tail(cs)
        /\ (elv_queue_empty' <=> elv_queue_empty)
    BY <1>6 DEF __generic_unplug_device, Return, blk_remove_plug, elv_queue_empty, sched
  <2>2. cs \in {<<"unplug">>, <<"unplug", "unplug">>}
    BY <2>1, ShapeHeads DEF Served
  <2>3. Tail(cs) \in {<< >>, <<"unplug">>}
        /\ <<"request_fn">> \o Tail(cs) \in {<<"request_fn">>, <<"request_fn", "unplug">>}
    <3>1. CASE cs = <<"unplug">>
      BY <3>1, ShapeFronts
    <3>2. CASE cs = <<"unplug", "unplug">>
      BY <3>2, ShapeFronts
    <3> QED
      BY <2>2, <3>1, <3>2
  <2> QED
    BY <2>1, <2>2, <2>3, ShapeEntries DEF Served, Shapes, Owed
<1>7. CASE PeekAsksLook
  <2>1. Calling("request_fn") /\ UNCHANGED <<inflight, plugging, cs>>
    BY <1>7 DEF PeekAsksLook
  <2>2. Owed("request_fn")
    BY <2>1, ShapeHeads, ShapeEntries DEF Served, Owed
  <2> QED
    BY <2>1, <2>2 DEF plugging, Served, Owed
<1>8. CASE IssueRequest
  <2>1. UNCHANGED <<plugging, cs>> /\ inflight' # {}
    BY <1>8 DEF IssueRequest
  <2> QED
    BY <2>1 DEF plugging, Served, Owed
<1>9. CASE StopQueue
  <2>1. /\ Calling("request_fn") /\ inflight # {} /\ UNCHANGED <<inflight, work, kblockd>>
        /\ plugged' = FALSE /\ timer' = (timer /\ ~plugged) /\ stopped' = TRUE
        /\ cs' = Tail(cs)
    BY <1>9 DEF StopQueue, Return, blk_remove_plug, DoReqFails
  <2>2. cs' \in Shapes
    <3>1. cs \in {<<"request_fn">>, <<"request_fn", "unplug">>, <<"request_fn", "thresh", "unplug">>}
      BY <2>1, ShapeHeads DEF Served
    <3>2. CASE cs = <<"request_fn">>
      BY <2>1, <3>2 DEF Shapes
    <3>3. CASE cs = <<"request_fn", "unplug">>
      BY <2>1, <3>3 DEF Shapes
    <3>4. CASE cs = <<"request_fn", "thresh", "unplug">>
      BY <2>1, <3>4 DEF Shapes
    <3> QED
      BY <3>1, <3>2, <3>3, <3>4
  <2> QED
    BY <2>1, <2>2 DEF Served, Owed
<1>10. CASE RequestFnEnd
  <2>1. /\ Calling("request_fn") /\ UNCHANGED <<inflight, plugging>> /\ cs' = Tail(cs)
        /\ elv_queue_empty' 
    BY <1>10 DEF RequestFnEnd, Return, elv_queue_empty, sched
  <2>2. /\ cs' \in Shapes
        /\ \A c \in {"unplug", "blk_done"} : c \in Range(cs) <=> c \in Range(cs')
    <3>1. cs \in {<<"request_fn">>, <<"request_fn", "unplug">>, <<"request_fn", "thresh", "unplug">>}
      BY <2>1, ShapeHeads DEF Served
    <3>2. CASE cs = <<"request_fn">>
      <4>1. cs' = << >>
        BY <2>1, <3>2
      <4> QED  BY <3>2, <4>1, ShapeEntries DEF Shapes
    <3>3. CASE cs = <<"request_fn", "unplug">>
      <4>1. cs' = <<"unplug">>
        BY <2>1, <3>3
      <4> QED  BY <3>3, <4>1, ShapeEntries DEF Shapes
    <3>4. CASE cs = <<"request_fn", "thresh", "unplug">>
      <4>1. cs' = <<"thresh", "unplug">>
        BY <2>1, <3>4
      <4> QED  BY <3>4, <4>1, ShapeEntries DEF Shapes
    <3> QED
      BY <3>1, <3>2, <3>3, <3>4
  <2> QED
    BY <2>1, <2>2 DEF plugging, Served, Owed
<1>11. CASE BlkDoneEnd
  <2>1. /\ Calling("blk_done") /\ UNCHANGED <<inflight, plugged, timer, work, kblockd>>
        /\ stopped' = FALSE /\ cs' = <<"run">>
    BY <1>11 DEF BlkDoneEnd
  <2>2. cs = <<"blk_done">>
    BY <2>1, ShapeHeads DEF Served
  <2> QED
    BY <2>1, <2>2, ShapeEntries DEF Served, Shapes, Owed
<1> QED
  BY <1>1, <1>2, <1>3, <1>4, <1>5, <1>6, <1>7, <1>8, <1>9, <1>10, <1>11 DEF LockOwner

LEMMA ServedStep == Served /\ [Next]_vars => Served'
<1> SUFFICES ASSUME Served, [Next]_vars PROVE Served'
  OBVIOUS
<1>1. ASSUME NEW r \in inflight, blk_done(r) PROVE Served'
  <2>1. /\ cs = << >> \/ Calling("blk_done")
        /\ UNCHANGED plugging /\ cs' = <<"blk_done">>
    BY <1>1 DEF blk_done
  <2>2. cs \in {<< >>, <<"blk_done">>}
    BY <2>1, ShapeHeads DEF Served
  <2> QED
    BY <2>1, <2>2, ShapeEntries DEF plugging, Served, Shapes, Owed
<1>2. CASE blk_unplug_timeout
  <2>1. elv_queue_empty' <=> elv_queue_empty
    BY <1>2 DEF blk_unplug_timeout, elv_queue_empty, sched
  <2> QED
    BY <1>2, <2>1 DEF blk_unplug_timeout, Served, Owed
<1>3. CASE blk_unplug_work
  <2>1. elv_queue_empty' <=> elv_queue_empty
    BY <1>3 DEF blk_unplug_work, elv_queue_empty, sched
  <2> QED
    BY <1>3, <2>1 DEF blk_unplug_work, Served, Owed
<1>4. CASE generic_unplug_device
  <2>1. elv_queue_empty' <=> elv_queue_empty
    BY <1>4 DEF generic_unplug_device, elv_queue_empty, sched
  <2> QED
    BY <1>4, <2>1, ShapeEntries DEF generic_unplug_device, Served, Shapes, Owed
<1>5. CASE blk_unplug
  <2>1. elv_queue_empty' <=> elv_queue_empty
    BY <1>5 DEF blk_unplug, elv_queue_empty, sched
  <2> QED
    BY <1>5, <2>1, ShapeEntries DEF blk_unplug, plugging, Served, Shapes, Owed
<1>6. CASE UNCHANGED vars
  BY <1>6 DEF vars, Served, Owed, elv_queue_empty
<1> QED
  BY <1>1, <1>2, <1>3, <1>4, <1>5, <1>6, ServedSubmitter, ServedOwner DEF Next, Finished

\* A waiting request is never forgotten: while the lock is free, the plug
\* with its timer or kblockd, or a completion, is on the way.
THEOREM SafetyNoStall == Safety => []NoStall
<1>1. Served => NoStall
  BY ShapeEntries DEF Served, NoStall, Owed
<1> QED
  BY <1>1, ServedInit, ServedStep, PTL DEF Safety

-----------------------------------------------------------------------------
(* The inductive invariant of the queue *)

Flags == {"free", "pc", "nomerge", "started", "soft"}

Rq == [bios : Seq(Bios), pos : 0 .. MaxSector, len : 0 .. Capacity,
       rw : {"read", "write"}, flags : SUBSET Flags]

HashEntry == [rq : Bios, slot : 0 .. HashEntries - 1]

\* The bios of s are one stretch of sectors.
Contiguous(s) ==
    \A i \in 1 .. Len(s) - 1 : bio[s[i]].sector + bio[s[i]].size = bio[s[i + 1]].sector

\* A request of the file system: its extent is that of its bios.
FsRq(q) ==
    /\ q.flags \subseteq {"nomerge", "started"}
    /\ q.bios # << >>
    /\ q.pos = bio[Head(q.bios)].sector
    /\ RqEnd(q) = bio[Last(q.bios)].sector + bio[Last(q.bios)].size
    /\ Contiguous(q.bios)
    /\ \A b \in Range(q.bios) : bio[b].rw = q.rw
    /\ q.len > 0 /\ RqEnd(q) <= Capacity

\* A packet command.
PcRq(q) ==
    /\ q.flags \subseteq {"pc", "soft", "started"} /\ "pc" \in q.flags
    /\ q.bios = << >> /\ q.pos = MaxSector /\ q.len = 0

RqsOK(m) ==
    /\ m \in [Reqs -> Rq]
    /\ \A b \in Bios : m[b] # NoRq => FsRq(m[b])
    /\ \A p \in Pcs : m[p] # NoRq => PcRq(m[p])

\* Which requests carry which bios, s being where the bios are.
Carry(m, s) ==
    /\ \A b \in Bios : m[b] # NoRq => b \in Range(m[b].bios)
    /\ \A r, x \in Reqs : r # x => Range(m[r].bios) \cap Range(m[x].bios) = {}
    /\ \A r \in Reqs : Once(m[r].bios)
    /\ \A r \in Reqs : \A b \in Range(m[r].bios) :
          s[b] = "queued" \/ (s[b] = "getrq" /\ r = b)
    /\ \A b \in Bios : s[b] \in {"getrq", "queued"} => \E r \in Reqs : b \in Range(m[r].bios)

\* An allocated request is in one place, and has been queued unless its
\* submitter has it.
Places ==
    /\ \A r \in Range(look) : r \notin Range(queue_head) /\ r \notin inflight /\ st[r] = "queued"
    /\ \A r \in Range(queue_head) : r \notin inflight /\ st[r] = "queued"
    /\ \A r \in inflight : st[r] = "queued"
    /\ \A r \in Reqs : rqs[r] # NoRq <=>
          \/ r \in Range(look) \/ r \in Range(queue_head) \/ r \in inflight
          \/ st[r] \in {"getrq", "insert"}
    /\ Once(look) /\ Once(queue_head)

\* The merge caches, m being the requests.
Fresh(m, l, h) ==
    /\ \A e \in Range(h) : e.rq \in Range(l) /\ e.slot = ELV_HASH_FN(RqEnd(m[e.rq]))
    /\ \A r \in Range(l) : rq_mergeable(m[r]) => \E e \in Range(h) : e.rq = r

Caches ==
    /\ Fresh(rqs, look, hash)
    /\ last_merge \in Range(look) \cup {NULL}
    /\ nr_sorted = Len(look)

Types ==
    /\ bio \in Workloads
    /\ st \in [Reqs -> {"new", "getrq", "insert", "queued", "done"}]
    /\ \A b \in Bios : st[b] # "insert"
    /\ look \in Seq(Bios) /\ cur_pos \in 0 .. Capacity /\ dir \in {Up, Down}
    /\ queue_head \in Seq(Reqs) /\ inflight \subseteq Reqs
    /\ hash \in Seq(HashEntry)
    /\ end_sector \in 0 .. MaxSector
    /\ before \in [Pcs -> (SUBSET Bios) \cup {NULL}]

QInv == Types /\ RqsOK(rqs) /\ Carry(rqs, st) /\ Places /\ Caches

-----------------------------------------------------------------------------
(* One request *)

LEMMA BioFacts ==
    ASSUME bio \in Workloads
    PROVE  /\ Capacity \in Nat /\ Capacity > 0 /\ MaxSector = Capacity + 1
           /\ \A b \in Bios : /\ bio[b].sector \in Nat /\ bio[b].size \in Nat
                              /\ bio[b].size > 0 /\ bio[b].sector + bio[b].size <= Capacity
                              /\ bio[b].rw \in {"read", "write"}
<1>1. bio \in [Bios -> BioInfo]
  BY QueueAssumption
<1>2. \A b \in Bios : bio[b] \in BioInfo
  BY <1>1
<1> QED
  BY <1>2, QueueAssumption DEF BioInfo, MaxSector

LEMMA RqFields ==
    ASSUME bio \in Workloads, NEW q \in Rq
    PROVE  /\ q.bios \in Seq(Bios) /\ q.pos \in Nat /\ q.len \in Nat /\ RqEnd(q) = q.pos + q.len
           /\ q.pos <= MaxSector /\ q.len <= Capacity
           /\ q.rw \in {"read", "write"} /\ q.flags \subseteq Flags
           /\ q = [bios |-> q.bios, pos |-> q.pos, len |-> q.len, rw |-> q.rw, flags |-> q.flags]
  BY BioFacts DEF Rq, RqEnd

LEMMA RqIntro ==
    ASSUME bio \in Workloads, NEW s \in Seq(Bios), NEW p \in Nat, NEW n \in Nat,
           p <= MaxSector, n <= Capacity, NEW w \in {"read", "write"}, NEW f \in SUBSET Flags
    PROVE  [bios |-> s, pos |-> p, len |-> n, rw |-> w, flags |-> f] \in Rq
<1>1. p \in 0 .. MaxSector /\ n \in 0 .. Capacity
  BY BioFacts
<1> QED
  BY <1>1 DEF Rq

\* A structure that is free is of no kind, and carries nothing.
LEMMA FreeRq ==
    ASSUME bio \in Workloads
    PROVE  /\ NoRq \in Rq /\ ~FsRq(NoRq) /\ ~PcRq(NoRq)
           /\ Range(NoRq.bios) = {} /\ Once(NoRq.bios)
<1>1. << >> \in Seq(Bios) /\ Range(<< >>) = {} /\ Once(<< >>)
  BY ShortLists DEF Once
<1>2. NoRq \in Rq
  <2>1. 0 \in 0 .. MaxSector /\ 0 \in 0 .. Capacity
    BY BioFacts
  <2>2. {"free"} \in SUBSET Flags
    BY DEF Flags
  <2> QED
    BY <1>1, <2>1, <2>2 DEF NoRq, Rq
<1>3. ~FsRq(NoRq) /\ ~PcRq(NoRq)
  BY DEF NoRq, FsRq, PcRq
<1> QED
  BY <1>1, <1>2, <1>3 DEF NoRq

\* The request get_request makes of a bio.
LEMMA OneBio ==
    ASSUME bio \in Workloads, NEW b \in Bios
    PROVE  /\ BioRequest(b) \in Rq /\ FsRq(BioRequest(b))
           /\ BioRequest(b).bios = <<b>> /\ Range(BioRequest(b).bios) = {b}
           /\ Once(BioRequest(b).bios)
<1>1. <<b>> \in Seq(Bios) /\ Range(<<b>>) = {b} /\ Once(<<b>>)
  BY ShortLists DEF Once
<1>2. /\ bio[b].sector \in Nat /\ bio[b].size \in Nat /\ bio[b].size > 0
      /\ bio[b].sector + bio[b].size <= Capacity /\ bio[b].rw \in {"read", "write"}
      /\ Capacity \in Nat /\ MaxSector = Capacity + 1
  BY BioFacts
<1>3. BioRequest(b) \in Rq
  <2>1. bio[b].sector \in 0 .. MaxSector /\ bio[b].size \in 0 .. Capacity
    BY <1>2
  <2>2. {} \in SUBSET Flags
    OBVIOUS
  <2> QED
    BY <1>1, <1>2, <2>1, <2>2 DEF BioRequest, Rq
<1>4. Head(<<b>>) = b /\ Last(<<b>>) = b /\ Len(<<b>>) = 1 /\ <<b>> # << >>
  BY DEF Last
<1>5. Contiguous(<<b>>)
  BY <1>4 DEF Contiguous
<1> DEFINE q == BioRequest(b)
<1>6. /\ q.bios = <<b>> /\ q.pos = bio[b].sector /\ q.len = bio[b].size /\ q.rw = bio[b].rw
      /\ q.flags = {}
  BY DEF BioRequest
<1> HIDE DEF q
<1>7. FsRq(q)
  BY <1>1, <1>2, <1>4, <1>5, <1>6 DEF FsRq, RqEnd
<1> QED
  BY <1>1, <1>3, <1>6, <1>7 DEF q

\* What becomes of a request e when f, which starts where e ends, is added
\* to it: a bio at its end, a bio in front of it, or another request.
Fused(e, f, fl) ==
    [bios |-> e.bios \o f.bios, pos |-> e.pos, len |-> e.len + f.len, rw |-> e.rw, flags |-> fl]

LEMMA FusedList ==
    ASSUME NEW s \in Seq(Bios), NEW t \in Seq(Bios), s # << >>, t # << >>,
           Contiguous(s), Contiguous(t),
           bio[Last(s)].sector + bio[Last(s)].size = bio[Head(t)].sector
    PROVE  /\ Contiguous(s \o t) /\ s \o t # << >>
           /\ Head(s \o t) = Head(s) /\ Last(s \o t) = Last(t)
<1>1. Len(s) \in Nat /\ Len(t) \in Nat /\ Len(s) > 0 /\ Len(t) > 0
  BY EmptySeq, LenProperties
<1> DEFINE u == s \o t
<1>2. /\ u \in Seq(Bios) /\ Len(u) = Len(s) + Len(t)
      /\ \A k \in 1 .. Len(s) + Len(t) : u[k] = IF k <= Len(s) THEN s[k] ELSE t[k - Len(s)]
  BY ConcatProperties
<1> HIDE DEF u
<1>3. u[1] = s[1] /\ u[Len(u)] = t[Len(t)] /\ u # << >>
  BY <1>1, <1>2
<1>4. ASSUME NEW i \in 1 .. Len(u) - 1
      PROVE  bio[u[i]].sector + bio[u[i]].size = bio[u[i + 1]].sector
  <2>1. CASE i < Len(s)
    <3>1. i \in 1 .. Len(s) - 1 /\ u[i] = s[i] /\ u[i + 1] = s[i + 1]
      BY <1>1, <1>2, <2>1
    <3> QED
      BY <3>1 DEF Contiguous
  <2>2. CASE i = Len(s)
    <3>1. u[i] = s[Len(s)] /\ u[i + 1] = t[1]
      <4>1. /\ i \in 1 .. Len(s) + Len(t) /\ i <= Len(s)
            /\ i + 1 \in 1 .. Len(s) + Len(t) /\ ~(i + 1 <= Len(s)) /\ (i + 1) - Len(s) = 1
        BY <1>1, <2>2
      <4> QED
        BY <1>2, <2>2, <4>1
    <3> QED
      BY <3>1 DEF Last
  <2>3. CASE i > Len(s)
    <3>1. /\ i - Len(s) \in 1 .. Len(t) - 1
          /\ u[i] = t[i - Len(s)] /\ u[i + 1] = t[(i - Len(s)) + 1]
      BY <1>1, <1>2, <2>3
    <3> QED
      BY <3>1 DEF Contiguous
  <2> QED
    BY <1>1, <1>2, <2>1, <2>2, <2>3
<1>5. Contiguous(u)
  BY <1>4 DEF Contiguous
<1>6. Head(u) = u[1] /\ Head(s) = s[1] /\ Last(u) = u[Len(u)] /\ Last(t) = t[Len(t)]
  BY <1>2, <1>3 DEF Last
<1> QED
  BY <1>3, <1>5, <1>6 DEF u

LEMMA FusedRq ==
    ASSUME bio \in Workloads, NEW e \in Rq, NEW f \in Rq, FsRq(e), FsRq(f),
           RqEnd(e) = f.pos, e.rw = f.rw,
           Once(e.bios), Once(f.bios), Range(e.bios) \cap Range(f.bios) = {},
           NEW fl \in SUBSET {"nomerge", "started"}
    PROVE  /\ Fused(e, f, fl) \in Rq /\ FsRq(Fused(e, f, fl))
           /\ Range(Fused(e, f, fl).bios) = Range(e.bios) \cup Range(f.bios)
           /\ Once(Fused(e, f, fl).bios)
           /\ RqEnd(Fused(e, f, fl)) = RqEnd(f)
<1> DEFINE s == e.bios
           t == f.bios
           u == s \o t
           g == Fused(e, f, fl)
<1>1. /\ s \in Seq(Bios) /\ t \in Seq(Bios)
      /\ e.pos \in Nat /\ e.len \in Nat /\ f.pos \in Nat /\ f.len \in Nat
      /\ RqEnd(e) = e.pos + e.len /\ RqEnd(f) = f.pos + f.len
      /\ e.pos <= MaxSector /\ e.rw \in {"read", "write"}
  BY RqFields
<1>2. Capacity \in Nat /\ RqEnd(f) <= Capacity
  BY BioFacts DEF FsRq
<1>3. /\ g.bios = u /\ g.pos = e.pos /\ g.len = e.len + f.len /\ g.rw = e.rw /\ g.flags = fl
      /\ g = [bios |-> u, pos |-> e.pos, len |-> e.len + f.len, rw |-> e.rw, flags |-> fl]
  BY DEF Fused
<1>4. e.len + f.len \in Nat /\ e.len + f.len <= Capacity /\ fl \in SUBSET Flags
  <2>1. e.len + f.len \in Nat /\ e.len + f.len <= Capacity
    <3>1. \A a, b, c, d, k \in Nat : a + b = c /\ c + d <= k => b + d \in Nat /\ b + d <= k
      OBVIOUS
    <3>2. e.pos + e.len = f.pos /\ f.pos + f.len <= Capacity
      BY <1>1, <1>2
    <3> QED
      BY <1>1, <1>2, <3>1, <3>2
  <2>2. fl \in SUBSET Flags
    BY DEF Flags
  <2> QED
    BY <2>1, <2>2
<1>5. /\ u \in Seq(Bios) /\ Range(u) = Range(s) \cup Range(t)
      /\ \A x, y : Prec(u, x, y) <=> Prec(s, x, y) \/ Prec(t, x, y) \/ (x \in Range(s) /\ y \in Range(t))
  BY <1>1, ConcatOrder
<1>6. /\ s # << >> /\ t # << >> /\ Contiguous(s) /\ Contiguous(t)
      /\ e.pos = bio[Head(s)].sector /\ f.pos = bio[Head(t)].sector
      /\ RqEnd(e) = bio[Last(s)].sector + bio[Last(s)].size
      /\ RqEnd(f) = bio[Last(t)].sector + bio[Last(t)].size
      /\ \A b \in Range(s) : bio[b].rw = e.rw
      /\ \A b \in Range(t) : bio[b].rw = f.rw
      /\ e.len > 0 /\ f.len > 0
  BY DEF FsRq
<1>7. /\ Contiguous(u) /\ u # << >> /\ Head(u) = Head(s) /\ Last(u) = Last(t)
  <2> HIDE DEF s, t
  <2> QED  BY <1>1, <1>6, FusedList
<1> HIDE DEF u, g, s, t
<1>8. g \in Rq
  BY <1>1, <1>3, <1>4, <1>5, RqIntro
<1>9. RqEnd(g) = RqEnd(f)
  BY <1>1, <1>3 DEF RqEnd
<1>10. FsRq(g)
  <2>1. g.flags \subseteq {"nomerge", "started"} /\ g.bios # << >> /\ Contiguous(g.bios)
    BY <1>3, <1>7
  <2>2. g.pos = bio[Head(g.bios)].sector
    BY <1>3, <1>6, <1>7
  <2>3. RqEnd(g) = bio[Last(g.bios)].sector + bio[Last(g.bios)].size
    BY <1>3, <1>6, <1>7, <1>9
  <2>4. \A b \in Range(g.bios) : bio[b].rw = g.rw
    BY <1>3, <1>5, <1>6
  <2>5. g.len > 0
    <3>1. \A a, b \in Nat : a > 0 => a + b > 0
      OBVIOUS
    <3> QED
      BY <1>1, <1>3, <1>6, <3>1
  <2>6. RqEnd(g) <= Capacity
    BY <1>2, <1>9
  <2> QED
    BY <2>1, <2>2, <2>3, <2>4, <2>5, <2>6 DEF FsRq
<1>11. Once(u)
  BY <1>5 DEF Once, s, t
<1> QED
  BY <1>3, <1>5, <1>8, <1>9, <1>10, <1>11 DEF g, s, t

-----------------------------------------------------------------------------
(* The merge caches *)

LEMMA ToSetRange == \A s : ToSet(s) = Range(s)
  BY DEF ToSet, Range

\* The three operations on the hash, by the entries they leave.
LEMMA HashEntriesOf ==
    ASSUME bio \in Workloads, NEW h \in Seq(HashEntry), NEW r \in Bios, NEW q \in Rq
    PROVE  LET n == [rq |-> r, slot |-> ELV_HASH_FN(RqEnd(q))]
           IN  /\ elv_rqhash_del(h, r) \in Seq(HashEntry)
               /\ \A x : x \in Range(elv_rqhash_del(h, r)) <=> x \in Range(h) /\ x.rq # r
               /\ elv_rqhash_add(h, r, q) \in Seq(HashEntry)
               /\ Range(elv_rqhash_add(h, r, q)) = Range(h) \cup {n}
               /\ elv_rqhash_reposition(h, r, q) \in Seq(HashEntry)
               /\ \A x : x \in Range(elv_rqhash_reposition(h, r, q)) <=>
                     (x \in Range(h) /\ x.rq # r) \/ x = n
<1> DEFINE n == [rq |-> r, slot |-> ELV_HASH_FN(RqEnd(q))]
           d == elv_rqhash_del(h, r)
<1>1. n \in HashEntry
  <2>1. RqEnd(q) \in Nat
    BY RqFields
  <2>2. HashBlock \in Nat \ {0} /\ HashEntries \in Nat \ {0}
    BY QueueAssumption
  <2> DEFINE k == RqEnd(q) \div HashBlock
  <2>3. k \in Nat
    BY <2>1, <2>2
  <2> HIDE DEF k
  <2>4. k % HashEntries \in 0 .. HashEntries - 1
    BY <2>2, <2>3
  <2> QED
    BY <2>4 DEF HashEntry, ELV_HASH_FN, k
<1>2. d \in Seq(HashEntry) /\ \A x : x \in Range(d) <=> x \in Range(h) /\ x.rq # r
  <2> DEFINE T == {e \in ToSet(h) : e.rq = r}
  <2>1. Without(h, T) \in Seq(HashEntry) /\ Range(Without(h, T)) = Range(h) \ T
    <3> HIDE DEF T
    <3> QED  BY WithoutEntries
  <2>2. \A x : x \in Range(h) \ T <=> x \in Range(h) /\ x.rq # r
    BY ToSetRange
  <2>3. d = Without(h, T)
    BY DEF elv_rqhash_del
  <2> HIDE DEF d, T
  <2> QED
    BY <2>1, <2>2, <2>3
<1>3. /\ \A l \in Seq(HashEntry) : /\ <<n>> \o l \in Seq(HashEntry)
                                   /\ Range(<<n>> \o l) = Range(l) \cup {n}
  <2> HIDE DEF n
  <2> QED  BY <1>1, FrontOrder
<1>4. elv_rqhash_add(h, r, q) = <<n>> \o h /\ elv_rqhash_reposition(h, r, q) = <<n>> \o d
  BY DEF elv_rqhash_add, elv_rqhash_reposition
<1> HIDE DEF n, d
<1>5. /\ elv_rqhash_add(h, r, q) \in Seq(HashEntry)
      /\ Range(elv_rqhash_add(h, r, q)) = Range(h) \cup {n}
  BY <1>3, <1>4
<1>6. /\ elv_rqhash_reposition(h, r, q) \in Seq(HashEntry)
      /\ \A x : x \in Range(elv_rqhash_reposition(h, r, q)) <=>
            (x \in Range(h) /\ x.rq # r) \/ x = n
  BY <1>2, <1>3, <1>4
<1> QED
  BY <1>2, <1>5, <1>6 DEF n, d

\* The same for a request that moves to another place of the table.
LEMMA HashMoved ==
    ASSUME bio \in Workloads, NEW h \in Seq(HashEntry), NEW r \in Bios, NEW q \in Rq,
           NEW n, n = [rq |-> r, slot |-> ELV_HASH_FN(RqEnd(q))]
    PROVE  /\ elv_rqhash_reposition(h, r, q) \in Seq(HashEntry)
           /\ \A x : x \in Range(elv_rqhash_reposition(h, r, q)) <=>
                 (x \in Range(h) /\ x.rq # r) \/ x = n
<1> DEFINE k == [rq |-> r, slot |-> ELV_HASH_FN(RqEnd(q))]
<1>1. /\ elv_rqhash_reposition(h, r, q) \in Seq(HashEntry)
      /\ \A x : x \in Range(elv_rqhash_reposition(h, r, q)) <=>
            (x \in Range(h) /\ x.rq # r) \/ x = k
  BY HashEntriesOf, ZenonT(30)
<1> QED
  BY <1>1, ZenonT(30)

\* What elv_rqhash_find returns: a request on LOOK's list that ends at off,
\* and a chain that has lost nothing that may still be merged.
LEMMA HashFinds ==
    ASSUME QInv, NEW off
    PROVE  LET f == elv_rqhash_find(off)
           IN  /\ f.rq # NULL => f.rq \in Range(look) /\ RqEnd(rqs[f.rq]) = off
               /\ f.chain \in Seq(HashEntry) /\ Fresh(rqs, look, f.chain)
<1> DEFINE f == elv_rqhash_find(off)
           hits == HashHits(off)
           Met(i) == hash[i].slot = ELV_HASH_FN(off) /\ \A j \in hits : i <= j
           stale == {hash[i].rq : i \in {k \in DOMAIN hash :
                                          Met(k) /\ ~rq_mergeable(rqs[hash[k].rq])}}
           T == {e \in ToSet(hash) : e.rq \in stale}
<1>1. /\ f.rq = IF hits = {} THEN NULL ELSE hash[Min(hits)].rq
      /\ f.chain = Without(hash, T)
  BY DEF elv_rqhash_find
<1>2. hash \in Seq(HashEntry) /\ Len(hash) \in Nat /\ DOMAIN hash = 1 .. Len(hash)
  BY LenProperties DEF QInv, Types
<1>3. \A x \in stale : ~rq_mergeable(rqs[x])
  OBVIOUS
<1>4. f.chain \in Seq(HashEntry) /\ Range(f.chain) = Range(hash) \ T
  <2> HIDE DEF T
  <2> QED  BY <1>1, <1>2, WithoutEntries
<1>5. \A e \in Range(hash) : e \notin Range(f.chain) => e.rq \in stale
  <2> HIDE DEF stale
  <2> QED  BY <1>4
<1>6. Range(f.chain) \subseteq Range(hash)
  BY <1>4
<1> HIDE DEF f, stale
<1>7. Fresh(rqs, look, f.chain)
  BY <1>3, <1>5, <1>6 DEF QInv, Caches, Fresh
<1>8. ASSUME hits # {} PROVE hash[Min(hits)].rq \in Range(look) /\ RqEnd(rqs[hash[Min(hits)].rq]) = off
  <2>1. hits \in SUBSET Nat
    BY <1>2 DEF HashHits
  <2>2. Min(hits) \in hits
    BY <1>8, <2>1, MinNat
  <2>3. Min(hits) \in DOMAIN hash /\ RqEnd(rqs[hash[Min(hits)].rq]) = off
    BY <2>2 DEF HashHits
  <2>4. hash[Min(hits)] \in Range(hash)
    BY <2>3 DEF Range
  <2> QED
    BY <2>3, <2>4 DEF QInv, Caches, Fresh
<1> QED
  BY <1>1, <1>4, <1>7, <1>8 DEF f

\* What elv_merge returns.
LEMMA MergeFound ==
    ASSUME QInv, NEW b \in Bios
    PROVE  LET m == elv_merge(b)
           IN  /\ m.type # "none" =>
                     /\ m.rq \in Range(look) /\ rq_mergeable(rqs[m.rq]) /\ rqs[m.rq].rw = bio[b].rw
               /\ m.type = "back" => RqEnd(rqs[m.rq]) = bio[b].sector
               /\ m.type = "front" => rqs[m.rq].pos = bio[b].sector + bio[b].size
               /\ m.chain \in Seq(HashEntry) /\ Fresh(rqs, look, m.chain)
<1> DEFINE found == elv_rqhash_find(bio[b].sector)
           cached == IF last_merge = NULL THEN "none" ELSE elv_try_merge(last_merge, b)
           m == elv_merge(b)
<1>1. m = IF cached # "none"
          THEN [type |-> cached, rq |-> last_merge, chain |-> hash]
          ELSE IF found.rq # NULL /\ elv_rq_merge_ok(found.rq, b)
          THEN [type |-> "back", rq |-> found.rq, chain |-> found.chain]
          ELSE [type |-> "none", rq |-> NULL, chain |-> found.chain]
  BY DEF elv_merge
<1>2. /\ found.rq # NULL => found.rq \in Range(look) /\ RqEnd(rqs[found.rq]) = bio[b].sector
      /\ found.chain \in Seq(HashEntry) /\ Fresh(rqs, look, found.chain)
  BY HashFinds
<1>3. hash \in Seq(HashEntry) /\ Fresh(rqs, look, hash)
  BY DEF QInv, Types, Caches
<1>4. cached # "none" =>
         /\ last_merge # NULL /\ last_merge \in Range(look) /\ elv_rq_merge_ok(last_merge, b)
         /\ cached = "back" => RqEnd(rqs[last_merge]) = bio[b].sector
         /\ cached = "front" => rqs[last_merge].pos = bio[b].sector + bio[b].size
  BY DEF elv_try_merge, QInv, Caches
<1>5. \A r : elv_rq_merge_ok(r, b) => rq_mergeable(rqs[r]) /\ rqs[r].rw = bio[b].rw
  BY DEF elv_rq_merge_ok
<1> HIDE DEF found, cached, m
<1>6. CASE cached # "none"
  BY <1>1, <1>3, <1>4, <1>5, <1>6 DEF m
<1>7. CASE cached = "none" /\ found.rq # NULL /\ elv_rq_merge_ok(found.rq, b)
  BY <1>1, <1>2, <1>5, <1>7 DEF m
<1>8. CASE cached = "none" /\ ~(found.rq # NULL /\ elv_rq_merge_ok(found.rq, b))
  BY <1>1, <1>2, <1>8 DEF m
<1> QED
  BY <1>6, <1>7, <1>8

-----------------------------------------------------------------------------
(* Who carries the bios *)

Where == {"new", "getrq", "insert", "queued", "done"}

LEMMA CarriedBios ==
    ASSUME NEW m \in [Reqs -> Rq], NEW r \in Reqs
    PROVE  Range(m[r].bios) \subseteq Bios
<1>1. m[r].bios \in Seq(Bios)
  BY DEF Rq
<1> QED
  BY <1>1, ListFacts

\* A bio that is with nobody yet is carried by no request, and its own is
\* not allocated.
LEMMA NewBio ==
    ASSUME NEW m \in [Reqs -> Rq], NEW s \in [Reqs -> Where], Carry(m, s),
           NEW b \in Bios, s[b] = "new"
    PROVE  m[b] = NoRq /\ \A r \in Reqs : b \notin Range(m[r].bios)
  BY DEF Carry, Reqs

\* The bios a request carries stay what they were.
LEMMA CarrySame ==
    ASSUME NEW m \in [Reqs -> Rq], NEW s \in [Reqs -> Where], Carry(m, s),
           NEW n \in [Reqs -> Rq], NEW t \in [Reqs -> Where],
           \A r \in Reqs : n[r].bios = m[r].bios,
           \A b \in Bios : t[b] = s[b] /\ (n[b] # NoRq => m[b] # NoRq)
    PROVE  Carry(n, t)
<1>1. \A r \in Reqs : Range(m[r].bios) \subseteq Bios
  BY CarriedBios
<1>2. \A b \in Bios : b \in Reqs
  BY DEF Reqs
<1>3. \A r \in Reqs : Range(n[r].bios) = Range(m[r].bios)
  OBVIOUS
<1>4. \A b \in Bios : n[b] # NoRq => b \in Range(n[b].bios)
  BY <1>2, <1>3 DEF Carry
<1>5. \A r, x \in Reqs : r # x => Range(n[r].bios) \cap Range(n[x].bios) = {}
  <2>1. \A r, x \in Reqs : r # x => Range(m[r].bios) \cap Range(m[x].bios) = {}
    BY DEF Carry
  <2> QED
    BY <1>3, <2>1
<1>6. \A r \in Reqs : Once(n[r].bios)
  BY DEF Carry
<1>7. \A r \in Reqs : \A b \in Range(n[r].bios) :
         t[b] = "queued" \/ (t[b] = "getrq" /\ r = b)
  BY <1>1, <1>3 DEF Carry
<1>8. ASSUME NEW b \in Bios, t[b] \in {"getrq", "queued"}
      PROVE  \E r \in Reqs : b \in Range(n[r].bios)
  <2>1. PICK r \in Reqs : b \in Range(m[r].bios)
    BY <1>8 DEF Carry
  <2> QED
    BY <1>3, <2>1
<1> QED
  BY <1>4, <1>5, <1>6, <1>7, <1>8 DEF Carry

\* Request r gets the bio b.
LEMMA CarryGrown ==
    ASSUME NEW m \in [Reqs -> Rq], NEW s \in [Reqs -> Where], Carry(m, s),
           NEW b \in Bios, s[b] = "new",
           NEW r \in Bios, m[r] # NoRq, s[r] = "queued",
           NEW e \in Rq, Range(e.bios) = Range(m[r].bios) \cup {b}, Once(e.bios)
    PROVE  Carry([m EXCEPT ![r] = e], [s EXCEPT ![b] = "queued"])
<1> DEFINE n == [m EXCEPT ![r] = e]
           t == [s EXCEPT ![b] = "queued"]
<1>1. m[b] = NoRq /\ \A x \in Reqs : b \notin Range(m[x].bios)
  BY NewBio
<1>2. b \in Reqs /\ r \in Reqs /\ r # b
  BY <1>1 DEF Reqs
<1>3. /\ n \in [Reqs -> Rq] /\ n[r] = e /\ \A x \in Reqs : x # r => n[x] = m[x]
      /\ t[b] = "queued" /\ \A x \in Reqs : x # b => t[x] = s[x]
  BY <1>2
<1>4. \A x \in Reqs : Range(m[x].bios) \subseteq Bios
  BY CarriedBios
<1> HIDE DEF n, t
<1>5. \A x \in Bios : n[x] # NoRq => x \in Range(n[x].bios)
  BY <1>3 DEF Carry, Reqs
<1>6. \A x, y \in Reqs : x # y => Range(n[x].bios) \cap Range(n[y].bios) = {}
  <2>1. \A x, y \in Reqs : x # y => Range(m[x].bios) \cap Range(m[y].bios) = {}
    BY DEF Carry
  <2>2. Range(n[r].bios) = Range(m[r].bios) \cup {b}
    BY <1>3
  <2>3. \A x \in Reqs : x # r => Range(n[x].bios) = Range(m[x].bios)
    BY <1>3
  <2> SUFFICES ASSUME NEW x \in Reqs, NEW y \in Reqs, x # y,
                      NEW c \in Range(n[x].bios), c \in Range(n[y].bios)
               PROVE  FALSE
    OBVIOUS
  <2>4. CASE x = r
    <3>1. c \in Range(m[y].bios) /\ (c \in Range(m[r].bios) \/ c = b)
      BY <2>2, <2>3, <2>4
    <3> QED
      BY <1>1, <1>2, <2>1, <2>4, <3>1
  <2>5. CASE y = r
    <3>1. c \in Range(m[x].bios) /\ (c \in Range(m[r].bios) \/ c = b)
      BY <2>2, <2>3, <2>5
    <3> QED
      BY <1>1, <1>2, <2>1, <2>5, <3>1
  <2>6. CASE x # r /\ y # r
    BY <2>1, <2>3, <2>6
  <2> QED
    BY <2>4, <2>5, <2>6
<1>7. \A x \in Reqs : Once(n[x].bios)
  BY <1>3 DEF Carry
<1>8. ASSUME NEW x \in Reqs, NEW c \in Range(n[x].bios)
      PROVE  t[c] = "queued" \/ (t[c] = "getrq" /\ x = c)
  <2>1. CASE x # r
    <3>1. c \in Range(m[x].bios) /\ c \in Reqs /\ c # b
      BY <1>1, <1>3, <1>4, <1>8, <2>1 DEF Reqs
    <3> QED
      BY <1>3, <3>1 DEF Carry
  <2>2. CASE x = r
    <3>1. c \in Range(m[r].bios) \/ c = b
      BY <1>3, <2>2
    <3>2. c \in Range(m[r].bios) => c \in Reqs /\ s[c] = "queued"
      BY <1>2, <1>4 DEF Carry, Reqs
    <3> QED
      BY <1>1, <1>2, <1>3, <3>1, <3>2
  <2> QED
    BY <2>1, <2>2
<1>9. ASSUME NEW c \in Bios, t[c] \in {"getrq", "queued"}
      PROVE  \E x \in Reqs : c \in Range(n[x].bios)
  <2>1. CASE c = b
    BY <1>2, <1>3, <2>1
  <2>2. CASE c # b
    <3>1. PICK x \in Reqs : c \in Range(m[x].bios)
      BY <1>3, <1>9, <2>2 DEF Carry, Reqs
    <3> QED
      BY <1>3, <3>1
  <2> QED
    BY <2>1, <2>2
<1> QED
  BY <1>5, <1>6, <1>7, <1>8, <1>9 DEF Carry, n, t

\* Request r gets the bios of x, which is freed.
LEMMA CarryJoined ==
    ASSUME bio \in Workloads, NEW m \in [Reqs -> Rq], NEW s \in [Reqs -> Where], Carry(m, s),
           NEW r \in Bios, NEW x \in Bios, r # x, m[r] # NoRq,
           s[r] = "queued", s[x] = "queued",
           NEW e \in Rq, Range(e.bios) = Range(m[r].bios) \cup Range(m[x].bios), Once(e.bios)
    PROVE  Carry([m EXCEPT ![r] = e, ![x] = NoRq], s)
<1> DEFINE n == [m EXCEPT ![r] = e, ![x] = NoRq]
<1>1. r \in Reqs /\ x \in Reqs
  BY DEF Reqs
<1>2. NoRq \in Rq /\ Range(NoRq.bios) = {} /\ Once(NoRq.bios)
  BY FreeRq
<1>3. /\ n \in [Reqs -> Rq] /\ n[r] = e /\ n[x] = NoRq
      /\ \A y \in Reqs : y # r /\ y # x => n[y] = m[y]
  BY <1>1, <1>2
<1> HIDE DEF n
<1>4. \A y \in Bios : n[y] # NoRq => y \in Range(n[y].bios)
  BY <1>3 DEF Carry, Reqs
<1>5. \A y, z \in Reqs : y # z => Range(n[y].bios) \cap Range(n[z].bios) = {}
  <2>1. \A y, z \in Reqs : y # z => Range(m[y].bios) \cap Range(m[z].bios) = {}
    BY DEF Carry
  <2>2. Range(n[r].bios) = Range(m[r].bios) \cup Range(m[x].bios)
    BY <1>3
  <2>3. Range(n[x].bios) = {}
    BY <1>2, <1>3
  <2>4. \A y \in Reqs : y # r /\ y # x => Range(n[y].bios) = Range(m[y].bios)
    BY <1>3
  <2> SUFFICES ASSUME NEW y \in Reqs, NEW z \in Reqs, y # z,
                      NEW b \in Range(n[y].bios), b \in Range(n[z].bios)
               PROVE  FALSE
    OBVIOUS
  <2>5. y # x /\ z # x
    BY <2>3
  <2>6. CASE y = r
    <3>1. b \in Range(m[z].bios) /\ (b \in Range(m[r].bios) \/ b \in Range(m[x].bios))
      BY <2>2, <2>4, <2>5, <2>6
    <3> QED
      BY <1>1, <2>1, <2>5, <2>6, <3>1
  <2>7. CASE z = r
    <3>1. b \in Range(m[y].bios) /\ (b \in Range(m[r].bios) \/ b \in Range(m[x].bios))
      BY <2>2, <2>4, <2>5, <2>7
    <3> QED
      BY <1>1, <2>1, <2>5, <2>7, <3>1
  <2>8. CASE y # r /\ z # r
    BY <2>1, <2>4, <2>5, <2>8
  <2> QED
    BY <2>6, <2>7, <2>8
<1>6. \A y \in Reqs : Once(n[y].bios)
  BY <1>2, <1>3 DEF Carry
<1>7. ASSUME NEW y \in Reqs, NEW c \in Range(n[y].bios)
      PROVE  s[c] = "queued" \/ (s[c] = "getrq" /\ y = c)
  <2>1. CASE y = r
    <3>1. c \in Range(m[r].bios) \/ c \in Range(m[x].bios)
      BY <1>3, <1>7, <2>1
    <3> QED
      BY <1>1, <3>1 DEF Carry
  <2>2. CASE y # r
    <3>1. y # x /\ c \in Range(m[y].bios)
      BY <1>2, <1>3, <1>7, <2>2
    <3> QED
      BY <3>1 DEF Carry
  <2> QED
    BY <2>1, <2>2
<1>8. ASSUME NEW c \in Bios, s[c] \in {"getrq", "queued"}
      PROVE  \E y \in Reqs : c \in Range(n[y].bios)
  <2>1. PICK y \in Reqs : c \in Range(m[y].bios)
    BY <1>8 DEF Carry
  <2>2. CASE y = r \/ y = x
    BY <1>1, <1>3, <2>1, <2>2
  <2>3. CASE ~(y = r \/ y = x)
    BY <1>3, <2>1, <2>3
  <2> QED
    BY <2>2, <2>3
<1> QED
  BY <1>4, <1>5, <1>6, <1>7, <1>8 DEF Carry, n

\* A bio gets a request of its own.
LEMMA CarryNew ==
    ASSUME bio \in Workloads, NEW m \in [Reqs -> Rq], NEW s \in [Reqs -> Where], Carry(m, s),
           NEW b \in Bios, s[b] = "new"
    PROVE  Carry([m EXCEPT ![b] = BioRequest(b)], [s EXCEPT ![b] = "getrq"])
<1> DEFINE n == [m EXCEPT ![b] = BioRequest(b)]
           t == [s EXCEPT ![b] = "getrq"]
<1>1. \A x \in Reqs : b \notin Range(m[x].bios)
  BY NewBio
<1>2. b \in Reqs
  BY DEF Reqs
<1>3. /\ BioRequest(b) \in Rq /\ Range(BioRequest(b).bios) = {b} /\ Once(BioRequest(b).bios)
  BY OneBio
<1>4. /\ n[b] = BioRequest(b) /\ \A x \in Reqs : x # b => n[x] = m[x]
      /\ t[b] = "getrq" /\ \A x \in Reqs : x # b => t[x] = s[x]
  BY <1>2
<1>5. \A x \in Reqs : Range(m[x].bios) \subseteq Bios
  BY CarriedBios
<1> HIDE DEF n, t
<1>6. \A x \in Bios : n[x] # NoRq => x \in Range(n[x].bios)
  BY <1>3, <1>4 DEF Carry, Reqs
<1>7. \A x, y \in Reqs : x # y => Range(n[x].bios) \cap Range(n[y].bios) = {}
  BY <1>1, <1>3, <1>4 DEF Carry
<1>8. \A x \in Reqs : Once(n[x].bios)
  BY <1>3, <1>4 DEF Carry
<1>9. ASSUME NEW x \in Reqs, NEW c \in Range(n[x].bios)
      PROVE  t[c] = "queued" \/ (t[c] = "getrq" /\ x = c)
  <2>1. CASE x = b
    BY <1>2, <1>3, <1>4, <1>9, <2>1
  <2>2. CASE x # b
    <3>1. c \in Range(m[x].bios) /\ c \in Reqs /\ c # b
      BY <1>1, <1>4, <1>5, <1>9, <2>2 DEF Reqs
    <3> QED
      BY <1>4, <3>1 DEF Carry
  <2> QED
    BY <2>1, <2>2
<1>10. ASSUME NEW c \in Bios, t[c] \in {"getrq", "queued"}
       PROVE  \E x \in Reqs : c \in Range(n[x].bios)
  <2>1. CASE c = b
    BY <1>2, <1>3, <1>4, <2>1
  <2>2. CASE c # b
    <3>1. PICK x \in Reqs : c \in Range(m[x].bios)
      BY <1>4, <1>10, <2>2 DEF Carry, Reqs
    <3>2. CASE x = b
      <4>1. s[c] # "getrq" /\ m[b] = NoRq
        BY <2>2, <3>1, <3>2, NewBio DEF Carry
      <4>2. Range(m[b].bios) = {}
        BY <4>1, FreeRq
      <4> QED
        BY <3>1, <3>2, <4>2
    <3>3. CASE x # b
      BY <1>4, <3>1, <3>3
    <3> QED
      BY <3>2, <3>3
  <2> QED
    BY <2>1, <2>2
<1> QED
  BY <1>6, <1>7, <1>8, <1>9, <1>10 DEF Carry, n, t

\* Request r ends, and its bios with it.
LEMMA CarryEnded ==
    ASSUME bio \in Workloads, NEW m \in [Reqs -> Rq], NEW s \in [Reqs -> Where], Carry(m, s),
           NEW r \in Reqs, NEW t \in [Reqs -> Where],
           \A b \in Bios : t[b] = IF b \in Range(m[r].bios) THEN "done" ELSE s[b],
           NEW n \in [Reqs -> Rq], n[r] = NoRq, \A x \in Reqs : x # r => n[x] = m[x]
    PROVE  Carry(n, t)
<1>1. NoRq \in Rq /\ Range(NoRq.bios) = {} /\ Once(NoRq.bios)
  BY FreeRq
<1>2. n[r] = NoRq /\ \A x \in Reqs : x # r => n[x] = m[x]
  OBVIOUS
<1>3. \A x \in Reqs : Range(m[x].bios) \subseteq Bios
  BY CarriedBios
<1>4. \A x \in Bios : n[x] # NoRq => x \in Range(n[x].bios)
  BY <1>2 DEF Carry, Reqs
<1>5. \A x, y \in Reqs : x # y => Range(n[x].bios) \cap Range(n[y].bios) = {}
  <2>1. \A x, y \in Reqs : x # y => Range(m[x].bios) \cap Range(m[y].bios) = {}
    BY DEF Carry
  <2>2. \A x \in Reqs : Range(n[x].bios) \subseteq Range(m[x].bios)
    BY <1>1, <1>2
  <2> QED
    BY <2>1, <2>2
<1>6. \A x \in Reqs : Once(n[x].bios)
  BY <1>1, <1>2 DEF Carry
<1>7. ASSUME NEW x \in Reqs, NEW c \in Range(n[x].bios)
      PROVE  t[c] = "queued" \/ (t[c] = "getrq" /\ x = c)
  <2>1. x # r /\ c \in Range(m[x].bios)
    BY <1>1, <1>2, <1>7
  <2>2. c \in Bios /\ c \notin Range(m[r].bios)
    BY <1>3, <2>1 DEF Carry
  <2> QED
    BY <2>1, <2>2 DEF Carry
<1>8. ASSUME NEW c \in Bios, t[c] \in {"getrq", "queued"}
      PROVE  \E x \in Reqs : c \in Range(n[x].bios)
  <2>1. c \notin Range(m[r].bios) /\ s[c] \in {"getrq", "queued"}
    BY <1>8
  <2>2. PICK x \in Reqs : c \in Range(m[x].bios)
    BY <2>1 DEF Carry
  <2> QED
    BY <1>2, <2>1, <2>2
<1> QED
  BY <1>4, <1>5, <1>6, <1>7, <1>8 DEF Carry

-----------------------------------------------------------------------------
(* Steps of the queue *)

LEMMA QFacts ==
    ASSUME QInv
    PROVE  /\ bio \in Workloads /\ rqs \in [Reqs -> Rq] /\ st \in [Reqs -> Where]
           /\ look \in Seq(Bios) /\ Range(look) \subseteq Bios
           /\ queue_head \in Seq(Reqs) /\ Range(queue_head) \subseteq Reqs /\ inflight \subseteq Reqs
           /\ hash \in Seq(HashEntry)
           /\ \A b \in Bios : b \in Reqs /\ b \notin Pcs
           /\ \A r \in Range(look) : rqs[r] # NoRq /\ FsRq(rqs[r]) /\ st[r] = "queued"
<1>1. /\ bio \in Workloads /\ rqs \in [Reqs -> Rq] /\ st \in [Reqs -> Where]
      /\ look \in Seq(Bios) /\ queue_head \in Seq(Reqs) /\ inflight \subseteq Reqs
      /\ hash \in Seq(HashEntry)
  BY DEF QInv, Types, RqsOK, Where
<1>2. Range(look) \subseteq Bios /\ Range(queue_head) \subseteq Reqs
  BY <1>1, ListFacts
<1>3. \A b \in Bios : b \in Reqs /\ b \notin Pcs
  BY QueueAssumption DEF Reqs
<1>4. \A r \in Range(look) : rqs[r] # NoRq /\ st[r] = "queued"
  BY <1>2, <1>3 DEF QInv, Places
<1>5. \A r \in Range(look) : FsRq(rqs[r])
  BY <1>2, <1>4 DEF QInv, RqsOK
<1> QED
  BY <1>1, <1>2, <1>3, <1>4, <1>5

\* The bios are the same in the next state.
LEMMA SameBios ==
    ASSUME bio' = bio, RqsOK(rqs')
    PROVE  RqsOK(rqs)'
  BY DEF RqsOK, FsRq, Contiguous

LEMMA QUnchanged ==
    ASSUME QInv, UNCHANGED <<bio, st, rqs, look, cur_pos, dir, queue_head, inflight, hash,
                             last_merge, nr_sorted, end_sector, before>>
    PROVE  QInv'
<1>1. RqsOK(rqs)'
  BY SameBios DEF QInv
<1>2. Types'
  BY DEF QInv, Types
<1>3. Carry(rqs, st)'
  BY DEF QInv, Carry
<1>4. Places'
  BY DEF QInv, Places
<1>5. Caches'
  BY DEF QInv, Caches, Fresh
<1> QED
  BY <1>1, <1>2, <1>3, <1>4, <1>5 DEF QInv

LEMMA QInit == Init => QInv
<1> SUFFICES ASSUME Init PROVE QInv
  OBVIOUS
<1>1. bio \in Workloads
  BY DEF Init
<1>2. /\ NoRq \in Rq /\ Range(NoRq.bios) = {} /\ Once(NoRq.bios)
  BY <1>1, FreeRq
<1>3. Capacity \in Nat /\ MaxSector = Capacity + 1
  BY <1>1, BioFacts
<1>4. /\ \A r \in Reqs : rqs[r] = NoRq /\ st[r] \in {"new", "done"}
      /\ rqs \in [Reqs -> Rq]
  BY <1>2 DEF Init
<1>5. \A S : << >> \in Seq(S) /\ Range(<< >>) = {} /\ Once(<< >>)
  BY ShortLists DEF Once
<1>6. \A b \in Bios : b \in Reqs
  BY DEF Reqs
<1>7. \A p \in Pcs : p \in Reqs
  BY DEF Reqs
<1>8. Types
  <2>1. << >> \in Seq(Bios) /\ << >> \in Seq(Reqs) /\ << >> \in Seq(HashEntry)
    BY <1>5
  <2>2. 0 \in 0 .. Capacity /\ 0 \in 0 .. MaxSector
    BY <1>3
  <2>3. st \in [Reqs -> {"new", "getrq", "insert", "queued", "done"}] /\ \A b \in Bios : st[b] # "insert"
    BY <1>6 DEF Init
  <2>4. before \in [Pcs -> (SUBSET Bios) \cup {NULL}]
    BY DEF Init
  <2> QED
    BY <2>1, <2>2, <2>3, <2>4 DEF Init, Types
<1>9. RqsOK(rqs)
  BY <1>4, <1>6, <1>7 DEF RqsOK
<1>10. Carry(rqs, st)
  BY <1>2, <1>4, <1>6 DEF Carry
<1>11. Places
  BY <1>4, <1>5 DEF Init, Places
<1>12. Caches
  BY <1>5 DEF Init, Caches, Fresh
<1> QED
  BY <1>8, <1>9, <1>10, <1>11, <1>12 DEF QInv

\* Request r of LOOK's list becomes e, by the bio b that is added to it.
LEMMA GrownRqs ==
    ASSUME QInv, NEW b \in Bios, st[b] = "new", NEW r \in Range(look),
           NEW e \in Rq, FsRq(e), Once(e.bios), Range(e.bios) = Range(rqs[r].bios) \cup {b}
    PROVE  /\ RqsOK([rqs EXCEPT ![r] = e])
           /\ Carry([rqs EXCEPT ![r] = e], [st EXCEPT ![b] = "queued"])
           /\ \A x \in Reqs : [rqs EXCEPT ![r] = e][x] # NoRq <=> rqs[x] # NoRq
<1> DEFINE m == [rqs EXCEPT ![r] = e]
<1>1. /\ bio \in Workloads /\ rqs \in [Reqs -> Rq] /\ st \in [Reqs -> Where]
      /\ r \in Bios /\ r \in Reqs /\ r \notin Pcs /\ rqs[r] # NoRq /\ st[r] = "queued"
  BY QFacts
<1>2. Carry(m, [st EXCEPT ![b] = "queued"])
  BY <1>1, CarryGrown DEF QInv
<1>3. /\ m \in [Reqs -> Rq] /\ m[r] = e /\ \A x \in Reqs : x # r => m[x] = rqs[x]
  BY <1>1
<1>4. e # NoRq
  BY <1>1, FreeRq
<1> HIDE DEF m
<1>5. RqsOK(m)
  BY <1>1, <1>3 DEF QInv, RqsOK, Reqs
<1>6. \A x \in Reqs : m[x] # NoRq <=> rqs[x] # NoRq
  BY <1>1, <1>3, <1>4
<1> QED
  BY <1>2, <1>5, <1>6 DEF m

\* It stays on the list.
LEMMA MergedStep ==
    ASSUME QInv, NEW b \in Bios, st[b] = "new", NEW r \in Range(look),
           NEW e \in Rq, FsRq(e), Once(e.bios), Range(e.bios) = Range(rqs[r].bios) \cup {b},
           e.flags = rqs[r].flags,
           NEW chain \in Seq(HashEntry), Fresh(rqs, look, chain),
           NEW type, type # "back" => RqEnd(e) = RqEnd(rqs[r]),
           MergedRequest([rqs EXCEPT ![r] = e], chain, r, type),
           st' = [st EXCEPT ![b] = "queued"],
           UNCHANGED <<bio, cur_pos, dir, queue_head, inflight, end_sector, before>>
    PROVE  QInv'
<1> DEFINE m == [rqs EXCEPT ![r] = e]
           n == [rq |-> r, slot |-> ELV_HASH_FN(RqEnd(e))]
<1>1. /\ bio \in Workloads /\ rqs \in [Reqs -> Rq] /\ st \in [Reqs -> Where]
      /\ look \in Seq(Bios) /\ Range(look) \subseteq Bios /\ inflight \subseteq Reqs
      /\ Range(queue_head) \subseteq Reqs
      /\ r \in Bios /\ r \in Reqs /\ b \in Reqs /\ r \notin Pcs /\ rqs[r] # NoRq /\ st[r] = "queued"
  BY QFacts
<1>2. /\ RqsOK(m) /\ Carry(m, st') /\ \A x \in Reqs : m[x] # NoRq <=> rqs[x] # NoRq
  BY GrownRqs
<1>3. /\ rqs' = m /\ last_merge' = r /\ look' = look /\ nr_sorted' = nr_sorted
      /\ hash' = IF type = "back" THEN elv_rqhash_reposition(chain, r, e) ELSE chain
  <2>1. m[r] = e
    BY <1>1
  <2> QED
    BY <2>1 DEF MergedRequest
<1>4. m[r] = e /\ \A x \in Reqs : x # r => m[x] = rqs[x]
  BY <1>1
<1>5. st'[b] = "queued" /\ \A x \in Reqs : x # b => st'[x] = st[x]
  BY <1>1
<1>6. st' \in [Reqs -> Where] /\ b # r
  BY <1>1 DEF Where
<1>14. n.rq = r /\ n.slot = ELV_HASH_FN(RqEnd(e))
  OBVIOUS
<1>15. /\ elv_rqhash_reposition(chain, r, e) \in Seq(HashEntry)
       /\ \A x : x \in Range(elv_rqhash_reposition(chain, r, e)) <=>
             (x \in Range(chain) /\ x.rq # r) \/ x = n
  <2>1. bio \in Workloads /\ r \in Bios
    BY <1>1
  <2>2. n = [rq |-> r, slot |-> ELV_HASH_FN(RqEnd(e))]
    OBVIOUS
  <2> HIDE DEF n
  <2> QED
    BY <2>1, <2>2, HashMoved
<1>7. /\ hash' \in Seq(HashEntry)
      /\ type = "back" => \A x : x \in Range(hash') <=> (x \in Range(chain) /\ x.rq # r) \/ x = n
  <2> HIDE DEF n, m
  <2> QED  BY <1>3, <1>15
<1>8. rqs[b] = NoRq
  BY <1>1, NewBio DEF QInv
<1> HIDE DEF m, n
<1>9. Types'
  BY <1>3, <1>5, <1>6, <1>7, <1>1 DEF QInv, Types, Where
<1>10. Places'
  <2>1. \A x \in Range(look) \cup Range(queue_head) \cup inflight : x # b /\ x \in Reqs
    BY <1>1, QFacts DEF QInv, Places
  <2>2. \A x \in Range(look) \cup Range(queue_head) \cup inflight : st'[x] = "queued"
    BY <1>5, <2>1 DEF QInv, Places
  <2>3. ASSUME NEW x \in Reqs
        PROVE  rqs'[x] # NoRq <=> \/ x \in Range(look) \/ x \in Range(queue_head) \/ x \in inflight
                                  \/ st'[x] \in {"getrq", "insert"}
    <3>1. CASE x = b
      BY <1>2, <1>3, <1>5, <1>8, <2>1, <3>1
    <3>2. CASE x # b
      BY <1>2, <1>3, <1>5, <3>2 DEF QInv, Places
    <3> QED
      BY <3>1, <3>2
  <2> QED
    BY <1>3, <2>2, <2>3 DEF QInv, Places
<1>11. Caches'
  <2>1. ASSUME NEW x \in Range(hash')
        PROVE  x.rq \in Range(look) /\ x.slot = ELV_HASH_FN(RqEnd(m[x.rq]))
    <3>1. CASE x \in Range(chain) /\ x.rq # r
      BY <1>1, <1>4, <3>1, QFacts DEF Fresh
    <3>2. CASE x = n
      BY <1>4, <1>14, <3>2
    <3>3. CASE type # "back" /\ x \in Range(chain) /\ x.rq = r
      BY <1>4, <3>3 DEF Fresh
    <3> QED
      BY <1>3, <1>7, <2>1, <3>1, <3>2, <3>3
  <2>2. ASSUME NEW x \in Range(look), rq_mergeable(m[x])
        PROVE  \E y \in Range(hash') : y.rq = x
    <3>1. rq_mergeable(rqs[x])
      BY <1>1, <1>4, <2>2, QFacts DEF rq_mergeable
    <3>2. PICK y \in Range(chain) : y.rq = x
      BY <3>1 DEF Fresh
    <3>3. CASE x = r /\ type = "back"
      BY <1>7, <1>14, <3>3
    <3>4. CASE ~(x = r /\ type = "back")
      BY <1>3, <1>7, <3>2, <3>4
    <3> QED
      BY <3>3, <3>4
  <2> QED
    BY <1>3, <2>1, <2>2 DEF QInv, Caches, Fresh
<1>12. RqsOK(rqs)'
  BY <1>2, <1>3, SameBios
<1>13. Carry(rqs, st)'
  BY <1>2, <1>3
<1> QED
  BY <1>9, <1>10, <1>11, <1>12, <1>13 DEF QInv

\* list_del_init() of a request that is on LOOK's list.
LEMMA UnlinkedList ==
    ASSUME QInv, NEW x \in Range(look)
    PROVE  /\ Unlinked(look, x) \in Seq(Bios)
           /\ Range(Unlinked(look, x)) = Range(look) \ {x}
           /\ Once(Unlinked(look, x))
           /\ Len(Unlinked(look, x)) = Len(look) - 1
<1>1. look \in Seq(Bios) /\ Once(look)
  BY DEF QInv, Types, Places
<1>2. Len(look) \in Nat /\ DOMAIN look = 1 .. Len(look)
  BY <1>1, ListFacts
<1>3. \E k \in DOMAIN look : look[k] = x
  BY DEF Range
<1> DEFINE i == CHOOSE k \in DOMAIN look : look[k] = x
<1>4. i \in DOMAIN look /\ look[i] = x
  BY <1>3
<1>5. Unlinked(look, x) = RemoveAt(look, i)
  BY DEF Unlinked
<1> HIDE DEF i
<1>6. i \in 1 .. Len(look)
  BY <1>2, <1>4
<1>7. /\ RemoveAt(look, i) \in Seq(Bios) /\ Len(RemoveAt(look, i)) = Len(look) - 1
  BY <1>1, <1>6, RemoveAtProperties
<1>8. /\ \A y, z : Prec(RemoveAt(look, i), y, z) => Prec(look, y, z)
      /\ Range(RemoveAt(look, i)) = Range(look) \ {look[i]}
  BY <1>1, <1>6, RemoveOrder
<1>9. Once(RemoveAt(look, i))
  BY <1>1, <1>8 DEF Once
<1> QED
  BY <1>4, <1>5, <1>7, <1>8, <1>9

\* Assignments to the fields of a request.
LEMMA RqLiteral ==
    ASSUME NEW q \in Rq
    PROVE  q = [bios |-> q.bios, pos |-> q.pos, len |-> q.len, rw |-> q.rw, flags |-> q.flags]
  BY DEF Rq

LEMMA RqGrown ==
    ASSUME NEW q \in Rq, NEW u \in Seq(Bios), NEW v \in 0 .. Capacity
    PROVE  [q EXCEPT !.bios = u, !.len = v] =
              [bios |-> u, pos |-> q.pos, len |-> v, rw |-> q.rw, flags |-> q.flags]
<1> DEFINE z == [q EXCEPT !.bios = u, !.len = v]
<1>1. z \in Rq /\ z.bios = u /\ z.len = v /\ z.pos = q.pos /\ z.rw = q.rw /\ z.flags = q.flags
  BY DEF Rq
<1> HIDE DEF z
<1>2. z = [bios |-> u, pos |-> q.pos, len |-> v, rw |-> q.rw, flags |-> q.flags]
  BY <1>1, RqLiteral, Zenon
<1> QED
  BY <1>2 DEF z

\* Request g has got the bio b, and then r, one of the two requests, has got
\* the bios of x, the other or its neighbour.
LEMMA JoinedStep ==
    ASSUME QInv, NEW b \in Bios, st[b] = "new", NEW g \in Range(look),
           NEW e \in Rq, FsRq(e), Once(e.bios), Range(e.bios) = Range(rqs[g].bios) \cup {b},
           e.flags = rqs[g].flags,
           NEW chain \in Seq(HashEntry), Fresh(rqs, look, chain),
           NEW r \in Range(look), NEW x \in Range(look), r # x, g \in {r, x},
           MayJoin([rqs EXCEPT ![g] = e], r, x),
           JoinRequests([rqs EXCEPT ![g] = e], chain, r, x),
           st' = [st EXCEPT ![b] = "queued"],
           UNCHANGED <<bio, cur_pos, dir, queue_head, inflight, end_sector, before>>
    PROVE  QInv'
<1> DEFINE m == [rqs EXCEPT ![g] = e]
           j == Fused(m[r], m[x], m[r].flags)
           n == [rq |-> r, slot |-> ELV_HASH_FN(RqEnd(j))]
<1>1. /\ bio \in Workloads /\ rqs \in [Reqs -> Rq] /\ st \in [Reqs -> Where]
      /\ look \in Seq(Bios) /\ Range(look) \subseteq Bios /\ inflight \subseteq Reqs
      /\ Range(queue_head) \subseteq Reqs /\ b \in Reqs
      /\ r \in Bios /\ r \in Reqs /\ r \notin Pcs /\ rqs[r] # NoRq /\ st[r] = "queued"
      /\ x \in Bios /\ x \in Reqs /\ x \notin Pcs /\ rqs[x] # NoRq /\ st[x] = "queued"
      /\ \A y \in Bios : y \in Reqs /\ y \notin Pcs
  BY QFacts
<1>2. /\ RqsOK(m) /\ Carry(m, st') /\ \A y \in Reqs : m[y] # NoRq <=> rqs[y] # NoRq
  BY GrownRqs
<1>3. st'[b] = "queued" /\ \A y \in Reqs : y # b => st'[y] = st[y]
  BY <1>1
<1>4. st' \in [Reqs -> Where] /\ b # r /\ b # x
  BY <1>1 DEF Where
<1>5. /\ m \in [Reqs -> Rq] /\ m[g] = e /\ \A y \in Reqs : y # g => m[y] = rqs[y]
  BY <1>1
<1>6. rqs[b] = NoRq
  BY <1>1, NewBio DEF QInv
<1>7. /\ rqs' = [m EXCEPT ![r] = [m[r] EXCEPT !.bios = @ \o m[x].bios, !.len = @ + m[x].len],
                          ![x] = NoRq]
      /\ hash' = elv_rqhash_del(elv_rqhash_reposition(chain, r,
                     [m[r] EXCEPT !.bios = @ \o m[x].bios, !.len = @ + m[x].len]), x)
      /\ look' = Unlinked(look, x) /\ nr_sorted' = nr_sorted - 1 /\ last_merge' = r
  BY DEF JoinRequests
<1>8. RqEnd(m[r]) = m[x].pos /\ m[r].rw = m[x].rw
  BY DEF MayJoin
<1> HIDE DEF m
<1>9. /\ m[r] \in Rq /\ m[x] \in Rq /\ FsRq(m[r]) /\ FsRq(m[x])
      /\ Once(m[r].bios) /\ Once(m[x].bios) /\ Range(m[r].bios) \cap Range(m[x].bios) = {}
      /\ m[r].flags \in SUBSET {"nomerge", "started"}
      /\ m[r] # NoRq /\ m[x] # NoRq
  <2>1. m[r] \in Rq /\ m[x] \in Rq /\ m[r] # NoRq /\ m[x] # NoRq
    BY <1>1, <1>2, <1>5
  <2>2. FsRq(m[r]) /\ FsRq(m[x])
    BY <1>1, <1>2, <2>1 DEF RqsOK
  <2>3. Once(m[r].bios) /\ Once(m[x].bios) /\ Range(m[r].bios) \cap Range(m[x].bios) = {}
    <3>1. /\ \A y, z \in Reqs : y # z => Range(m[y].bios) \cap Range(m[z].bios) = {}
          /\ \A y \in Reqs : Once(m[y].bios)
      BY <1>2 DEF Carry
    <3>2. r \in Reqs /\ x \in Reqs /\ r # x
      BY <1>1
    <3> QED
      BY <3>1, <3>2, Zenon
  <2>4. m[r].flags \in SUBSET {"nomerge", "started"}
    BY <2>2 DEF FsRq
  <2> QED
    BY <2>1, <2>2, <2>3, <2>4
<1>11. /\ j \in Rq /\ FsRq(j) /\ Once(j.bios)
       /\ Range(j.bios) = Range(m[r].bios) \cup Range(m[x].bios)
  BY <1>1, <1>8, <1>9, FusedRq
<1>10. [m[r] EXCEPT !.bios = @ \o m[x].bios, !.len = @ + m[x].len] = j
  <2> DEFINE u == m[r].bios \o m[x].bios
             v == m[r].len + m[x].len
  <2>1. u = j.bios /\ v = j.len
    BY DEF Fused
  <2>2. u \in Seq(Bios) /\ v \in 0 .. Capacity /\ m[r].pos \in 0 .. MaxSector
        /\ m[r].flags \in SUBSET Flags
    BY <1>9, <1>11, <2>1 DEF Rq
  <2> HIDE DEF u, v
  <2>3. [m[r] EXCEPT !.bios = u, !.len = v] =
           [bios |-> u, pos |-> m[r].pos, len |-> v, rw |-> m[r].rw, flags |-> m[r].flags]
    BY <1>9, <2>2, RqGrown, Zenon
  <2> QED
    BY <2>3, Zenon DEF Fused, u, v
<1>12. n.rq = r /\ n.slot = ELV_HASH_FN(RqEnd(j)) /\ j.flags = m[r].flags
  BY DEF Fused
<1>13. rqs' = [m EXCEPT ![r] = j, ![x] = NoRq]
       /\ hash' = elv_rqhash_del(elv_rqhash_reposition(chain, r, j), x)
  BY <1>7, <1>10
<1> HIDE DEF j
<1>14. /\ rqs' \in [Reqs -> Rq] /\ rqs'[r] = j /\ rqs'[x] = NoRq
       /\ \A y \in Reqs : y # r /\ y # x => rqs'[y] = rqs[y]
  BY <1>1, <1>5, <1>11, <1>13, FreeRq
<1>15. Carry(rqs, st)'
  BY <1>1, <1>2, <1>3, <1>4, <1>5, <1>9, <1>11, <1>13, CarryJoined
<1>16. RqsOK(rqs)'
  <2>1. RqsOK(rqs')
    BY <1>1, <1>11, <1>14 DEF QInv, RqsOK, Reqs
  <2> QED
    BY <2>1, SameBios
<1>17. /\ look' \in Seq(Bios) /\ Range(look') = Range(look) \ {x} /\ Once(look')
       /\ Len(look') = Len(look) - 1
  BY <1>7, UnlinkedList
<1>18. /\ hash' \in Seq(HashEntry)
       /\ \A y : y \in Range(hash') <=> ((y \in Range(chain) /\ y.rq # r) \/ y = n) /\ y.rq # x
  <2> DEFINE h == elv_rqhash_reposition(chain, r, j)
  <2>1. bio \in Workloads /\ r \in Bios /\ x \in Bios /\ j \in Rq
    BY <1>1, <1>11
  <2>2. h \in Seq(HashEntry) /\ \A y : y \in Range(h) <=> (y \in Range(chain) /\ y.rq # r) \/ y = n
    <3>1. n = [rq |-> r, slot |-> ELV_HASH_FN(RqEnd(j))]
      OBVIOUS
    <3> HIDE DEF n, j
    <3> QED
      BY <2>1, <3>1, HashMoved
  <2> HIDE DEF h
  <2>3. /\ elv_rqhash_del(h, x) \in Seq(HashEntry)
        /\ \A y : y \in Range(elv_rqhash_del(h, x)) <=> y \in Range(h) /\ y.rq # x
    BY <2>1, <2>2, HashEntriesOf, Zenon
  <2>4. hash' = elv_rqhash_del(h, x)
    BY <1>13 DEF h
  <2> HIDE DEF n
  <2> QED
    BY <2>2, <2>3, <2>4
<1> HIDE DEF n
<1>19. Types'
  BY <1>1, <1>3, <1>4, <1>17, <1>18 DEF QInv, Types, Where
<1>20. Places'
  <2>1. \A y \in Range(look) \cup Range(queue_head) \cup inflight : y # b /\ y \in Reqs
    BY <1>1 DEF QInv, Places
  <2>2. \A y \in Range(look) \cup Range(queue_head) \cup inflight : st'[y] = "queued"
    BY <1>3, <2>1 DEF QInv, Places
  <2>3. ASSUME NEW y \in Reqs
        PROVE  rqs'[y] # NoRq <=> \/ y \in Range(look') \/ y \in Range(queue_head) \/ y \in inflight
                                  \/ st'[y] \in {"getrq", "insert"}
    <3>1. CASE y = b
      BY <1>3, <1>4, <1>6, <1>14, <1>17, <2>1, <3>1
    <3>2. CASE y = x
      BY <1>1, <1>3, <1>4, <1>14, <1>17, <3>2 DEF QInv, Places
    <3>3. CASE y = r
      <4>1. j # NoRq
        BY <1>1, <1>11, FreeRq
      <4> QED
        BY <1>14, <1>17, <3>3, <4>1
    <3>4. CASE y # b /\ y # x /\ y # r
      BY <1>3, <1>14, <1>17, <3>4 DEF QInv, Places
    <3> QED
      BY <3>1, <3>2, <3>3, <3>4
  <2> QED
    BY <1>17, <2>2, <2>3 DEF QInv, Places
<1>21. Caches'
  <2>1. ASSUME NEW y \in Range(hash')
        PROVE  y.rq \in Range(look') /\ y.slot = ELV_HASH_FN(RqEnd(rqs'[y.rq]))
    <3>1. CASE y \in Range(chain) /\ y.rq # r /\ y.rq # x
      BY <1>1, <1>14, <1>17, <3>1 DEF Fresh
    <3>2. CASE y = n
      BY <1>12, <1>14, <1>17, <3>2
    <3> QED
      BY <1>18, <2>1, <3>1, <3>2
  <2>2. ASSUME NEW y \in Range(look'), rq_mergeable(rqs'[y])
        PROVE  \E z \in Range(hash') : z.rq = y
    <3>1. CASE y = r
      BY <1>12, <1>18, <3>1
    <3>2. CASE y # r
      <4>1. y \in Range(look) /\ y # x /\ rqs'[y] = rqs[y]
        BY <1>1, <1>14, <1>17, <3>2
      <4>2. PICK z \in Range(chain) : z.rq = y
        BY <2>2, <4>1 DEF Fresh
      <4> QED
        BY <1>18, <3>2, <4>1, <4>2
    <3> QED
      BY <3>1, <3>2
  <2>3. nr_sorted' = Len(look') /\ last_merge' \in Range(look')
    BY <1>7, <1>17 DEF QInv, Caches
  <2> QED
    BY <2>1, <2>2, <2>3 DEF Caches, Fresh
<1> QED
  BY <1>15, <1>16, <1>19, <1>20, <1>21 DEF QInv

\* LOOK offers for a second merge another request of its list, or none.
LEMMA Neighbour ==
    ASSUME QInv, NEW r \in Range(look), NEW d \in {1, -1}, NeighbourAt(r, d) # NULL
    PROVE  NeighbourAt(r, d) \in Range(look) /\ NeighbourAt(r, d) # r
<1> DEFINE at == {j \in DOMAIN look : j - d \in DOMAIN look /\ look[j - d] = r}
           near == {look[k] : k \in at}
<1>1. look \in Seq(Bios) /\ Once(look)
  BY DEF QInv, Types, Places
<1>2. Len(look) \in Nat /\ DOMAIN look = 1 .. Len(look) /\ IsInjective(look)
  BY <1>1, ListFacts, OnceInjective
<1>3. near # {} /\ NeighbourAt(r, d) = CHOOSE x \in near : TRUE
  BY DEF NeighbourAt
<1>4. NeighbourAt(r, d) \in near
  BY <1>3
<1>5. PICK k \in at : NeighbourAt(r, d) = look[k]
  BY <1>4
<1>6. k \in DOMAIN look /\ k - d \in DOMAIN look /\ look[k - d] = r /\ k - d # k
  BY <1>2
<1>7. look[k] # r
  BY <1>2, <1>6 DEF IsInjective
<1> QED
  BY <1>5, <1>6, <1>7 DEF Range

\* A bio at the end of a request, and in front of one.
LEMMA GrownBack ==
    ASSUME QInv, NEW b \in Bios, st[b] = "new", NEW r \in Range(look),
           RqEnd(rqs[r]) = bio[b].sector, rqs[r].rw = bio[b].rw
    PROVE  \E e \in Rq : /\ FsRq(e) /\ Once(e.bios) /\ Range(e.bios) = Range(rqs[r].bios) \cup {b}
                         /\ e.flags = rqs[r].flags /\ e.bios = rqs[r].bios \o <<b>>
                         /\ e.pos = rqs[r].pos /\ e.len = rqs[r].len + bio[b].size
                         /\ [rqs EXCEPT ![r].bios = Append(@, b), ![r].len = @ + bio[b].size] =
                               [rqs EXCEPT ![r] = e]
<1> DEFINE q == rqs[r]
           f == BioRequest(b)
           e == Fused(q, f, q.flags)
<1>1. /\ bio \in Workloads /\ rqs \in [Reqs -> Rq] /\ st \in [Reqs -> Where]
      /\ r \in Reqs /\ q \in Rq /\ FsRq(q)
  BY QFacts
<1>2. /\ f \in Rq /\ FsRq(f) /\ Range(f.bios) = {b} /\ Once(f.bios)
  BY <1>1, OneBio
<1>3. f.bios = <<b>> /\ f.pos = bio[b].sector /\ f.len = bio[b].size /\ f.rw = bio[b].rw
  BY DEF BioRequest
<1>4. Once(q.bios) /\ b \notin Range(q.bios)
  BY <1>1, NewBio DEF QInv, Carry
<1>5. q.flags \in SUBSET {"nomerge", "started"}
  BY <1>1 DEF FsRq
<1> HIDE DEF q, f
<1>6. Range(q.bios) \cap Range(f.bios) = {} /\ RqEnd(q) = f.pos /\ q.rw = f.rw
  BY <1>2, <1>3, <1>4 DEF q
<1>7. /\ e \in Rq /\ FsRq(e) /\ Range(e.bios) = Range(q.bios) \cup Range(f.bios) /\ Once(e.bios)
  BY <1>1, <1>2, <1>4, <1>5, <1>6, FusedRq
<1>8. /\ e.flags = q.flags /\ e.bios = q.bios \o <<b>> /\ e.len = q.len + bio[b].size
      /\ e.pos = q.pos
  BY <1>3 DEF Fused
<1>9. [q EXCEPT !.bios = Append(@, b), !.len = @ + bio[b].size] = e
  <2> DEFINE u == Append(q.bios, b)
             v == q.len + bio[b].size
  <2>1. q.bios \in Seq(Bios)
    BY <1>1 DEF Rq
  <2>2. u = e.bios
    BY <1>8, <2>1, AppendIsConcat
  <2>3. u \in Seq(Bios) /\ v \in 0 .. Capacity
    BY <1>7, <1>8, <2>2 DEF Rq
  <2>4. e = [bios |-> u, pos |-> q.pos, len |-> v, rw |-> q.rw, flags |-> q.flags]
    BY <1>3, <1>8, <2>2 DEF Fused
  <2> HIDE DEF u, v, e
  <2>5. [q EXCEPT !.bios = u, !.len = v] =
           [bios |-> u, pos |-> q.pos, len |-> v, rw |-> q.rw, flags |-> q.flags]
    BY <1>1, <2>3, RqGrown, ZenonT(40)
  <2> QED
    BY <2>4, <2>5, Zenon DEF u, v
<1>10. [rqs EXCEPT ![r].bios = Append(@, b), ![r].len = @ + bio[b].size] =
          [rqs EXCEPT ![r] = [rqs[r] EXCEPT !.bios = Append(@, b), !.len = @ + bio[b].size]]
  BY <1>1
<1> HIDE DEF e
<1>11. [rqs EXCEPT ![r].bios = Append(@, b), ![r].len = @ + bio[b].size] = [rqs EXCEPT ![r] = e]
  BY <1>9, <1>10, Zenon DEF q
<1> QED
  BY <1>2, <1>7, <1>8, <1>11, Zenon DEF q

LEMMA GrownFront ==
    ASSUME QInv, NEW b \in Bios, st[b] = "new", NEW r \in Range(look),
           rqs[r].pos = bio[b].sector + bio[b].size, rqs[r].rw = bio[b].rw
    PROVE  \E e \in Rq : /\ FsRq(e) /\ Once(e.bios) /\ Range(e.bios) = Range(rqs[r].bios) \cup {b}
                         /\ e.flags = rqs[r].flags /\ RqEnd(e) = RqEnd(rqs[r])
                         /\ e.bios = <<b>> \o rqs[r].bios
                         /\ e.pos = bio[b].sector /\ e.len = rqs[r].len + bio[b].size
                         /\ [rqs EXCEPT ![r].bios = <<b>> \o @, ![r].pos = bio[b].sector,
                                        ![r].len = @ + bio[b].size] = [rqs EXCEPT ![r] = e]
<1> DEFINE q == rqs[r]
           f == BioRequest(b)
           e == Fused(f, q, q.flags)
<1>1. /\ bio \in Workloads /\ rqs \in [Reqs -> Rq] /\ st \in [Reqs -> Where]
      /\ r \in Reqs /\ q \in Rq /\ FsRq(q)
  BY QFacts
<1>2. /\ f \in Rq /\ FsRq(f) /\ Range(f.bios) = {b} /\ Once(f.bios)
  BY <1>1, OneBio
<1>3. f.bios = <<b>> /\ f.pos = bio[b].sector /\ f.len = bio[b].size /\ f.rw = bio[b].rw
  BY DEF BioRequest
<1>4. Once(q.bios) /\ b \notin Range(q.bios)
  BY <1>1, NewBio DEF QInv, Carry
<1>5. q.flags \in SUBSET {"nomerge", "started"}
  BY <1>1 DEF FsRq
<1>12. q.len \in Nat /\ bio[b].size \in Nat /\ bio[b].sector \in Nat
  BY <1>1, BioFacts, RqFields
<1> HIDE DEF q, f
<1>6. Range(f.bios) \cap Range(q.bios) = {} /\ RqEnd(f) = q.pos /\ f.rw = q.rw
  BY <1>2, <1>3, <1>4 DEF q, RqEnd
<1>7. /\ e \in Rq /\ FsRq(e) /\ Range(e.bios) = Range(f.bios) \cup Range(q.bios) /\ Once(e.bios)
      /\ RqEnd(e) = RqEnd(q)
  BY <1>1, <1>2, <1>4, <1>5, <1>6, FusedRq
<1>8. /\ e.flags = q.flags /\ e.bios = <<b>> \o q.bios /\ e.len = q.len + bio[b].size
      /\ e.pos = bio[b].sector
  BY <1>3, <1>12 DEF Fused
<1>9. [q EXCEPT !.bios = <<b>> \o @, !.pos = bio[b].sector, !.len = @ + bio[b].size] = e
  <2> DEFINE u == <<b>> \o q.bios
             p == bio[b].sector
             v == q.len + bio[b].size
  <2>3. u \in Seq(Bios) /\ p \in 0 .. MaxSector /\ v \in 0 .. Capacity
    BY <1>7, <1>8 DEF Rq
  <2>4. e = [bios |-> u, pos |-> p, len |-> v, rw |-> q.rw, flags |-> q.flags]
    <3>1. e = [bios |-> e.bios, pos |-> e.pos, len |-> e.len, rw |-> e.rw, flags |-> e.flags]
      BY <1>7, RqLiteral
    <3>2. e.rw = q.rw
      BY <1>6 DEF Fused
    <3> HIDE DEF e
    <3> QED
      BY <1>8, <3>1, <3>2
  <2> HIDE DEF u, p, v, e
  <2>5. [q EXCEPT !.bios = u, !.pos = p, !.len = v] =
           [bios |-> u, pos |-> p, len |-> v, rw |-> q.rw, flags |-> q.flags]
    <3> DEFINE z == [q EXCEPT !.bios = u, !.pos = p, !.len = v]
    <3>1. /\ z \in Rq /\ z.bios = u /\ z.len = v /\ z.pos = p /\ z.rw = q.rw
          /\ z.flags = q.flags
      BY <1>1, <2>3 DEF Rq
    <3> HIDE DEF z
    <3>2. z = [bios |-> u, pos |-> p, len |-> v, rw |-> q.rw, flags |-> q.flags]
      BY <3>1, RqLiteral, Zenon
    <3> QED
      BY <3>2 DEF z
  <2> QED
    BY <2>4, <2>5, Zenon DEF u, p, v
<1>10. [rqs EXCEPT ![r].bios = <<b>> \o @, ![r].pos = bio[b].sector, ![r].len = @ + bio[b].size] =
          [rqs EXCEPT ![r] = [rqs[r] EXCEPT !.bios = <<b>> \o @, !.pos = bio[b].sector,
                                            !.len = @ + bio[b].size]]
  BY <1>1
<1> HIDE DEF e
<1>11. [rqs EXCEPT ![r].bios = <<b>> \o @, ![r].pos = bio[b].sector, ![r].len = @ + bio[b].size] =
          [rqs EXCEPT ![r] = e]
  BY <1>9, <1>10, Zenon DEF q
<1>13. Range(e.bios) = Range(q.bios) \cup {b}
  BY <1>2, <1>7
<1> QED
  BY <1>7, <1>8, <1>11, <1>13, Zenon DEF q

LEMMA QBackMerge ==
    ASSUME QInv, NEW b \in Bios, BackMerge(b)
    PROVE  QInv'
<1> DEFINE m == elv_merge(b)
           r == m.rq
           grown == [rqs EXCEPT ![r].bios = Append(@, b), ![r].len = @ + bio[b].size]
           next == look_latter_request(r)
<1>1. /\ st[b] = "new" /\ m.type = "back"
      /\ IF MayJoin(grown, r, next) THEN JoinRequests(grown, m.chain, r, next)
                                    ELSE MergedRequest(grown, m.chain, r, "back")
      /\ st' = [st EXCEPT ![b] = "queued"]
      /\ UNCHANGED <<bio, cur_pos, dir, queue_head, inflight, end_sector, before>>
  BY DEF BackMerge
<1>2. /\ r \in Range(look) /\ rqs[r].rw = bio[b].rw /\ RqEnd(rqs[r]) = bio[b].sector
      /\ m.chain \in Seq(HashEntry) /\ Fresh(rqs, look, m.chain)
  BY <1>1, MergeFound
<1> HIDE DEF m
<1>3. PICK e \in Rq : /\ FsRq(e) /\ Once(e.bios) /\ Range(e.bios) = Range(rqs[r].bios) \cup {b}
                      /\ e.flags = rqs[r].flags /\ e.bios = rqs[r].bios \o <<b>>
                      /\ e.pos = rqs[r].pos /\ e.len = rqs[r].len + bio[b].size
                      /\ grown = [rqs EXCEPT ![r] = e]
  BY <1>1, <1>2, GrownBack
<1> HIDE DEF grown, r, next
<1>4. CASE MayJoin(grown, r, next)
  <2>1. next # NULL
    BY <1>4 DEF MayJoin
  <2>2. next \in Range(look) /\ next # r
    BY <1>2, <2>1, Neighbour DEF next, look_latter_request
  <2>3. JoinRequests(grown, m.chain, r, next)
    BY <1>1, <1>4
  <2> QED
    BY <1>1, <1>2, <1>3, <1>4, <2>2, <2>3, JoinedStep
<1>5. CASE ~MayJoin(grown, r, next)
  <2>1. MergedRequest(grown, m.chain, r, "back")
    BY <1>1, <1>5
  <2> QED
    BY <1>1, <1>2, <1>3, <2>1, MergedStep
<1> QED
  BY <1>4, <1>5

LEMMA QFrontMerge ==
    ASSUME QInv, NEW b \in Bios, FrontMerge(b)
    PROVE  QInv'
<1> DEFINE m == elv_merge(b)
           r == m.rq
           grown == [rqs EXCEPT ![r].bios = <<b>> \o @, ![r].pos = bio[b].sector,
                                ![r].len = @ + bio[b].size]
           prev == look_former_request(r)
<1>1. /\ st[b] = "new" /\ m.type = "front"
      /\ IF MayJoin(grown, prev, r) THEN JoinRequests(grown, m.chain, prev, r)
                                    ELSE MergedRequest(grown, m.chain, r, "front")
      /\ st' = [st EXCEPT ![b] = "queued"]
      /\ UNCHANGED <<bio, cur_pos, dir, queue_head, inflight, end_sector, before>>
  BY DEF FrontMerge
<1>2. /\ r \in Range(look) /\ rqs[r].rw = bio[b].rw /\ rqs[r].pos = bio[b].sector + bio[b].size
      /\ m.chain \in Seq(HashEntry) /\ Fresh(rqs, look, m.chain)
  BY <1>1, MergeFound
<1> HIDE DEF m
<1>3. PICK e \in Rq : /\ FsRq(e) /\ Once(e.bios) /\ Range(e.bios) = Range(rqs[r].bios) \cup {b}
                      /\ e.flags = rqs[r].flags /\ RqEnd(e) = RqEnd(rqs[r])
                      /\ e.bios = <<b>> \o rqs[r].bios
                      /\ e.pos = bio[b].sector /\ e.len = rqs[r].len + bio[b].size
                      /\ grown = [rqs EXCEPT ![r] = e]
  BY <1>1, <1>2, GrownFront
<1> HIDE DEF grown, r, prev
<1>4. CASE MayJoin(grown, prev, r)
  <2>1. prev # NULL
    BY <1>4 DEF MayJoin
  <2>2. prev \in Range(look) /\ prev # r
    BY <1>2, <2>1, Neighbour DEF prev, look_former_request
  <2>3. JoinRequests(grown, m.chain, prev, r)
    BY <1>1, <1>4
  <2> QED
    BY <1>1, <1>2, <1>3, <1>4, <2>2, <2>3, JoinedStep
<1>5. CASE ~MayJoin(grown, prev, r)
  <2>1. MergedRequest(grown, m.chain, r, "front")
    BY <1>1, <1>5
  <2> QED
    BY <1>1, <1>2, <1>3, <2>1, MergedStep
<1> QED
  BY <1>4, <1>5

\* A flag is set on request r.
FlagSet(n, m, r, f) == n = [m EXCEPT ![r].flags = @ \cup {f}]

\* The requests n are those of m, but for their flags.
SameRqs(n, m) ==
    \A x \in Reqs : /\ n[x].bios = m[x].bios /\ n[x].pos = m[x].pos
                    /\ n[x].len = m[x].len /\ n[x].rw = m[x].rw
                    /\ RqEnd(n[x]) = RqEnd(m[x])
                    /\ n[x] # NoRq <=> m[x] # NoRq

LEMMA FlaggedRqs ==
    ASSUME bio \in Workloads, NEW m, RqsOK(m), NEW r \in Reqs, m[r] # NoRq, NEW f,
           r \in Bios => f \in {"nomerge", "started"}, r \in Pcs => f \in {"soft", "started"},
           NEW n, FlagSet(n, m, r, f)
    PROVE  RqsOK(n) /\ SameRqs(n, m)
<1> DEFINE e == [m[r] EXCEPT !.flags = @ \cup {f}]
<1>1. m \in [Reqs -> Rq] /\ m[r] \in Rq
  BY DEF RqsOK
<1>2. n = [m EXCEPT ![r] = e]
  BY <1>1 DEF FlagSet
<1>3. f \in Flags
  BY DEF Reqs, Flags
<1>4. /\ e \in Rq /\ e.bios = m[r].bios /\ e.pos = m[r].pos /\ e.len = m[r].len /\ e.rw = m[r].rw
      /\ e.flags = m[r].flags \cup {f}
  BY <1>1, <1>3 DEF Rq
<1> HIDE DEF e
<1>5. n \in [Reqs -> Rq] /\ n[r] = e /\ \A x \in Reqs : x # r => n[x] = m[x]
  BY <1>1, <1>2, <1>4
<1>6. RqEnd(e) = RqEnd(m[r])
  BY <1>4 DEF RqEnd
<1>7. r \in Bios => FsRq(e)
  BY <1>4, <1>6 DEF RqsOK, FsRq
<1>8. r \in Pcs => PcRq(e)
  BY <1>4 DEF RqsOK, PcRq
<1>9. e # NoRq
  BY <1>7, <1>8, FreeRq DEF Reqs
<1>10. RqsOK(n)
  BY <1>5, <1>7, <1>8 DEF RqsOK, Reqs
<1>11. SameRqs(n, m)
  BY <1>4, <1>5, <1>6, <1>9 DEF SameRqs
<1> QED
  BY <1>10, <1>11

LEMMA QGetRequest ==
    ASSUME QInv, NEW b \in Bios, get_request(b)
    PROVE  QInv'
<1> DEFINE m == elv_merge(b)
           big == ~elv_queue_empty /\ m.type # "none" /\ ~Fits(m.rq, b)
           full == IF big THEN [rqs EXCEPT ![m.rq].flags = @ \cup {"nomerge"}] ELSE rqs
           chain == IF elv_queue_empty THEN hash ELSE m.chain
<1>1. /\ st[b] = "new" /\ rqs' = [full EXCEPT ![b] = BioRequest(b)] /\ hash' = chain
      /\ last_merge' = IF big /\ m.rq = last_merge THEN NULL ELSE last_merge
      /\ st' = [st EXCEPT ![b] = "getrq"]
      /\ UNCHANGED <<bio, look, cur_pos, dir, queue_head, inflight, nr_sorted, end_sector, before>>
  BY DEF get_request, sched
<1>2. /\ m.type # "none" => m.rq \in Range(look)
      /\ m.chain \in Seq(HashEntry) /\ Fresh(rqs, look, m.chain)
  BY MergeFound
<1>3. /\ bio \in Workloads /\ rqs \in [Reqs -> Rq] /\ st \in [Reqs -> Where]
      /\ look \in Seq(Bios) /\ Range(look) \subseteq Bios /\ inflight \subseteq Reqs
      /\ Range(queue_head) \subseteq Reqs /\ b \in Reqs
      /\ \A y \in Bios : y \in Reqs /\ y \notin Pcs
      /\ \A r \in Range(look) : rqs[r] # NoRq /\ st[r] = "queued"
  BY QFacts
<1>4. chain \in Seq(HashEntry) /\ Fresh(rqs, look, chain)
  BY <1>2 DEF QInv, Types, Caches
<1> HIDE DEF m, chain
<1>5. /\ RqsOK(full)
      /\ \A x \in Reqs : /\ full[x].bios = rqs[x].bios /\ RqEnd(full[x]) = RqEnd(rqs[x])
                         /\ full[x] # NoRq <=> rqs[x] # NoRq
                         /\ rq_mergeable(full[x]) => rq_mergeable(rqs[x])
  <2>1. CASE big
    <3> DEFINE r == m.rq
    <3>1. r \in Range(look)
      BY <1>2, <2>1
    <3> HIDE DEF r
    <3>2. r \in Reqs /\ r \in Bios /\ r \notin Pcs /\ rqs[r] # NoRq
      BY <1>3, <3>1
    <3>3. full = [rqs EXCEPT ![r].flags = @ \cup {"nomerge"}]
      BY <2>1 DEF r
    <3> HIDE DEF full
    <3>4. /\ bio \in Workloads /\ RqsOK(rqs) /\ r \in Reqs /\ rqs[r] # NoRq
          /\ r \in Bios => "nomerge" \in {"nomerge", "started"}
          /\ r \in Pcs => "nomerge" \in {"soft", "started"}
          /\ FlagSet(full, rqs, r, "nomerge")
      BY <1>3, <3>2, <3>3 DEF QInv, FlagSet
    <3>5. RqsOK(full) /\ SameRqs(full, rqs)
      BY <3>4, FlaggedRqs
    <3>6. full[r].flags = rqs[r].flags \cup {"nomerge"} /\ \A x \in Reqs : x # r => full[x] = rqs[x]
      BY <1>3, <3>2, <3>3 DEF Rq
    <3> QED
      BY <3>5, <3>6 DEF rq_mergeable, SameRqs
  <2>2. CASE ~big
    BY <2>2 DEF QInv
  <2> QED
    BY <2>1, <2>2
<1> HIDE DEF full, big
<1>6. full \in [Reqs -> Rq]
  BY <1>5 DEF RqsOK
<1>7. Carry(full, st)
  <2>1. /\ Carry(rqs, st) /\ \A r \in Reqs : full[r].bios = rqs[r].bios
        /\ \A c \in Bios : st[c] = st[c] /\ (full[c] # NoRq => rqs[c] # NoRq)
    BY <1>3, <1>5 DEF QInv
  <2> QED
    BY <1>3, <1>6, <2>1, CarrySame
<1>8. Carry(rqs, st)'
  BY <1>1, <1>3, <1>6, <1>7, CarryNew
<1>9. BioRequest(b) \in Rq /\ FsRq(BioRequest(b)) /\ BioRequest(b) # NoRq
  BY <1>3, OneBio, FreeRq
<1>10. /\ rqs' \in [Reqs -> Rq] /\ rqs'[b] = BioRequest(b)
       /\ \A x \in Reqs : x # b => rqs'[x] = full[x]
  BY <1>1, <1>3, <1>6, <1>9
<1>11. RqsOK(rqs)'
  <2>1. RqsOK(rqs')
    BY <1>3, <1>5, <1>9, <1>10 DEF RqsOK, Reqs
  <2> QED
    BY <1>1, <2>1, SameBios
<1>12. st' \in [Reqs -> Where] /\ st'[b] = "getrq" /\ \A x \in Reqs : x # b => st'[x] = st[x]
  BY <1>1, <1>3 DEF Where
<1>13. Types'
  BY <1>1, <1>3, <1>4, <1>12 DEF QInv, Types, Where
<1>14. \A x \in Range(look) \cup Range(queue_head) \cup inflight : x # b /\ x \in Reqs
  BY <1>1, <1>3 DEF QInv, Places
<1>15. Places'
  <2>1. \A x \in Range(look) \cup Range(queue_head) \cup inflight : st'[x] = "queued"
    BY <1>12, <1>14 DEF QInv, Places
  <2>2. ASSUME NEW x \in Reqs
        PROVE  rqs'[x] # NoRq <=> \/ x \in Range(look) \/ x \in Range(queue_head) \/ x \in inflight
                                  \/ st'[x] \in {"getrq", "insert"}
    BY <1>5, <1>9, <1>10, <1>12 DEF QInv, Places
  <2> QED
    BY <1>1, <2>1, <2>2 DEF QInv, Places
<1>16. Caches'
  <2>1. \A x \in Range(look) : /\ RqEnd(rqs'[x]) = RqEnd(rqs[x])
                               /\ rq_mergeable(rqs'[x]) => rq_mergeable(rqs[x])
    BY <1>5, <1>10, <1>14
  <2>2. Fresh(rqs', look, chain)
    BY <1>4, <2>1 DEF Fresh
  <2> QED
    BY <1>1, <2>2 DEF QInv, Caches, Fresh
<1> QED
  BY <1>8, <1>11, <1>13, <1>15, <1>16 DEF QInv

LEMMA QAddRequest ==
    ASSUME QInv, NEW b \in Bios, add_request(b)
    PROVE  QInv'
<1> DEFINE n == [rq |-> b, slot |-> ELV_HASH_FN(RqEnd(rqs[b]))]
<1>1. /\ st[b] = "getrq" /\ nr_sorted' = nr_sorted + 1
      /\ hash' = elv_rqhash_add(hash, b, rqs[b])
      /\ last_merge' = IF last_merge = NULL THEN b ELSE last_merge
      /\ look' = Append(look, b)
      /\ st' = [st EXCEPT ![b] = "queued"]
      /\ UNCHANGED <<bio, rqs, cur_pos, dir, queue_head, inflight, end_sector, before>>
  BY DEF add_request
<1>2. /\ bio \in Workloads /\ rqs \in [Reqs -> Rq] /\ st \in [Reqs -> Where]
      /\ look \in Seq(Bios) /\ Range(look) \subseteq Bios /\ inflight \subseteq Reqs
      /\ Range(queue_head) \subseteq Reqs /\ b \in Reqs /\ hash \in Seq(HashEntry)
      /\ \A y \in Bios : y \in Reqs /\ y \notin Pcs
  BY QFacts
<1>3. rqs[b] # NoRq /\ rqs[b] \in Rq
  BY <1>1, <1>2 DEF QInv, Places
<1>4. \A x \in Range(look) \cup Range(queue_head) \cup inflight : x # b /\ x \in Reqs
  BY <1>1, <1>2 DEF QInv, Places
<1>5. /\ look' \in Seq(Bios) /\ Range(look') = Range(look) \cup {b}
      /\ \A x, y : Prec(look', x, y) <=> Prec(look, x, y) \/ (x \in Range(look) /\ y = b)
      /\ Len(look') = Len(look) + 1
  BY <1>1, <1>2, AppendOrder, AppendProperties
<1>6. Once(look')
  BY <1>4, <1>5 DEF QInv, Places, Once
<1>7. hash' \in Seq(HashEntry) /\ Range(hash') = Range(hash) \cup {n}
  <2> DEFINE q == rqs[b]
  <2>1. bio \in Workloads /\ hash \in Seq(HashEntry) /\ q \in Rq
    BY <1>2, <1>3
  <2> HIDE DEF q
  <2>2. /\ elv_rqhash_add(hash, b, q) \in Seq(HashEntry)
        /\ Range(elv_rqhash_add(hash, b, q)) =
              Range(hash) \cup {[rq |-> b, slot |-> ELV_HASH_FN(RqEnd(q))]}
    BY <2>1, HashEntriesOf
  <2> QED
    BY <1>1, <2>2 DEF q
<1>8. n.rq = b /\ n.slot = ELV_HASH_FN(RqEnd(rqs[b]))
  OBVIOUS
<1> HIDE DEF n
<1>9. st' \in [Reqs -> Where] /\ st'[b] = "queued" /\ \A x \in Reqs : x # b => st'[x] = st[x]
  BY <1>1, <1>2 DEF Where
<1>10. Types'
  BY <1>1, <1>2, <1>5, <1>7, <1>9 DEF QInv, Types, Where
<1>11. RqsOK(rqs)'
  BY <1>1, SameBios DEF QInv
<1>12. Carry(rqs, st)'
  <2>1. \A r \in Reqs : Range(rqs[r].bios) \subseteq Bios
    BY <1>2, CarriedBios
  <2>2. ASSUME NEW r \in Reqs, NEW c \in Range(rqs[r].bios)
        PROVE  st'[c] = "queued" \/ (st'[c] = "getrq" /\ r = c)
    BY <1>2, <1>9, <2>1, <2>2 DEF QInv, Carry
  <2>3. ASSUME NEW c \in Bios, st'[c] \in {"getrq", "queued"}
        PROVE  \E r \in Reqs : c \in Range(rqs[r].bios)
    BY <1>1, <1>2, <1>9, <2>3 DEF QInv, Carry
  <2> QED
    BY <1>1, <2>2, <2>3 DEF QInv, Carry
<1>13. Places'
  <2>1. \A x \in Range(look') \cup Range(queue_head) \cup inflight : st'[x] = "queued"
    BY <1>4, <1>5, <1>9 DEF QInv, Places
  <2>2. ASSUME NEW x \in Reqs
        PROVE  rqs[x] # NoRq <=> \/ x \in Range(look') \/ x \in Range(queue_head) \/ x \in inflight
                                 \/ st'[x] \in {"getrq", "insert"}
    BY <1>3, <1>5, <1>9 DEF QInv, Places
  <2> QED
    BY <1>1, <1>4, <1>5, <1>6, <2>1, <2>2 DEF QInv, Places
<1>14. Caches'
  <2>1. Fresh(rqs, look', hash')
    BY <1>5, <1>7, <1>8 DEF QInv, Caches, Fresh
  <2>2. last_merge' \in Range(look') \cup {NULL} /\ nr_sorted' = Len(look')
    BY <1>1, <1>5 DEF QInv, Caches
  <2> QED
    BY <1>1, <2>1, <2>2 DEF Caches, Fresh
<1> QED
  BY <1>10, <1>11, <1>12, <1>13, <1>14 DEF QInv

\* A step that sets a flag and leaves the bios where they are.
LEMMA QFlagged ==
    ASSUME QInv, NEW r \in Reqs, rqs[r] # NoRq, NEW f,
           r \in Bios => f \in {"nomerge", "started"}, r \in Pcs => f \in {"soft", "started"},
           NEW n, FlagSet(n, rqs, r, f),
           NEW t \in [Reqs -> Where], \A c \in Bios : t[c] = st[c]
    PROVE  /\ RqsOK(n) /\ Carry(n, t) /\ Fresh(n, look, hash)
           /\ \A x \in Reqs : n[x] # NoRq <=> rqs[x] # NoRq
<1>1. /\ bio \in Workloads /\ RqsOK(rqs) /\ rqs \in [Reqs -> Rq] /\ st \in [Reqs -> Where]
      /\ Range(look) \subseteq Bios /\ Carry(rqs, st) /\ \A b \in Bios : b \in Reqs
  BY QFacts DEF QInv
<1>3. RqsOK(n) /\ SameRqs(n, rqs)
  BY <1>1, FlaggedRqs
<1>4. n[r].flags = rqs[r].flags \cup {f} /\ \A x \in Reqs : x # r => n[x] = rqs[x]
  BY <1>1 DEF Rq, FlagSet
<1>6. \A x \in Reqs : rq_mergeable(n[x]) => rq_mergeable(rqs[x])
  BY <1>4 DEF rq_mergeable
<1>7. \A x \in Reqs : n[x] # NoRq <=> rqs[x] # NoRq
  BY <1>3 DEF SameRqs
<1>8. Carry(n, t)
  <2>1. n \in [Reqs -> Rq]
    BY <1>3 DEF RqsOK
  <2>2. /\ \A x \in Reqs : n[x].bios = rqs[x].bios
        /\ \A c \in Bios : t[c] = st[c] /\ (n[c] # NoRq => rqs[c] # NoRq)
    BY <1>1, <1>3 DEF SameRqs
  <2> QED
    BY <1>1, <2>1, <2>2, CarrySame
<1>9. Fresh(n, look, hash)
  <2>1. \A x \in Range(look) : /\ RqEnd(n[x]) = RqEnd(rqs[x])
                               /\ rq_mergeable(n[x]) => rq_mergeable(rqs[x])
    BY <1>1, <1>3, <1>6 DEF SameRqs
  <2> QED
    BY <2>1 DEF QInv, Caches, Fresh
<1> QED
  BY <1>3, <1>7, <1>8, <1>9

LEMMA QPcGetRequest ==
    ASSUME QInv, NEW p \in Pcs, blk_get_request(p)
    PROVE  QInv'
<1> DEFINE e == [bios |-> << >>, pos |-> MaxSector, len |-> 0, rw |-> "read", flags |-> {"pc"}]
<1>1. /\ st[p] = "new" /\ st' = [st EXCEPT ![p] = "getrq"] /\ rqs' = [rqs EXCEPT ![p] = e]
      /\ UNCHANGED <<bio, look, cur_pos, dir, queue_head, inflight, hash, last_merge, nr_sorted,
                     end_sector, before>>
  BY DEF blk_get_request, sched, merging
<1>2. /\ bio \in Workloads /\ rqs \in [Reqs -> Rq] /\ st \in [Reqs -> Where]
      /\ Range(look) \subseteq Bios /\ inflight \subseteq Reqs /\ Range(queue_head) \subseteq Reqs
      /\ \A y \in Bios : y \in Reqs /\ y \notin Pcs
  BY QFacts
<1>3. p \in Reqs /\ p \notin Bios
  BY <1>2 DEF Reqs
<1>4. e \in Rq
  <2>1. << >> \in Seq(Bios) /\ {"pc"} \in SUBSET Flags /\ MaxSector \in 0 .. MaxSector /\ 0 \in 0 .. Capacity
    BY <1>2, BioFacts DEF Flags
  <2> QED
    BY <2>1 DEF Rq
<1>5. PcRq(e)
  BY DEF PcRq
<1>6. e # NoRq /\ e.bios = << >> /\ NoRq.bios = << >>
  BY DEF NoRq
<1> HIDE DEF e
<1>7. rqs[p] = NoRq
  BY <1>1, <1>3 DEF QInv, Places
<1>8. /\ rqs' \in [Reqs -> Rq] /\ rqs'[p] = e /\ \A x \in Reqs : x # p => rqs'[x] = rqs[x]
  BY <1>1, <1>2, <1>3, <1>4
<1>9. st' \in [Reqs -> Where] /\ st'[p] = "getrq" /\ \A x \in Reqs : x # p => st'[x] = st[x]
  BY <1>1, <1>2, <1>3 DEF Where
<1>10. Carry(rqs, st)'
  <2>1. /\ \A x \in Reqs : rqs'[x].bios = rqs[x].bios
        /\ \A c \in Bios : st'[c] = st[c] /\ (rqs'[c] # NoRq => rqs[c] # NoRq)
    BY <1>2, <1>3, <1>6, <1>7, <1>8, <1>9
  <2>2. Carry(rqs, st)
    BY DEF QInv
  <2>3. Carry(rqs', st')
    BY <1>2, <1>8, <1>9, <2>1, <2>2, CarrySame
  <2> QED
    BY <2>3
<1>11. RqsOK(rqs)'
  <2>1. RqsOK(rqs')
    BY <1>2, <1>3, <1>5, <1>8 DEF QInv, RqsOK, Reqs
  <2> QED
    BY <1>1, <2>1, SameBios
<1>12. Types'
  BY <1>1, <1>2, <1>3, <1>9 DEF QInv, Types, Where
<1>13. \A x \in Range(look) \cup Range(queue_head) \cup inflight : x # p /\ x \in Reqs
  BY <1>1, <1>2 DEF QInv, Places
<1>14. Places'
  <2>1. \A x \in Range(look) \cup Range(queue_head) \cup inflight : st'[x] = "queued"
    BY <1>9, <1>13 DEF QInv, Places
  <2>2. ASSUME NEW x \in Reqs
        PROVE  rqs'[x] # NoRq <=> \/ x \in Range(look) \/ x \in Range(queue_head) \/ x \in inflight
                                  \/ st'[x] \in {"getrq", "insert"}
    BY <1>6, <1>8, <1>9 DEF QInv, Places
  <2> QED
    BY <1>1, <2>1, <2>2 DEF QInv, Places
<1>15. Caches'
  <2>1. \A x \in Range(look) : rqs'[x] = rqs[x]
    BY <1>8, <1>13
  <2> QED
    BY <1>1, <2>1 DEF QInv, Caches, Fresh
<1> QED
  BY <1>10, <1>11, <1>12, <1>14, <1>15 DEF QInv

LEMMA QExecute ==
    ASSUME QInv, NEW p \in Pcs, NEW at_head \in BOOLEAN, blk_execute_rq_nowait(p, at_head)
    PROVE  QInv'
<1>1. /\ st[p] = "getrq" /\ rqs' = [rqs EXCEPT ![p].flags = @ \cup {"soft"}]
      /\ \/ /\ queue_head' = <<p>> \o queue_head
            /\ st' = [st EXCEPT ![p] = "queued"]
            /\ before' = before
         \/ /\ queue_head' = queue_head
            /\ st' = [st EXCEPT ![p] = "insert"]
            /\ before' = [before EXCEPT ![p] = {b \in Bios : st[b] \in {"queued", "done"}}]
      /\ UNCHANGED <<bio, look, cur_pos, dir, inflight, hash, last_merge, nr_sorted, end_sector>>
  BY DEF blk_execute_rq_nowait, sched, merging
<1>2. /\ bio \in Workloads /\ rqs \in [Reqs -> Rq] /\ st \in [Reqs -> Where]
      /\ Range(look) \subseteq Bios /\ inflight \subseteq Reqs
      /\ queue_head \in Seq(Reqs) /\ Range(queue_head) \subseteq Reqs
      /\ \A y \in Bios : y \in Reqs /\ y \notin Pcs
  BY QFacts
<1>3. p \in Reqs /\ p \notin Bios
  BY <1>2 DEF Reqs
<1>4. rqs[p] # NoRq
  BY <1>1, <1>3 DEF QInv, Places
<1>5. /\ st' \in [Reqs -> Where] /\ \A x \in Reqs : x # p => st'[x] = st[x]
      /\ st'[p] = "queued" \/ st'[p] = "insert"
  BY <1>1, <1>2, <1>3 DEF Where
<1>6. /\ RqsOK(rqs') /\ Carry(rqs', st') /\ Fresh(rqs', look, hash)
      /\ \A x \in Reqs : rqs'[x] # NoRq <=> rqs[x] # NoRq
  <2>1. \A c \in Bios : st'[c] = st[c]
    BY <1>2, <1>3, <1>5
  <2>2. /\ p \in Bios => "soft" \in {"nomerge", "started"}
        /\ p \in Pcs => "soft" \in {"soft", "started"}
    BY <1>3
  <2>3. FlagSet(rqs', rqs, p, "soft")
    BY <1>1 DEF FlagSet
  <2> QED
    BY <1>3, <1>4, <1>5, <2>1, <2>2, <2>3, QFlagged
<1>7. before' \in [Pcs -> (SUBSET Bios) \cup {NULL}]
  <2>1. before \in [Pcs -> (SUBSET Bios) \cup {NULL}]
    BY DEF QInv, Types
  <2>2. {b \in Bios : st[b] \in {"queued", "done"}} \in SUBSET Bios
    OBVIOUS
  <2> QED
    BY <1>1, <2>1, <2>2
<1>8. /\ <<p>> \o queue_head \in Seq(Reqs) /\ Range(<<p>> \o queue_head) = Range(queue_head) \cup {p}
      /\ \A x, y : Prec(<<p>> \o queue_head, x, y) <=>
            Prec(queue_head, x, y) \/ (x = p /\ y \in Range(queue_head))
  BY <1>2, <1>3, FrontOrder
<1>9. \A x \in Range(look) \cup Range(queue_head) \cup inflight : x # p /\ x \in Reqs
  BY <1>1, <1>2 DEF QInv, Places
<1>10. Once(<<p>> \o queue_head)
  BY <1>8, <1>9 DEF QInv, Places, Once
<1>11. /\ queue_head' \in Seq(Reqs) /\ Once(queue_head')
       /\ Range(queue_head') = Range(queue_head) \/ Range(queue_head') = Range(queue_head) \cup {p}
       /\ p \in Range(queue_head') <=> st'[p] = "queued"
  BY <1>1, <1>2, <1>3, <1>5, <1>8, <1>9, <1>10 DEF QInv, Places
<1>12. Types'
  BY <1>1, <1>2, <1>3, <1>5, <1>7, <1>11 DEF QInv, Types, Where
<1>13. Places'
  <2>1. \A x \in Range(look) \cup Range(queue_head') \cup inflight : st'[x] = "queued"
    BY <1>5, <1>9, <1>11 DEF QInv, Places
  <2>2. ASSUME NEW x \in Reqs
        PROVE  rqs'[x] # NoRq <=> \/ x \in Range(look) \/ x \in Range(queue_head') \/ x \in inflight
                                  \/ st'[x] \in {"getrq", "insert"}
    <3>1. CASE x = p
      BY <1>4, <1>5, <1>6, <1>11, <3>1
    <3>2. CASE x # p
      <4>1. x \in Range(queue_head') <=> x \in Range(queue_head)
        BY <1>11, <3>2
      <4> QED
        BY <1>5, <1>6, <3>2, <4>1 DEF QInv, Places
    <3> QED
      BY <3>1, <3>2
  <2> QED
    BY <1>1, <1>9, <1>11, <2>1, <2>2 DEF QInv, Places
<1>14. Caches'
  BY <1>1, <1>6 DEF QInv, Caches, Fresh
<1>15. RqsOK(rqs)'
  BY <1>1, <1>6, SameBios
<1> QED
  BY <1>6, <1>12, <1>13, <1>14, <1>15 DEF QInv

LEMMA QAddTail ==
    ASSUME QInv, AddTail
    PROVE  QInv'
<1>1. PICK p \in Pcs : /\ st[p] = "insert" /\ queue_head' = Append(queue_head, p)
                       /\ st' = [st EXCEPT ![p] = "queued"]
  BY DEF AddTail
<1>2. UNCHANGED <<bio, rqs, look, cur_pos, dir, inflight, hash, last_merge, nr_sorted, end_sector,
                  before>>
  BY DEF AddTail, sched, merging
<1>3. /\ bio \in Workloads /\ rqs \in [Reqs -> Rq] /\ st \in [Reqs -> Where]
      /\ Range(look) \subseteq Bios /\ inflight \subseteq Reqs
      /\ queue_head \in Seq(Reqs) /\ Range(queue_head) \subseteq Reqs
      /\ \A y \in Bios : y \in Reqs /\ y \notin Pcs
  BY QFacts
<1>4. p \in Reqs /\ p \notin Bios
  BY <1>3 DEF Reqs
<1>5. /\ st' \in [Reqs -> Where] /\ \A x \in Reqs : x # p => st'[x] = st[x]
      /\ st'[p] = "queued" /\ \A c \in Bios : st'[c] = st[c]
  BY <1>1, <1>3, <1>4 DEF Where
<1>6. \A x \in Range(look) \cup Range(queue_head) \cup inflight : x # p /\ x \in Reqs
  BY <1>1, <1>3 DEF QInv, Places
<1>7. /\ queue_head' \in Seq(Reqs) /\ Range(queue_head') = Range(queue_head) \cup {p}
      /\ \A x, y : Prec(queue_head', x, y) <=>
            Prec(queue_head, x, y) \/ (x \in Range(queue_head) /\ y = p)
  BY <1>1, <1>3, <1>4, AppendOrder
<1>8. Once(queue_head')
  BY <1>6, <1>7 DEF QInv, Places, Once
<1>9. Types'
  BY <1>2, <1>3, <1>5, <1>7 DEF QInv, Types, Where
<1>10. Places'
  <2>1. \A x \in Range(look) \cup Range(queue_head') \cup inflight : st'[x] = "queued"
    BY <1>5, <1>6, <1>7 DEF QInv, Places
  <2>2. ASSUME NEW x \in Reqs
        PROVE  rqs[x] # NoRq <=> \/ x \in Range(look) \/ x \in Range(queue_head') \/ x \in inflight
                                 \/ st'[x] \in {"getrq", "insert"}
    BY <1>1, <1>5, <1>7 DEF QInv, Places
  <2> QED
    BY <1>2, <1>6, <1>7, <1>8, <2>1, <2>2 DEF QInv, Places
<1>11. Carry(rqs, st)'
  <2>1. Carry(rqs, st)
    BY DEF QInv
  <2>2. /\ \A x \in Reqs : rqs[x].bios = rqs[x].bios
        /\ \A c \in Bios : st'[c] = st[c] /\ (rqs[c] # NoRq => rqs[c] # NoRq)
    BY <1>5
  <2>3. Carry(rqs, st')
    BY <1>3, <1>5, <2>1, <2>2, CarrySame
  <2> QED
    BY <1>2, <2>3
<1>12. RqsOK(rqs)'
  BY <1>2, SameBios DEF QInv
<1>13. Caches'
  BY <1>2 DEF QInv, Caches, Fresh
<1> QED
  BY <1>9, <1>10, <1>11, <1>12, <1>13 DEF QInv

\* The request at the head of the dispatch queue: it is in no other place,
\* nor twice on the queue.
LEMMA QueueHead ==
    ASSUME QInv, queue_head # << >>
    PROVE  LET r == Head(queue_head)
           IN  /\ r \in Range(queue_head) /\ r \in Reqs /\ rqs[r] # NoRq
               /\ r \in Bios => FsRq(rqs[r])
               /\ r \in Pcs => PcRq(rqs[r])
               /\ RqEnd(rqs[r]) \in 0 .. MaxSector
               /\ Tail(queue_head) \in Seq(Reqs) /\ Once(Tail(queue_head))
               /\ Range(queue_head) = Range(Tail(queue_head)) \cup {r}
               /\ r \notin Range(Tail(queue_head))
<1> DEFINE r == Head(queue_head)
           tl == Tail(queue_head)
<1>1. /\ bio \in Workloads /\ rqs \in [Reqs -> Rq] /\ queue_head \in Seq(Reqs)
      /\ Range(queue_head) \subseteq Reqs /\ Once(queue_head)
  BY QFacts DEF QInv, Places
<1>2. /\ tl \in Seq(Reqs) /\ Range(queue_head) = Range(tl) \cup {r}
      /\ \A x, y : Prec(queue_head, x, y) <=> Prec(tl, x, y) \/ (x = r /\ y \in Range(tl))
  BY <1>1, TailOrder
<1> HIDE DEF r, tl
<1>3. Once(tl) /\ r \notin Range(tl)
  BY <1>1, <1>2 DEF Once
<1>4. r \in Range(queue_head) /\ r \in Reqs /\ rqs[r] # NoRq
  BY <1>1, <1>2 DEF QInv, Places
<1>5. /\ r \in Bios => FsRq(rqs[r])
      /\ r \in Pcs => PcRq(rqs[r])
  BY <1>4 DEF QInv, RqsOK
<1>6. RqEnd(rqs[r]) \in 0 .. MaxSector
  <2>1. /\ rqs[r].pos \in Nat /\ rqs[r].len \in Nat /\ RqEnd(rqs[r]) = rqs[r].pos + rqs[r].len
        /\ Capacity \in Nat /\ MaxSector = Capacity + 1
    BY <1>1, <1>4, RqFields, BioFacts
  <2>2. CASE r \in Bios
    BY <1>5, <2>1, <2>2 DEF FsRq
  <2>3. CASE r \in Pcs
    BY <1>5, <2>1, <2>3 DEF PcRq
  <2> QED
    BY <1>4, <2>2, <2>3 DEF Reqs
<1> QED
  BY <1>2, <1>3, <1>4, <1>5, <1>6 DEF r, tl

\* The two ways the request function takes the request at the head.
LEMMA QStarted ==
    ASSUME QInv, queue_head # << >>,
           end_sector' = RqEnd(rqs[Head(queue_head)]),
           FlagSet(rqs', rqs, Head(queue_head), "started"),
           \/ /\ queue_head' = Tail(queue_head) /\ inflight' = inflight \cup {Head(queue_head)}
           \/ queue_head' = queue_head /\ inflight' = inflight,
           UNCHANGED <<bio, st, look, cur_pos, dir, hash, last_merge, nr_sorted, before>>
    PROVE  QInv'
<1> DEFINE r == Head(queue_head)
           tl == Tail(queue_head)
<1>1. /\ r \in Range(queue_head) /\ r \in Reqs /\ rqs[r] # NoRq
      /\ RqEnd(rqs[r]) \in 0 .. MaxSector
      /\ tl \in Seq(Reqs) /\ Once(tl)
      /\ Range(queue_head) = Range(tl) \cup {r}
      /\ r \notin Range(tl)
  BY QueueHead
<1>2. /\ bio \in Workloads /\ rqs \in [Reqs -> Rq] /\ st \in [Reqs -> Where]
      /\ inflight \subseteq Reqs /\ queue_head \in Seq(Reqs)
  BY QFacts
<1>3. /\ end_sector' = RqEnd(rqs[r]) /\ FlagSet(rqs', rqs, r, "started")
      /\ \/ /\ queue_head' = tl /\ inflight' = inflight \cup {r}
         \/ queue_head' = queue_head /\ inflight' = inflight
  OBVIOUS
<1> HIDE DEF r, tl
<1>4. /\ RqsOK(rqs') /\ Carry(rqs', st) /\ Fresh(rqs', look, hash)
      /\ \A x \in Reqs : rqs'[x] # NoRq <=> rqs[x] # NoRq
  <2>1. /\ r \in Bios => "started" \in {"nomerge", "started"}
        /\ r \in Pcs => "started" \in {"soft", "started"}
        /\ \A c \in Bios : st[c] = st[c]
    OBVIOUS
  <2> QED
    BY <1>1, <1>2, <1>3, <2>1, QFlagged
<1>5. RqsOK(rqs)' /\ Carry(rqs, st)'
  BY <1>4, SameBios
<1>6. Types'
  <2>1. queue_head' \in Seq(Reqs) /\ inflight' \subseteq Reqs /\ end_sector' \in 0 .. MaxSector
    BY <1>1, <1>2, <1>3
  <2> QED
    BY <2>1 DEF QInv, Types
<1>7. Places'
  <2>1. /\ Once(queue_head') /\ Range(queue_head') \subseteq Range(queue_head)
        /\ inflight' \subseteq inflight \cup {r}
        /\ \A x \in Range(queue_head') : x \notin inflight'
        /\ Range(queue_head') \cup inflight' = Range(queue_head) \cup inflight
    <3>1. \A x \in Range(queue_head) : x \notin inflight
      BY DEF QInv, Places
    <3>2. Once(queue_head)
      BY DEF QInv, Places
    <3> QED
      BY <1>1, <1>3, <3>1, <3>2
  <2>2. ASSUME NEW x \in Reqs
        PROVE  rqs'[x] # NoRq <=> \/ x \in Range(look) \/ x \in Range(queue_head') \/ x \in inflight'
                                  \/ st[x] \in {"getrq", "insert"}
    BY <1>4, <2>1 DEF QInv, Places
  <2> QED
    BY <1>1, <2>1, <2>2 DEF QInv, Places
<1>8. Caches'
  BY <1>4 DEF QInv, Caches, Fresh
<1> QED
  BY <1>5, <1>6, <1>7, <1>8 DEF QInv

LEMMA QEnded ==
    ASSUME QInv, NEW r \in inflight, blk_done(r)
    PROVE  QInv'
<1>1. /\ inflight' = inflight \ {r}
      /\ st' = [x \in Reqs |-> IF x \in Range(rqs[r].bios) \cup ({r} \cap Pcs) THEN "done" ELSE st[x]]
      /\ rqs' = [rqs EXCEPT ![r] = NoRq]
      /\ UNCHANGED <<bio, look, cur_pos, dir, queue_head, hash, last_merge, nr_sorted, end_sector,
                     before>>
  BY ToSetRange DEF blk_done, EndRequest, sched, merging
<1>2. /\ bio \in Workloads /\ rqs \in [Reqs -> Rq] /\ st \in [Reqs -> Where]
      /\ Range(look) \subseteq Bios /\ inflight \subseteq Reqs
      /\ queue_head \in Seq(Reqs) /\ Range(queue_head) \subseteq Reqs
      /\ \A y \in Bios : y \in Reqs /\ y \notin Pcs
  BY QFacts
<1>3. r \in Reqs /\ rqs[r] # NoRq
  BY <1>2 DEF QInv, Places
<1>4. Range(rqs[r].bios) \subseteq Bios
  BY <1>2, <1>3, CarriedBios
<1>5. /\ st' \in [Reqs -> Where]
      /\ \A c \in Bios : st'[c] = IF c \in Range(rqs[r].bios) THEN "done" ELSE st[c]
      /\ \A x \in Reqs : x # r /\ x \notin Range(rqs[r].bios) => st'[x] = st[x]
      /\ \A x \in Range(rqs[r].bios) : st'[x] = "done"
  BY <1>1, <1>2, <1>4 DEF Where
<1>6. st'[r] = "done"
  <2>1. CASE r \in Bios
    <3>1. r \in Range(rqs[r].bios)
      BY <1>3, <2>1 DEF QInv, Carry
    <3> QED
      BY <1>5, <3>1
  <2>2. CASE r \in Pcs
    BY <1>1, <1>3, <2>2
  <2> QED
    BY <1>3, <2>1, <2>2 DEF Reqs
<1>7. rqs' \in [Reqs -> Rq] /\ rqs'[r] = NoRq /\ \A x \in Reqs : x # r => rqs'[x] = rqs[x]
  BY <1>1, <1>2, <1>3, FreeRq
<1>8. Carry(rqs, st)'
  <2>1. Carry(rqs, st)
    BY DEF QInv
  <2>2. /\ bio \in Workloads /\ rqs \in [Reqs -> Rq] /\ st \in [Reqs -> Where] /\ r \in Reqs
        /\ st' \in [Reqs -> Where]
        /\ \A b \in Bios : st'[b] = IF b \in Range(rqs[r].bios) THEN "done" ELSE st[b]
    BY <1>2, <1>3, <1>5
  <2>3. Carry(rqs', st')
    BY <1>7, <2>1, <2>2, CarryEnded
  <2> QED
    BY <2>3
<1>9. RqsOK(rqs)'
  <2>1. RqsOK(rqs')
    BY <1>2, <1>7 DEF QInv, RqsOK, Reqs
  <2> QED
    BY <1>1, <2>1, SameBios
<1>10. \A x \in Range(rqs[r].bios) : st[x] = "queued"
  <2>1. st[r] = "queued"
    BY DEF QInv, Places
  <2> QED
    BY <1>3, <2>1 DEF QInv, Carry
<1>11. Types'
  <2>1. \A c \in Bios : st'[c] # "insert"
    BY <1>5 DEF QInv, Types
  <2> QED
    BY <1>1, <1>2, <1>5, <2>1 DEF QInv, Types, Where
<1>12. ASSUME NEW x \in Reqs, x # r, rqs[x] # NoRq
       PROVE  st'[x] = st[x]
  <2>1. x \notin Range(rqs[r].bios)
    <3>1. CASE x \in Bios
      <4>1. x \in Range(rqs[x].bios)
        BY <1>12, <3>1 DEF QInv, Carry
      <4>2. Range(rqs[x].bios) \cap Range(rqs[r].bios) = {}
        BY <1>3, <1>12 DEF QInv, Carry
      <4> QED
        BY <4>1, <4>2
    <3>2. CASE x \notin Bios
      BY <1>4, <3>2
    <3> QED
      BY <3>1, <3>2
  <2> QED
    BY <1>5, <1>12, <2>1
<1>13. Places'
  <2>1. \A x \in Range(look) \cup Range(queue_head) \cup inflight' :
            x # r /\ x \in Reqs /\ rqs[x] # NoRq /\ st[x] = "queued"
    BY <1>1, <1>2 DEF QInv, Places
  <2>2. \A x \in Range(look) \cup Range(queue_head) \cup inflight' : st'[x] = "queued"
    BY <1>12, <2>1
  <2>3. ASSUME NEW x \in Reqs
        PROVE  rqs'[x] # NoRq <=> \/ x \in Range(look) \/ x \in Range(queue_head) \/ x \in inflight'
                                  \/ st'[x] \in {"getrq", "insert"}
    <3>1. CASE x = r
      BY <1>6, <1>7, <2>1, <3>1
    <3>2. CASE x # r /\ rqs[x] # NoRq
      BY <1>1, <1>7, <1>12, <3>2 DEF QInv, Places
    <3>3. CASE x # r /\ rqs[x] = NoRq
      <4>1. /\ x \notin Range(look) /\ x \notin Range(queue_head) /\ x \notin inflight
            /\ st[x] \notin {"getrq", "insert"}
        BY <3>3 DEF QInv, Places
      <4>2. st'[x] = st[x] \/ st'[x] = "done"
        BY <1>5, <3>3
      <4> QED
        BY <1>1, <1>7, <3>3, <4>1, <4>2
    <3> QED
      BY <3>1, <3>2, <3>3
  <2> QED
    BY <1>1, <2>2, <2>3 DEF QInv, Places
<1>14. Caches'
  <2>1. \A x \in Range(look) : rqs'[x] = rqs[x]
    BY <1>2, <1>7 DEF QInv, Places
  <2> QED
    BY <1>1, <2>1 DEF QInv, Caches, Fresh
<1> QED
  BY <1>8, <1>9, <1>11, <1>13, <1>14 DEF QInv

\* The largest number of a set that is not empty.
LEMMA MaxUpto ==
    ASSUME NEW n \in Nat, NEW S \in SUBSET (0 .. n), S # {}
    PROVE  Max(S) \in S /\ \A y \in S : y <= Max(S)
<1> DEFINE T == {n - x : x \in S}
<1>1. T \in SUBSET Nat /\ T # {}
  <2>1. \A x \in S : x \in 0 .. n
    OBVIOUS
  <2>2. \A x \in 0 .. n : n - x \in Nat
    OBVIOUS
  <2> QED
    BY <2>1, <2>2
<1>2. Min(T) \in T /\ \A y \in T : Min(T) <= y
  BY <1>1, MinNat
<1>3. PICK x \in S : Min(T) = n - x
  BY <1>2
<1>4. \A y \in S : n - x <= n - y
  BY <1>2, <1>3
<1>5. \A y \in S : x >= y
  BY <1>4
<1> QED
  BY <1>5 DEF Max

\* The head of a request of the file system and where it starts and ends.
LEMMA HeadBio ==
    ASSUME bio \in Workloads, NEW q \in Rq, FsRq(q)
    PROVE  /\ Head(q.bios) \in Bios
           /\ bio[Head(q.bios)].sector + bio[Head(q.bios)].size \in 0 .. Capacity
<1>1. q.bios \in Seq(Bios) /\ q.bios # << >>
  BY DEF Rq, FsRq
<1>2. Head(q.bios) \in Bios
  BY <1>1
<1> QED
  BY <1>2, BioFacts

\* What look_dispatch does to the lists: it moves the request at some place
\* i of LOOK's list to the dispatch queue, behind all the places where the
\* insertion sort stops.
LEMMA Dispatched ==
    ASSUME QInv, look_dispatch
    PROVE  \E r \in Range(look), k \in 1 .. Len(queue_head) + 1 :
              /\ look' \in Seq(Bios) /\ Once(look') /\ Len(look') = Len(look) - 1
              /\ Range(look') = Range(look) \ {r}
              /\ queue_head' = InsertAt(queue_head, k, r)
              /\ \A j \in 1 .. Len(queue_head) : StopsAt(r, j) => j < k
              /\ last_merge' = (IF last_merge = r THEN NULL ELSE last_merge)
              /\ hash' = elv_rqhash_del(hash, r) /\ nr_sorted' = nr_sorted - 1
              /\ cur_pos' \in 0 .. Capacity /\ dir' \in {Up, Down}
<1>1. PICK i \in DOMAIN look :
         /\ dir' = NextDir(LookQueue, cur_pos, dir)
         /\ cur_pos' = bio[Head(rqs[look[i]].bios)].sector + bio[Head(rqs[look[i]].bios)].size
         /\ look' = RemoveAt(look, i)
         /\ elv_dispatch_sort(look[i])
  BY DEF look_dispatch
<1> DEFINE r == look[i]
           stops == {k \in DOMAIN queue_head : StopsAt(r, k)}
           k == Max(stops \cup {0}) + 1
<1>2. /\ bio \in Workloads /\ rqs \in [Reqs -> Rq] /\ look \in Seq(Bios) /\ queue_head \in Seq(Reqs)
      /\ Range(look) \subseteq Bios /\ Once(look) /\ \A y \in Bios : y \in Reqs /\ y \notin Pcs
      /\ \A x \in Range(look) : FsRq(rqs[x])
  BY QFacts DEF QInv, Places
<1>3. /\ Len(look) \in Nat /\ DOMAIN look = 1 .. Len(look)
      /\ Len(queue_head) \in Nat /\ DOMAIN queue_head = 1 .. Len(queue_head)
  BY <1>2, ListFacts
<1>4. r \in Range(look)
  BY DEF Range
<1>5. /\ look' \in Seq(Bios) /\ Len(look') = Len(look) - 1
      /\ \A y, z : Prec(look', y, z) => Prec(look, y, z)
      /\ Range(look') = Range(look) \ {r}
  BY <1>1, <1>2, <1>3, RemoveAtProperties, RemoveOrder
<1>6. Once(look')
  BY <1>2, <1>5 DEF Once
<1>7. dir' \in {Up, Down}
  BY <1>1 DEF NextDir, SwitchDir, QInv, Types
<1>8. cur_pos' \in 0 .. Capacity
  <2>1. rqs[r] \in Rq /\ FsRq(rqs[r])
    BY <1>2, <1>4
  <2> QED
    BY <1>1, <1>2, <2>1, HeadBio
<1>9. /\ queue_head' = InsertAt(queue_head, k, r)
      /\ last_merge' = (IF last_merge = r THEN NULL ELSE last_merge)
      /\ hash' = elv_rqhash_del(hash, r) /\ nr_sorted' = nr_sorted - 1
  BY <1>1 DEF elv_dispatch_sort
<1>10. /\ k \in 1 .. Len(queue_head) + 1
       /\ \A j \in 1 .. Len(queue_head) : StopsAt(r, j) => j < k
  <2> DEFINE S == stops \cup {0}
  <2>1. S \in SUBSET (0 .. Len(queue_head)) /\ S # {}
    BY <1>3
  <2>2. \A j \in 1 .. Len(queue_head) : StopsAt(r, j) => j \in S
    BY <1>3
  <2>3. k = Max(S) + 1
    OBVIOUS
  <2> HIDE DEF S, k
  <2>4. Max(S) \in S /\ \A y \in S : y <= Max(S)
    BY <1>3, <2>1, MaxUpto
  <2>5. Max(S) \in 0 .. Len(queue_head)
    BY <2>1, <2>4
  <2>6. \A j \in 1 .. Len(queue_head) : StopsAt(r, j) => j <= Max(S)
    BY <2>2, <2>4
  <2> QED
    BY <1>3, <2>3, <2>5, <2>6
<1> HIDE DEF r, k
<1> QED
  BY <1>4, <1>5, <1>6, <1>7, <1>8, <1>9, <1>10

LEMMA QDispatch ==
    ASSUME QInv, look_dispatch, UNCHANGED <<bio, st, rqs, inflight, end_sector, before>>
    PROVE  QInv'
<1>1. PICK r \in Range(look), k \in 1 .. Len(queue_head) + 1 :
         /\ look' \in Seq(Bios) /\ Once(look') /\ Len(look') = Len(look) - 1
         /\ Range(look') = Range(look) \ {r}
         /\ queue_head' = InsertAt(queue_head, k, r)
         /\ last_merge' = (IF last_merge = r THEN NULL ELSE last_merge)
         /\ hash' = elv_rqhash_del(hash, r) /\ nr_sorted' = nr_sorted - 1
         /\ cur_pos' \in 0 .. Capacity /\ dir' \in {Up, Down}
  BY Dispatched
<1>2. /\ bio \in Workloads /\ rqs \in [Reqs -> Rq] /\ st \in [Reqs -> Where]
      /\ queue_head \in Seq(Reqs) /\ hash \in Seq(HashEntry)
      /\ r \in Bios /\ r \in Reqs /\ rqs[r] # NoRq /\ st[r] = "queued" /\ rqs[r] \in Rq
  BY QFacts
<1>3. r \notin Range(queue_head) /\ r \notin inflight /\ Once(queue_head)
  BY DEF QInv, Places
<1>4. /\ queue_head' \in Seq(Reqs) /\ Range(queue_head') = Range(queue_head) \cup {r}
      /\ \A x, y : Prec(queue_head', x, y) =>
             \/ Prec(queue_head, x, y)
             \/ y = r /\ \E j \in 1 .. Len(queue_head) : j < k /\ queue_head[j] = x
             \/ x = r /\ \E j \in 1 .. Len(queue_head) : k <= j /\ queue_head[j] = y
  BY <1>1, <1>2, InsertOrder
<1>5. \A j \in 1 .. Len(queue_head) : queue_head[j] \in Range(queue_head)
  BY <1>2, ListFacts
<1>6. Once(queue_head')
  BY <1>3, <1>4, <1>5 DEF Once
<1>7. /\ hash' \in Seq(HashEntry)
      /\ \A x : x \in Range(hash') <=> x \in Range(hash) /\ x.rq # r
  <2> DEFINE q == rqs[r]
  <2>1. bio \in Workloads /\ hash \in Seq(HashEntry) /\ q \in Rq /\ r \in Bios
    BY <1>2
  <2> HIDE DEF q
  <2>2. /\ elv_rqhash_del(hash, r) \in Seq(HashEntry)
        /\ \A x : x \in Range(elv_rqhash_del(hash, r)) <=> x \in Range(hash) /\ x.rq # r
    BY <2>1, HashEntriesOf, Zenon
  <2> QED
    BY <1>1, <2>2
<1>8. Types'
  BY <1>1, <1>4, <1>7 DEF QInv, Types
<1>9. Places'
  <2>1. ASSUME NEW x \in Reqs
        PROVE  rqs[x] # NoRq <=> \/ x \in Range(look') \/ x \in Range(queue_head') \/ x \in inflight
                                 \/ st[x] \in {"getrq", "insert"}
    BY <1>1, <1>2, <1>4 DEF QInv, Places
  <2> QED
    BY <1>1, <1>2, <1>3, <1>4, <1>6, <2>1 DEF QInv, Places
<1>10. Caches'
  <2>1. Fresh(rqs, look', hash')
    BY <1>1, <1>7 DEF QInv, Caches, Fresh
  <2>2. last_merge' \in Range(look') \cup {NULL} /\ nr_sorted' = Len(look')
    BY <1>1 DEF QInv, Caches
  <2> QED
    BY <2>1, <2>2 DEF Caches, Fresh
<1>11. RqsOK(rqs)'
  BY SameBios DEF QInv
<1>12. Carry(rqs, st)'
  BY DEF QInv, Carry
<1> QED
  BY <1>8, <1>9, <1>10, <1>11, <1>12 DEF QInv

LEMMA QStep == QInv /\ [Next]_vars => QInv'
<1> SUFFICES ASSUME QInv, [Next]_vars PROVE QInv'
  OBVIOUS
<1>1. ASSUME NEW x \in Reqs, Submitter(x) PROVE QInv'
  BY <1>1, QBackMerge, QFrontMerge, QGetRequest, QAddRequest, QPcGetRequest, QExecute DEF Submitter
<1>2. CASE LockOwner
  <2>1. CASE DrainPass
    BY <2>1, QDispatch DEF DrainPass
  <2>2. CASE DrainEnd
    BY <2>2, QUnchanged DEF DrainEnd, sched, merging
  <2>3. CASE AddTail
    BY <2>3, QAddTail
  <2>4. CASE __blk_run_queue
    BY <2>4, QUnchanged DEF __blk_run_queue, sched, merging
  <2>5. CASE UnplugThreshold
    BY <2>5, QUnchanged DEF UnplugThreshold, sched, merging
  <2>6. CASE __generic_unplug_device
    BY <2>6, QUnchanged DEF __generic_unplug_device, sched, merging
  <2>7. CASE PeekAsksLook
    BY <2>7, QDispatch DEF PeekAsksLook
  <2>8. CASE IssueRequest
    <3>1. FlagSet(rqs', rqs, Head(queue_head), "started")
      BY <2>8 DEF IssueRequest, FlagSet
    <3> QED
      BY <2>8, <3>1, QStarted DEF IssueRequest, sched, merging
  <2>9. CASE StopQueue
    <3>1. FlagSet(rqs', rqs, Head(queue_head), "started")
      BY <2>9 DEF StopQueue, FlagSet
    <3> QED
      BY <2>9, <3>1, QStarted DEF StopQueue, sched, merging
  <2>10. CASE RequestFnEnd
    BY <2>10, QUnchanged DEF RequestFnEnd, sched, merging
  <2>11. CASE BlkDoneEnd
    BY <2>11, QUnchanged DEF BlkDoneEnd, sched, merging
  <2> QED
    BY <1>2, <2>1, <2>2, <2>3, <2>4, <2>5, <2>6, <2>7, <2>8, <2>9, <2>10, <2>11 DEF LockOwner
<1>3. ASSUME NEW r \in inflight, blk_done(r) PROVE QInv'
  BY <1>3, QEnded
<1>4. CASE blk_unplug_timeout
  BY <1>4, QUnchanged DEF blk_unplug_timeout, sched, merging
<1>5. CASE blk_unplug_work
  BY <1>5, QUnchanged DEF blk_unplug_work, sched, merging
<1>6. CASE generic_unplug_device
  BY <1>6, QUnchanged DEF generic_unplug_device, sched, merging
<1>7. CASE blk_unplug
  BY <1>7, QUnchanged DEF blk_unplug, sched, merging
<1>8. CASE UNCHANGED vars
  BY <1>8, QUnchanged DEF vars
<1> QED
  BY <1>1, <1>2, <1>3, <1>4, <1>5, <1>6, <1>7, <1>8 DEF Next, Finished

-----------------------------------------------------------------------------
(* What the invariant says *)

\* Requests, bios, LOOK's list, the dispatch queue, the virtqueue and the
\* merge caches agree at every step of __make_request, elv_dispatch_sort,
\* attempt_merge, blk_peek_request and blk_done: the inductive invariant the
\* other theorems rest on.
THEOREM Invariant == Safety => []QInv
  BY QInit, QStep, PTL DEF Safety

\* The switches of the queue.
Switches ==
    /\ plugged \in BOOLEAN /\ stopped \in BOOLEAN /\ timer \in BOOLEAN /\ work \in BOOLEAN
    /\ kblockd \in {"idle", "lock"}

LEMMA SwitchesStep == Switches /\ [Next]_vars => Switches'
<1> SUFFICES ASSUME Switches, [Next]_vars PROVE Switches'
  OBVIOUS
<1>1. UNCHANGED plugging => Switches'
  BY DEF Switches, plugging
<1>2. blk_plug_device => Switches'
  BY DEF Switches, blk_plug_device
<1>3. blk_remove_plug /\ stopped' \in BOOLEAN /\ UNCHANGED <<work, kblockd>> => Switches'
  BY DEF Switches, blk_remove_plug
<1>4. ASSUME NEW x \in Reqs, Submitter(x) PROVE Switches'
  <2>1. UNCHANGED plugging \/ blk_plug_device
    BY <1>4 DEF Submitter, BackMerge, FrontMerge, get_request, add_request, blk_get_request,
                blk_execute_rq_nowait
  <2> QED
    BY <1>1, <1>2, <2>1
<1>5. CASE LockOwner
  <2>1. CASE DrainPass \/ DrainEnd \/ AddTail \/ UnplugThreshold \/ PeekAsksLook \/ IssueRequest
              \/ RequestFnEnd
    BY <1>1, <2>1 DEF DrainPass, DrainEnd, AddTail, UnplugThreshold, PeekAsksLook, IssueRequest,
                      RequestFnEnd
  <2>2. CASE __blk_run_queue \/ StopQueue
    BY <1>3, <2>2 DEF __blk_run_queue, StopQueue, Switches
  <2>3. CASE __generic_unplug_device
    <3>1. UNCHANGED plugging \/ (blk_remove_plug /\ UNCHANGED <<stopped, work, kblockd>>)
      BY <2>3 DEF __generic_unplug_device, plugging
    <3> QED
      BY <1>1, <1>3, <3>1 DEF Switches
  <2>4. CASE BlkDoneEnd
    BY <2>4 DEF BlkDoneEnd, Switches
  <2> QED
    BY <1>5, <2>1, <2>2, <2>3, <2>4 DEF LockOwner
<1>6. ASSUME NEW r \in inflight, blk_done(r) PROVE Switches'
  BY <1>1, <1>6 DEF blk_done
<1>7. CASE blk_unplug_timeout
  BY <1>7 DEF blk_unplug_timeout, Switches
<1>8. CASE blk_unplug_work
  BY <1>8 DEF blk_unplug_work, Switches
<1>9. CASE generic_unplug_device
  BY <1>9 DEF generic_unplug_device, Switches
<1>10. CASE blk_unplug
  BY <1>1, <1>10 DEF blk_unplug
<1>11. CASE UNCHANGED vars
  BY <1>1, <1>11 DEF vars, plugging
<1> QED
  BY <1>4, <1>5, <1>6, <1>7, <1>8, <1>9, <1>10, <1>11 DEF Next, Finished

\* blk_plug_device, blk_remove_plug, blk_stop_queue and the unplug timer keep
\* the switches of the queue what they are declared as.
THEOREM SafetySwitches == Safety => []Switches
<1>1. Init => Switches
  BY DEF Init, Switches
<1> QED
  BY <1>1, SwitchesStep, PTL DEF Safety

LEMMA ShapesTyped == cs \in Shapes => cs \in Seq(Calls)
<1>1. /\ << >> \in Seq(Calls) /\ \A a \in Calls : <<a>> \in Seq(Calls)
      /\ \A a, b \in Calls : <<a, b>> \in Seq(Calls)
  OBVIOUS
<1>2. \A a, b, c \in Calls : <<a, b, c>> \in Seq(Calls)
  OBVIOUS
<1>3. \A a, b, c, d \in Calls : <<a, b, c, d>> \in Seq(Calls)
  OBVIOUS
<1>4. \A a, b, c, d, e \in Calls : <<a, b, c, d, e>> \in Seq(Calls)
  OBVIOUS
<1>5. /\ "drain" \in Calls /\ "addtail" \in Calls /\ "run" \in Calls /\ "thresh" \in Calls
      /\ "unplug" \in Calls /\ "request_fn" \in Calls /\ "blk_done" \in Calls
  BY DEF Calls
<1>6. /\ <<"thresh">> \in Seq(Calls) /\ <<"unplug">> \in Seq(Calls) /\ <<"run">> \in Seq(Calls)
      /\ <<"request_fn">> \in Seq(Calls) /\ <<"blk_done">> \in Seq(Calls)
      /\ <<"thresh", "unplug">> \in Seq(Calls) /\ <<"unplug", "unplug">> \in Seq(Calls)
      /\ <<"request_fn", "unplug">> \in Seq(Calls)
  BY <1>1, <1>5, Zenon
<1>7. /\ <<"run", "thresh", "unplug">> \in Seq(Calls)
      /\ <<"request_fn", "thresh", "unplug">> \in Seq(Calls)
  BY <1>2, <1>5, Zenon
<1>8. <<"addtail", "run", "thresh", "unplug">> \in Seq(Calls)
  BY <1>3, <1>5, Zenon
<1>9. <<"drain", "addtail", "run", "thresh", "unplug">> \in Seq(Calls)
  BY <1>4, <1>5, Zenon
<1> DEFINE Q == Seq(Calls)
<1> HIDE DEF Q
<1>10. ASSUME cs \in Shapes PROVE cs \in Q
  BY <1>1, <1>6, <1>7, <1>8, <1>9, <1>10 DEF Shapes, Q
<1> QED
  BY <1>10 DEF Q

LEMMA TypesOK == QInv /\ Switches /\ Served => TypeOK
<1> SUFFICES ASSUME QInv, Switches, Served PROVE TypeOK
  OBVIOUS
<1>1. /\ bio \in Workloads /\ st \in [Reqs -> {"new", "getrq", "insert", "queued", "done"}]
      /\ look \in Seq(Bios) /\ cur_pos \in 0 .. Capacity /\ dir \in {Up, Down}
      /\ queue_head \in Seq(Reqs) /\ inflight \subseteq Reqs /\ end_sector \in 0 .. MaxSector
  BY DEF QInv, Types
<1>2. hash \in Seq([rq : Bios, slot : 0 .. HashEntries - 1])
  BY DEF QInv, Types, HashEntry
<1>3. \A r \in Reqs : /\ rqs[r].bios \in Seq(Bios)
                      /\ rqs[r].pos \in 0 .. MaxSector /\ rqs[r].len \in 0 .. Capacity
                      /\ rqs[r].flags \subseteq {"free", "pc", "nomerge", "started", "soft"}
  BY DEF QInv, RqsOK, Rq, Flags
<1>4. last_merge \in Bios \cup {NULL} /\ nr_sorted \in Nat
  <2>1. Range(look) \subseteq Bios /\ Len(look) \in Nat
    BY <1>1, ListFacts
  <2> QED
    BY <2>1 DEF QInv, Caches
<1>5. {plugged, stopped, timer, work} \subseteq BOOLEAN /\ kblockd \in {"idle", "lock"}
  BY DEF Switches
<1>6. cs \in Seq(Calls)
  BY ShapesTyped DEF Served
<1>7. \A p \in Pcs : before[p] = NULL \/ before[p] \subseteq Bios
  BY DEF QInv, Types
<1> QED
  BY <1>1, <1>2, <1>3, <1>4, <1>5, <1>6, <1>7 DEF TypeOK

\* How often x is on a list without repetitions, and in a set.
LEMMA Counted ==
    ASSUME NEW S, NEW s \in Seq(S), Once(s), NEW x
    PROVE  Cardinality({i \in DOMAIN s : s[i] = x}) = IF x \in Range(s) THEN 1 ELSE 0
<1>1. IsInjective(s)
  BY OnceInjective
<1>2. CASE x \in Range(s)
  <2>1. PICK i \in DOMAIN s : s[i] = x
    BY <1>2 DEF Range
  <2>2. {j \in DOMAIN s : s[j] = x} = {i}
    BY <1>1, <2>1 DEF IsInjective
  <2> QED
    BY <1>2, <2>2, FS_Singleton
<1>3. CASE x \notin Range(s)
  <2>1. {j \in DOMAIN s : s[j] = x} = {}
    BY <1>3 DEF Range
  <2> QED
    BY <1>3, <2>1, FS_EmptySet
<1> QED
  BY <1>2, <1>3

LEMMA CountedSet ==
    ASSUME NEW A, NEW x
    PROVE  /\ Cardinality(A \cap {x}) = IF x \in A THEN 1 ELSE 0
           /\ Cardinality({x} \cap A) = IF x \in A THEN 1 ELSE 0
<1>1. CASE x \in A
  <2>1. A \cap {x} = {x} /\ {x} \cap A = {x}
    BY <1>1
  <2> QED
    BY <1>1, <2>1, FS_Singleton
<1>2. CASE x \notin A
  <2>1. A \cap {x} = {} /\ {x} \cap A = {}
    BY <1>2
  <2> QED
    BY <1>2, <2>1, FS_EmptySet
<1> QED
  BY <1>1, <1>2

\* An allocated request is in exactly one place and a freed one is nowhere,
\* not in the merge caches either, whatever the submitters, the device, the
\* timer and kblockd do in between.
THEOREM SafetyOnePlace == Safety => []OnePlace
<1>1. ASSUME QInv, Switches, Served PROVE OnePlace
  <2> DEFINE held == {x \in Reqs : st[x] \in {"getrq", "insert"}}
             places(r) == Cardinality({i \in DOMAIN look : look[i] = r})
                          + Cardinality({i \in DOMAIN queue_head : queue_head[i] = r})
                          + Cardinality(inflight \cap {r})
                          + Cardinality({r} \cap held)
  <2>1. TypeOK
    BY <1>1, TypesOK
  <2>2. /\ look \in Seq(Bios) /\ queue_head \in Seq(Reqs) /\ Once(look) /\ Once(queue_head)
        /\ Range(look) \subseteq Bios /\ \A b \in Bios : b \in Reqs
    BY <1>1, QFacts DEF QInv, Places
  <2>3. ASSUME NEW r \in Reqs PROVE places(r) = IF r \in allocated THEN 1 ELSE 0
    <3>1. /\ Cardinality({i \in DOMAIN look : look[i] = r}) = IF r \in Range(look) THEN 1 ELSE 0
          /\ Cardinality({i \in DOMAIN queue_head : queue_head[i] = r}) =
                IF r \in Range(queue_head) THEN 1 ELSE 0
          /\ Cardinality(inflight \cap {r}) = IF r \in inflight THEN 1 ELSE 0
          /\ Cardinality({r} \cap held) = IF r \in held THEN 1 ELSE 0
      <4> HIDE DEF held
      <4> QED  BY <2>2, Counted, CountedSet
    <3>2. /\ r \in allocated <=> \/ r \in Range(look) \/ r \in Range(queue_head) \/ r \in inflight
                                 \/ r \in held
          /\ r \in Range(look) => r \notin Range(queue_head) /\ r \notin inflight /\ r \notin held
          /\ r \in Range(queue_head) => r \notin inflight /\ r \notin held
          /\ r \in inflight => r \notin held
      BY <1>1 DEF QInv, Places, allocated
    <3> HIDE DEF held
    <3> QED
      BY <3>1, <3>2
  <2>4. {hash[i].rq : i \in DOMAIN hash} \cup {last_merge} \subseteq allocated \cup {NULL}
    <3>1. \A r \in Range(look) : r \in allocated
      BY <1>1, <2>2 DEF QInv, Places, allocated
    <3>2. \A i \in DOMAIN hash : hash[i] \in Range(hash)
      BY DEF Range
    <3> QED
      BY <1>1, <3>1, <3>2 DEF QInv, Caches, Fresh
  <2> QED
    BY <2>1, <2>3, <2>4 DEF OnePlace
<1>2. Safety => []Served
  BY ServedInit, ServedStep, PTL DEF Safety
<1> QED
  BY <1>1, <1>2, Invariant, SafetySwitches, PTL

\* The merge caches hold what they should, and never a request that has left
\* LOOK; the counter of sorted requests is exact.
THEOREM SafetyCachesFresh == Safety => []MergeCachesFresh
<1>1. ASSUME QInv PROVE MergeCachesFresh
  <2>1. ToSet(look) = Range(look)
    BY ToSetRange
  <2>2. \A r : (\E e \in Range(hash) : e.rq = r) <=> r \in {hash[i].rq : i \in DOMAIN hash}
    BY DEF Range
  <2>3. \A i \in DOMAIN hash : hash[i] \in Range(hash)
    BY DEF Range
  <2> QED
    BY <1>1, <2>1, <2>2, <2>3 DEF QInv, Caches, Fresh, MergeCachesFresh
<1> QED
  BY <1>1, Invariant, PTL

\* Whatever is merged, in whatever order, no bio is lost and none is carried
\* twice, and each request is one stretch of sectors that goes one way.
THEOREM SafetyMergesSound == Safety => []MergesSound
<1>1. ASSUME QInv PROVE MergesSound
  <2>1. /\ bio \in Workloads /\ rqs \in [Reqs -> Rq] /\ Carry(rqs, st)
        /\ \A r \in Reqs : rqs[r].bios \in Seq(Bios)
    BY <1>1, QFacts DEF QInv, Rq
  <2>2. ASSUME NEW b \in Bios
        PROVE  Cardinality(UNION {{<<r, i>> : i \in {k \in DOMAIN rqs[r].bios : rqs[r].bios[k] = b}} :
                                     r \in Reqs}) = IF st[b] \in {"getrq", "queued"} THEN 1 ELSE 0
    <3> DEFINE at(r) == {k \in DOMAIN rqs[r].bios : rqs[r].bios[k] = b}
               carried == UNION {{<<r, i>> : i \in at(r)} : r \in Reqs}
    <3>1. CASE st[b] \in {"getrq", "queued"}
      <4>1. PICK r \in Reqs : b \in Range(rqs[r].bios)
        BY <2>1, <3>1 DEF Carry
      <4>2. PICK i \in DOMAIN rqs[r].bios : rqs[r].bios[i] = b
        BY <4>1 DEF Range
      <4>3. at(r) = {i}
        <5>1. IsInjective(rqs[r].bios)
          BY <2>1, OnceInjective DEF Carry
        <5> QED
          BY <4>2, <5>1 DEF IsInjective
      <4>4. \A x \in Reqs : x # r => at(x) = {}
        <5>1. ASSUME NEW x \in Reqs, x # r, NEW k \in at(x) PROVE FALSE
          <6>1. b \in Range(rqs[x].bios)
            BY <5>1 DEF Range
          <6> QED
            BY <2>1, <4>1, <5>1, <6>1 DEF Carry
        <5> QED
          BY <5>1
      <4>5. carried = {<<r, i>>}
        <5> HIDE DEF at
        <5>1. <<r, i>> \in carried
          BY <4>3
        <5>2. ASSUME NEW c \in carried PROVE c = <<r, i>>
          <6>1. PICK x \in Reqs : c \in {<<x, k>> : k \in at(x)}
            BY <5>2
          <6>2. PICK k \in at(x) : c = <<x, k>>
            BY <6>1
          <6> QED
            BY <4>3, <4>4, <6>2
        <5> HIDE DEF carried
        <5> QED
          BY <5>1, <5>2
      <4> QED
        BY <3>1, <4>5, FS_Singleton
    <3>2. CASE st[b] \notin {"getrq", "queued"}
      <4>1. \A x \in Reqs : at(x) = {}
        <5>1. ASSUME NEW x \in Reqs, NEW k \in at(x) PROVE FALSE
          <6>1. b \in Range(rqs[x].bios)
            BY <5>1 DEF Range
          <6> QED
            BY <2>1, <3>2, <6>1 DEF Carry
        <5> QED
          BY <5>1
      <4>2. carried = {}
        <5> HIDE DEF at
        <5> QED  BY <4>1
      <4> QED
        BY <3>2, <4>2, FS_EmptySet
    <3> QED
      BY <3>1, <3>2
  <2>3. BiosConserved
    BY <2>2 DEF BiosConserved
  <2>4. ASSUME NEW r \in allocated \ Pcs
        PROVE  /\ rqs[r].pos = bio[Head(rqs[r].bios)].sector
               /\ RqEnd(rqs[r]) = bio[Last(rqs[r].bios)].sector + bio[Last(rqs[r].bios)].size
               /\ \A i \in 1 .. Len(rqs[r].bios) - 1 :
                     bio[rqs[r].bios[i]].sector + bio[rqs[r].bios[i]].size
                        = bio[rqs[r].bios[i + 1]].sector
               /\ \A i \in DOMAIN rqs[r].bios : bio[rqs[r].bios[i]].rw = rqs[r].rw
    <3>1. r \in Bios /\ rqs[r] # NoRq
      BY DEF allocated, Reqs
    <3>2. FsRq(rqs[r])
      BY <1>1, <3>1 DEF QInv, RqsOK
    <3>3. \A i \in DOMAIN rqs[r].bios : rqs[r].bios[i] \in Range(rqs[r].bios)
      BY DEF Range
    <3> QED
      BY <3>2, <3>3 DEF FsRq, Contiguous
  <2>5. RequestsAreContiguous
    BY <2>4 DEF RequestsAreContiguous
  <2> QED
    BY <2>3, <2>5 DEF MergesSound
<1> QED
  BY <1>1, Invariant, PTL

\* What a step may do to the requests that LOOK does not hold.
Frozen ==
    \A r \in Reqs \ Range(look) :
        rqs[r] # NoRq /\ rqs'[r] # NoRq =>
            /\ rqs'[r].bios = rqs[r].bios
            /\ rqs'[r].pos = rqs[r].pos /\ rqs'[r].len = rqs[r].len
            /\ rqs[r].flags \subseteq rqs'[r].flags

LEMMA FrozenStep == QInv /\ [Next]_vars => Frozen
<1> SUFFICES ASSUME QInv, [Next]_vars PROVE Frozen
  OBVIOUS
<1>1. /\ rqs \in [Reqs -> Rq] /\ Range(look) \subseteq Bios
      /\ bio \in Workloads /\ \A b \in Bios : b \in Reqs
  BY QFacts
<1>2. \A r \in Reqs : st[r] = "new" => rqs[r] = NoRq
  BY <1>1 DEF QInv, Places
<1>3. ASSUME \A r \in Reqs : r \in Range(look) \/ rqs[r] = NoRq \/ rqs'[r] \in {rqs[r], NoRq}
      PROVE  Frozen
  BY <1>3 DEF Frozen
<1>4. ASSUME NEW r, NEW f, FlagSet(rqs', rqs, r, f) PROVE Frozen
  BY <1>1, <1>4 DEF Frozen, Rq, FlagSet
<1>5. ASSUME NEW g \in Range(look), NEW m, DOMAIN m = Reqs, \A y \in Reqs : y # g => m[y] = rqs[y],
             NEW chain, NEW r \in Range(look), NEW x \in Range(look), JoinRequests(m, chain, r, x)
      PROVE  Frozen
  <2>1. \A y \in Reqs : y \in Range(look) \/ rqs'[y] = rqs[y]
    BY <1>1, <1>5 DEF JoinRequests
  <2> QED
    BY <1>3, <2>1
<1>6. ASSUME NEW g \in Range(look), NEW m, \A y \in Reqs : y # g => m[y] = rqs[y], NEW chain, NEW t,
             MergedRequest(m, chain, g, t)
      PROVE  Frozen
  <2>1. \A y \in Reqs : y \in Range(look) \/ rqs'[y] = rqs[y]
    BY <1>6 DEF MergedRequest
  <2> QED
    BY <1>3, <2>1
<1>7. ASSUME NEW b \in Bios, BackMerge(b) PROVE Frozen
  <2> DEFINE m == elv_merge(b)
             r == m.rq
             grown == [rqs EXCEPT ![r].bios = Append(@, b), ![r].len = @ + bio[b].size]
             next == look_latter_request(r)
  <2>1. /\ m.type = "back"
        /\ IF MayJoin(grown, r, next) THEN JoinRequests(grown, m.chain, r, next)
                                      ELSE MergedRequest(grown, m.chain, r, "back")
    BY <1>7 DEF BackMerge
  <2>2. r \in Range(look)
    BY <2>1, MergeFound
  <2> HIDE DEF m, r
  <2>3. DOMAIN grown = Reqs /\ \A y \in Reqs : y # r => grown[y] = rqs[y]
    BY <1>1
  <2> HIDE DEF grown, next
  <2>4. MayJoin(grown, r, next) => next \in Range(look)
    BY <2>2, Neighbour DEF MayJoin, next, look_latter_request
  <2> QED
    BY <1>5, <1>6, <2>1, <2>2, <2>3, <2>4
<1>8. ASSUME NEW b \in Bios, FrontMerge(b) PROVE Frozen
  <2> DEFINE m == elv_merge(b)
             r == m.rq
             grown == [rqs EXCEPT ![r].bios = <<b>> \o @, ![r].pos = bio[b].sector,
                                  ![r].len = @ + bio[b].size]
             prev == look_former_request(r)
  <2>1. /\ m.type = "front"
        /\ IF MayJoin(grown, prev, r) THEN JoinRequests(grown, m.chain, prev, r)
                                      ELSE MergedRequest(grown, m.chain, r, "front")
    BY <1>8 DEF FrontMerge
  <2>2. r \in Range(look)
    BY <2>1, MergeFound
  <2> HIDE DEF m, r
  <2>3. DOMAIN grown = Reqs /\ \A y \in Reqs : y # r => grown[y] = rqs[y]
    BY <1>1
  <2> HIDE DEF grown, prev
  <2>4. MayJoin(grown, prev, r) => prev \in Range(look)
    BY <2>2, Neighbour DEF MayJoin, prev, look_former_request
  <2> QED
    BY <1>5, <1>6, <2>1, <2>2, <2>3, <2>4
<1>9. ASSUME NEW b \in Bios, get_request(b) PROVE Frozen
  <2> DEFINE m == elv_merge(b)
             r == m.rq
             big == ~elv_queue_empty /\ m.type # "none" /\ ~Fits(r, b)
             full == IF big THEN [rqs EXCEPT ![r].flags = @ \cup {"nomerge"}] ELSE rqs
  <2>1. st[b] = "new" /\ rqs' = [full EXCEPT ![b] = BioRequest(b)]
    BY <1>9 DEF get_request
  <2>2. big => r \in Range(look)
    BY MergeFound
  <2> HIDE DEF m, r, big
  <2>3. DOMAIN full = Reqs /\ \A y \in Reqs : y \in Range(look) \/ full[y] = rqs[y]
    BY <1>1, <2>2
  <2> HIDE DEF full
  <2>4. \A y \in Reqs : y \in Range(look) \/ rqs[y] = NoRq \/ rqs'[y] = rqs[y]
    BY <1>1, <1>2, <2>1, <2>3
  <2> QED
    BY <1>3, <2>4
<1>10. ASSUME NEW p \in Pcs, blk_get_request(p) PROVE Frozen
  <2>1. \A y \in Reqs : rqs[y] = NoRq \/ rqs'[y] = rqs[y]
    BY <1>1, <1>2, <1>10 DEF blk_get_request
  <2> QED
    BY <1>3, <2>1
<1>11. ASSUME NEW p \in Pcs, NEW h \in BOOLEAN, blk_execute_rq_nowait(p, h) PROVE Frozen
  <2>1. FlagSet(rqs', rqs, p, "soft")
    BY <1>11 DEF blk_execute_rq_nowait, FlagSet
  <2> QED
    BY <1>4, <2>1
<1>12. CASE IssueRequest
  <2>1. FlagSet(rqs', rqs, Head(queue_head), "started")
    BY <1>12 DEF IssueRequest, FlagSet
  <2> QED
    BY <1>4, <2>1
<1>13. CASE StopQueue
  <2>1. FlagSet(rqs', rqs, Head(queue_head), "started")
    BY <1>13 DEF StopQueue, FlagSet
  <2> QED
    BY <1>4, <2>1
<1>14. ASSUME NEW r \in inflight, blk_done(r) PROVE Frozen
  <2>1. \A y \in Reqs : rqs'[y] \in {rqs[y], NoRq}
    BY <1>1, <1>14 DEF blk_done, EndRequest
  <2> QED
    BY <1>3, <2>1
<1>15. ASSUME rqs' = rqs PROVE Frozen
  BY <1>15 DEF Frozen
<1>16. ASSUME NEW b \in Bios, add_request(b) PROVE Frozen
  BY <1>15, <1>16 DEF add_request
<1>17. ASSUME NEW x \in Reqs, Submitter(x) PROVE Frozen
  BY <1>7, <1>8, <1>9, <1>10, <1>11, <1>16, <1>17 DEF Submitter
<1>18. CASE LockOwner
  <2>1. CASE DrainPass \/ DrainEnd \/ AddTail \/ __blk_run_queue \/ UnplugThreshold
              \/ __generic_unplug_device \/ PeekAsksLook \/ RequestFnEnd \/ BlkDoneEnd
    BY <1>15, <2>1 DEF DrainPass, DrainEnd, AddTail, __blk_run_queue, UnplugThreshold,
                       __generic_unplug_device, PeekAsksLook, RequestFnEnd, BlkDoneEnd
  <2> QED
    BY <1>12, <1>13, <1>18, <2>1 DEF LockOwner
<1>19. CASE blk_unplug_timeout \/ blk_unplug_work \/ generic_unplug_device \/ blk_unplug
             \/ UNCHANGED vars
  BY <1>15, <1>19 DEF blk_unplug_timeout, blk_unplug_work, generic_unplug_device, blk_unplug, vars
<1> QED
  BY <1>14, <1>17, <1>18, <1>19 DEF Next, Finished

\* Nothing merges into a request that has left LOOK: it keeps its bios and
\* its extent until it is freed.
THEOREM SafetyFrozen == Safety => DispatchedIsFrozen
<1>1. ASSUME QInv, [Next]_vars
      PROVE  [\A r \in ToSet(queue_head) \cup inflight :
                 rqs'[r] # NoRq => /\ rqs'[r].bios = rqs[r].bios
                                   /\ rqs'[r].pos = rqs[r].pos /\ rqs'[r].len = rqs[r].len]_vars
  <2>1. \A r \in ToSet(queue_head) \cup inflight : r \in Reqs \ Range(look) /\ rqs[r] # NoRq
    BY <1>1, ToSetRange, QFacts DEF QInv, Places
  <2> QED
    BY <1>1, <2>1, FrozenStep DEF Frozen
<1> QED
  BY <1>1, Invariant, PTL DEF Safety, DispatchedIsFrozen

-----------------------------------------------------------------------------
(* A command inserted at the back is a barrier *)

BiosOf(r) == Range(rqs[r].bios)

\* A command inserted at the back, from its insertion on: there it stands
\* between the bios that were queued before it and the others.
Apart(p) ==
    /\ \A b \in before[p] : st[b] \in {"queued", "done"}
    /\ st[p] \in {"insert", "queued", "done"}
    /\ st[p] = "insert" \/ p \in Range(queue_head) => "soft" \in rqs[p].flags
    /\ st[p] = "insert" => \A b \in Bios : st[b] \in {"queued", "done"} => b \in before[p]
    /\ p \in Range(queue_head) =>
          /\ \A b \in Bios : st[b] = "done" => b \in before[p]
          /\ \A r \in Reqs : Prec(queue_head, r, p) \/ r \in inflight => BiosOf(r) \subseteq before[p]
          /\ \A r \in Reqs : Prec(queue_head, p, r) \/ r \in Range(look) =>
                BiosOf(r) \cap before[p] = {}
    /\ p \in inflight \/ st[p] = "done" => before[p] \subseteq Issued

InLine ==
    /\ \A p \in Pcs : st[p] \in {"new", "getrq"} => before[p] = NULL
    /\ \A p \in Pcs : before[p] # NULL => Apart(p)
    /\ \A p \in Pcs : st[p] = "queued" => p \in Range(queue_head) \cup inflight
    /\ \A b \in Bios : st[b] = "getrq" => BiosOf(b) = {b}

\* Until a command is on the dispatch queue the elevator is drained, and
\* nothing else can happen.
Inserting ==
    /\ \A p \in Pcs : st[p] = "insert" => Calling("drain") \/ Calling("addtail")
    /\ \A p, q \in Pcs : st[p] = "insert" /\ st[q] = "insert" => p = q
    /\ Calling("addtail") => look = << >>

LEMMA InsertingStep == Served /\ QInv /\ Inserting /\ [Next]_vars => Inserting'
<1> SUFFICES ASSUME Served, QInv, Inserting, [Next]_vars PROVE Inserting'
  OBVIOUS
<1>1. /\ cs \in Shapes /\ st \in [Reqs -> Where] /\ \A b \in Bios : b \in Reqs /\ b \notin Pcs
  BY QFacts DEF Served
<1>2. \A p \in Pcs : p \in Reqs
  BY DEF Reqs
<1>3. ASSUME cs = << >> \/ ~(Calling("drain") \/ Calling("addtail")),
             \A p \in Pcs : st'[p] = "insert" => st[p] = "insert",
             cs' = << >> \/ Head(cs') # "addtail"
      PROVE  Inserting'
  BY <1>3 DEF Inserting, Calling
<1>4. ASSUME st' = st, UNCHANGED cs, Calling("addtail") => UNCHANGED look PROVE Inserting'
  BY <1>4 DEF Inserting, Calling
<1>5. ASSUME NEW b \in Bios PROVE OutCalls(b) = << >> \/ OutCalls(b) = <<"unplug">>
  BY DEF OutCalls
<1>6. ASSUME NEW b \in Bios, BackMerge(b) \/ FrontMerge(b) PROVE Inserting'
  <2>1. cs = << >> /\ st' = [st EXCEPT ![b] = "queued"] /\ cs' = OutCalls(b)
    BY <1>6 DEF BackMerge, FrontMerge
  <2> QED
    BY <1>1, <1>2, <1>3, <1>5, <2>1, ShapeEntries
<1>7. ASSUME NEW b \in Bios, get_request(b) PROVE Inserting'
  <2>1. cs = << >> /\ st' = [st EXCEPT ![b] = "getrq"] /\ cs' = cs
    BY <1>7 DEF get_request
  <2> QED
    BY <1>1, <1>2, <1>3, <2>1
<1>8. ASSUME NEW b \in Bios, add_request(b) PROVE Inserting'
  <2>1. cs = << >> /\ st' = [st EXCEPT ![b] = "queued"] /\ cs' = <<"thresh">> \o OutCalls(b)
    BY <1>8 DEF add_request
  <2>2. cs' = <<"thresh">> \/ cs' = <<"thresh", "unplug">>
    BY <1>5, <2>1, ShapeFronts
  <2> QED
    BY <1>1, <1>2, <1>3, <2>1, <2>2, ShapeEntries
<1>9. ASSUME NEW p \in Pcs, blk_get_request(p) PROVE Inserting'
  <2>1. cs = << >> /\ st' = [st EXCEPT ![p] = "getrq"] /\ cs' = cs
    BY <1>9 DEF blk_get_request
  <2> QED
    BY <1>1, <1>2, <1>3, <2>1
<1>10. ASSUME NEW p \in Pcs, NEW h \in BOOLEAN, blk_execute_rq_nowait(p, h) PROVE Inserting'
  <2>1. CASE st' = [st EXCEPT ![p] = "queued"] /\ cs' = <<"thresh", "unplug">>
    <3>1. cs = << >>
      BY <1>10 DEF blk_execute_rq_nowait
    <3> QED
      BY <1>1, <1>2, <1>3, <2>1, <3>1, ShapeEntries
  <2>2. CASE /\ st' = [st EXCEPT ![p] = "insert"]
             /\ cs' = <<"drain", "addtail", "run", "thresh", "unplug">>
    <3>1. cs = << >>
      BY <1>10 DEF blk_execute_rq_nowait
    <3>2. \A q \in Pcs : st[q] # "insert"
      BY <3>1 DEF Inserting, Calling
    <3>3. \A q \in Pcs : st'[q] = "insert" => q = p
      BY <1>1, <1>2, <2>2, <3>2
    <3>4. Calling("drain")' /\ ~Calling("addtail")'
      BY <2>2, ShapeEntries DEF Calling
    <3> QED
      BY <3>3, <3>4 DEF Inserting
  <2> QED
    BY <1>10, <2>1, <2>2 DEF blk_execute_rq_nowait
<1>11. ASSUME NEW x \in Reqs, Submitter(x) PROVE Inserting'
  BY <1>6, <1>7, <1>8, <1>9, <1>10, <1>11 DEF Submitter
<1>12. ASSUME NEW c \in {"run", "thresh", "unplug", "request_fn"}, Calling(c), st' = st,
              cs' = Tail(cs) \/ \E d \in {"unplug", "request_fn"} : cs' = <<d>> \o Tail(cs)
       PROVE  Inserting'
  <2>1. Tail(cs) \in {<< >>, <<"unplug">>, <<"thresh", "unplug">>}
    <3>1. \/ cs = <<c>> \/ cs = <<"run", "thresh", "unplug">> \/ cs = <<"thresh", "unplug">>
          \/ cs = <<"unplug", "unplug">> \/ cs = <<"request_fn", "unplug">>
          \/ cs = <<"request_fn", "thresh", "unplug">>
      BY <1>1, <1>12, ShapeHeads
    <3>2. CASE cs = <<c>>
      BY <3>2
    <3>3. CASE \E d : cs = <<d, "unplug">>
      BY <3>3
    <3>4. CASE \E d : cs = <<d, "thresh", "unplug">>
      BY <3>4
    <3> QED
      BY <3>1, <3>2, <3>3, <3>4
  <2>2. ASSUME NEW d, NEW s \in {<< >>, <<"unplug">>, <<"thresh", "unplug">>}
        PROVE  Head(<<d>> \o s) = d
    BY <2>2, ShapeFronts, ShapeEntries
  <2>3. ASSUME NEW s \in {<< >>, <<"unplug">>, <<"thresh", "unplug">>}
        PROVE  s = << >> \/ Head(s) # "addtail"
    BY <2>3, ShapeEntries
  <2>4. cs' = << >> \/ Head(cs') # "addtail"
    <3>1. CASE cs' = Tail(cs)
      BY <2>1, <2>3, <3>1
    <3>2. ASSUME NEW d \in {"unplug", "request_fn"}, cs' = <<d>> \o Tail(cs) PROVE Head(cs') # "addtail"
      BY <2>1, <2>2, <3>2
    <3> QED
      BY <1>12, <3>1, <3>2
  <2>5. ~(Calling("drain") \/ Calling("addtail"))
    BY <1>12 DEF Calling
  <2> QED
    BY <1>3, <1>12, <2>4, <2>5
<1>13. CASE LockOwner
  <2>1. CASE DrainPass
    BY <1>4, <2>1 DEF DrainPass, Calling
  <2>2. CASE DrainEnd
    <3>1. Calling("drain") /\ cs' = Tail(cs) /\ look' = << >> /\ st' = st
      BY <2>2 DEF DrainEnd, Return, sched
    <3>2. cs = <<"drain", "addtail", "run", "thresh", "unplug">>
      BY <1>1, <3>1, ShapeHeads
    <3>3. Calling("addtail")'
      BY <3>1, <3>2, ShapeEntries DEF Calling
    <3> QED
      BY <3>1, <3>3 DEF Inserting
  <2>3. CASE AddTail
    <3>1. Calling("addtail") /\ cs' = Tail(cs)
      BY <2>3 DEF AddTail, Return
    <3>2. PICK p \in Pcs : st[p] = "insert" /\ st' = [st EXCEPT ![p] = "queued"]
      BY <2>3 DEF AddTail
    <3>3. \A q \in Pcs : st'[q] # "insert"
      BY <1>1, <1>2, <3>2 DEF Inserting
    <3>4. cs = <<"addtail", "run", "thresh", "unplug">>
      BY <1>1, <3>1, ShapeHeads
    <3>5. ~Calling("addtail")'
      BY <3>1, <3>4, ShapeEntries DEF Calling
    <3> QED
      BY <3>3, <3>5 DEF Inserting
  <2>4. CASE __blk_run_queue
    BY <1>12, <2>4 DEF __blk_run_queue
  <2>5. CASE UnplugThreshold
    BY <1>12, <2>5 DEF UnplugThreshold
  <2>6. CASE __generic_unplug_device
    BY <1>12, <2>6 DEF __generic_unplug_device, Return
  <2>7. CASE PeekAsksLook \/ IssueRequest
    BY <1>4, <2>7 DEF PeekAsksLook, IssueRequest, Calling
  <2>8. CASE StopQueue \/ RequestFnEnd
    BY <1>12, <2>8 DEF StopQueue, RequestFnEnd, Return
  <2>9. CASE BlkDoneEnd
    <3>1. Calling("blk_done") /\ st' = st /\ cs' = <<"run">>
      BY <2>9 DEF BlkDoneEnd
    <3> QED
      BY <1>3, <3>1, ShapeEntries DEF Calling
  <2> QED
    BY <1>13, <2>1, <2>2, <2>3, <2>4, <2>5, <2>6, <2>7, <2>8, <2>9 DEF LockOwner
<1>14. ASSUME NEW r \in inflight, blk_done(r) PROVE Inserting'
  <2>1. /\ cs = << >> \/ Calling("blk_done")
        /\ st' = [x \in Reqs |-> IF x \in ToSet(rqs[r].bios) \cup ({r} \cap Pcs) THEN "done" ELSE st[x]]
        /\ cs' = <<"blk_done">>
    BY <1>14 DEF blk_done, EndRequest
  <2>2. \A p \in Pcs : st'[p] = "insert" => st[p] = "insert"
    BY <1>2, <2>1
  <2> QED
    BY <1>3, <2>1, <2>2, ShapeEntries DEF Calling
<1>15. CASE blk_unplug_timeout \/ blk_unplug_work
  BY <1>4, <1>15 DEF blk_unplug_timeout, blk_unplug_work, sched
<1>16. CASE generic_unplug_device \/ blk_unplug
  <2>1. cs = << >> /\ cs' = <<"unplug">> /\ st' = st
    BY <1>16 DEF generic_unplug_device, blk_unplug
  <2> QED
    BY <1>3, <2>1, ShapeEntries
<1>17. CASE UNCHANGED vars
  BY <1>4, <1>17 DEF vars
<1> QED
  BY <1>11, <1>13, <1>14, <1>15, <1>16, <1>17 DEF Next, Finished

\* The bios a command carries: none.
LEMMA CommandBios ==
    ASSUME QInv, NEW p \in Pcs
    PROVE  BiosOf(p) = {}
<1>1. p \in Reqs /\ (rqs[p] = NoRq \/ PcRq(rqs[p]))
  BY DEF QInv, RqsOK, Reqs
<1>2. rqs[p].bios = << >>
  BY <1>1 DEF NoRq, PcRq
<1> QED
  BY <1>2, ShapeEntries DEF BiosOf

LEMMA IssuedBios ==
    \A b : b \in Issued <=> b \in Bios /\ (st[b] = "done" \/ \E r \in inflight : b \in BiosOf(r))
  BY ToSetRange DEF Issued, BiosOf

LEMMA BiosAre ==
    ASSUME QInv
    PROVE  /\ \A r \in Reqs : BiosOf(r) \subseteq Bios
           /\ \A r, x \in Reqs : r # x => BiosOf(r) \cap BiosOf(x) = {}
           /\ \A r \in Reqs : \A b \in BiosOf(r) : st[b] = "queued" \/ (st[b] = "getrq" /\ r = b)
           /\ \A r \in Reqs : BiosOf(r) # {} => rqs[r] # NoRq
<1>1. rqs \in [Reqs -> Rq] /\ Carry(rqs, st)
  BY DEF QInv, RqsOK
<1>2. \A r \in Reqs : BiosOf(r) \subseteq Bios
  BY <1>1, CarriedBios DEF BiosOf
<1>3. \A r \in Reqs : rqs[r] = NoRq => BiosOf(r) = {}
  BY ShapeEntries DEF NoRq, BiosOf
<1> QED
  BY <1>1, <1>2, <1>3 DEF Carry, BiosOf

\* A bio that has been queued is carried by a request that has been queued.
LEMMA QueuedBio ==
    ASSUME QInv, InLine, NEW b \in Bios, st[b] = "queued"
    PROVE  \E r \in Reqs : b \in BiosOf(r) /\ r \in Range(look) \cup Range(queue_head) \cup inflight
<1>1. PICK r \in Reqs : b \in BiosOf(r)
  BY DEF QInv, Carry, BiosOf
<1>2. r \notin Pcs /\ r \in Bios
  BY <1>1, CommandBios DEF Reqs
<1>3. rqs[r] # NoRq
  BY <1>1, BiosAre
<1>4. st[r] # "getrq"
  BY <1>1, <1>2 DEF InLine
<1>5. st[r] # "insert"
  BY <1>2 DEF QInv, Types
<1> QED
  BY <1>1, <1>3, <1>4, <1>5 DEF QInv, Places

\* A request that is not on LOOK's list keeps its bios as long as it exists.
LEMMA KeptBios ==
    ASSUME Frozen, NEW r \in Reqs \ Range(look), rqs[r] # NoRq, rqs'[r] # NoRq
    PROVE  BiosOf(r)' = BiosOf(r) /\ rqs[r].flags \subseteq rqs'[r].flags
  BY DEF Frozen, BiosOf

\* Steps that leave the dispatch queue and the driver alone: a bio merged,
\* or given a request, or its request added; a command given a request; the
\* plug, the timer and kblockd.
LEMMA LineKept ==
    ASSUME QInv, QInv', Frozen, Inserting, InLine,
           UNCHANGED <<queue_head, inflight, before>>,
           \A x \in Reqs : \/ st'[x] = st[x] \/ (st[x] = "new" /\ st'[x] = "getrq")
                           \/ /\ x \in Bios /\ st[x] \in {"new", "getrq"} /\ st'[x] = "queued"
                              /\ cs = << >>,
           \A b \in Bios : st[b] = "new" /\ st'[b] = "getrq" => BiosOf(b)' = {b}
    PROVE  InLine'
<1>1. /\ \A b \in Bios : b \in Reqs /\ b \notin Pcs
      /\ \A p \in Pcs : p \in Reqs
      /\ Range(queue_head) \subseteq Reqs /\ inflight \subseteq Reqs /\ Range(look) \subseteq Bios
  BY QFacts DEF Reqs
<1>2. Range(look') \subseteq Bios
  <2>1. look' \in Seq(Bios)
    BY DEF QInv, Types
  <2> QED
    BY <2>1, ListFacts
<1>3. \A r \in Range(queue_head) \cup inflight :
         BiosOf(r)' = BiosOf(r) /\ rqs[r].flags \subseteq rqs'[r].flags
  <2>1. \A r \in Range(queue_head) \cup inflight : r \notin Range(look) /\ rqs[r] # NoRq /\ r \in Reqs
    BY <1>1 DEF QInv, Places
  <2>2. \A r \in Range(queue_head) \cup inflight : rqs'[r] # NoRq
    BY <2>1 DEF QInv, Places
  <2> QED
    BY <2>1, <2>2, KeptBios
<1>4. \A p \in Pcs : st[p] = "insert" => rqs[p].flags \subseteq rqs'[p].flags
  <2>1. ASSUME NEW p \in Pcs, st[p] = "insert" PROVE rqs[p].flags \subseteq rqs'[p].flags
    <3>1. p \notin Range(look) /\ rqs[p] # NoRq /\ p \in Reqs
      BY <1>1, <2>1 DEF QInv, Places
    <3>2. st'[p] = "insert"
      BY <1>1, <2>1
    <3>3. rqs'[p] # NoRq
      BY <3>1, <3>2 DEF QInv, Places
    <3> QED
      BY <3>1, <3>3, KeptBios
  <2> QED
    BY <2>1
<1>5. \A b \in Bios : (st'[b] = "done" <=> st[b] = "done") /\ (st[b] = "queued" => st'[b] = "queued")
  BY <1>1
<1>6. Issued' = Issued
  <2>1. \A b : b \in Issued' <=>
           b \in Bios /\ (st'[b] = "done" \/ \E r \in inflight : b \in BiosOf(r)')
    BY ToSetRange DEF Issued, BiosOf
  <2>2. \A b : b \in Issued' <=> b \in Issued
    BY <1>3, <1>5, <2>1, IssuedBios
  <2> QED
    BY <2>2 DEF Issued
<1>7. ASSUME NEW r \in Range(look'), NEW c \in BiosOf(r)', st[c] \notin {"new", "getrq"}
      PROVE  \E x \in Range(look) : c \in BiosOf(x)
  <2>1. r \in Reqs /\ c \in Bios /\ st'[c] = "queued" /\ r \notin Range(queue_head) \cup inflight
    <3>1. r \in Reqs /\ r \notin Range(queue_head) \cup inflight /\ st'[r] = "queued"
      BY <1>1, <1>2 DEF QInv, Places
    <3>2. c \in Bios /\ (st'[c] = "queued" \/ (st'[c] = "getrq" /\ r = c))
      BY <3>1, CarriedBios DEF QInv, RqsOK, Carry, BiosOf
    <3> QED
      BY <3>1, <3>2
  <2>2. st[c] = "queued"
    BY <1>1, <1>7, <2>1
  <2>3. PICK x \in Reqs : c \in BiosOf(x) /\ x \in Range(look) \cup Range(queue_head) \cup inflight
    BY <2>1, <2>2, QueuedBio
  <2>4. x \notin Range(queue_head) \cup inflight
    <3>1. SUFFICES ASSUME x \in Range(queue_head) \cup inflight PROVE FALSE
      OBVIOUS
    <3>2. c \in BiosOf(x)' /\ x # r
      BY <1>3, <2>1, <2>3, <3>1
    <3> QED
      BY <2>1, <3>2 DEF QInv, Carry, BiosOf
  <2> QED
    BY <2>3, <2>4
<1>8. ASSUME NEW p \in Pcs, before[p] # NULL PROVE Apart(p)'
  <2>1. Apart(p) /\ before'[p] = before[p] /\ before[p] \subseteq Bios
    BY <1>8 DEF InLine, QInv, Types
  <2>2. st'[p] = st[p]
    BY <1>1, <2>1 DEF Apart
  <2>3. \A b \in before[p] : st'[b] \in {"queued", "done"}
    BY <1>5, <2>1 DEF Apart
  <2>4. st'[p] = "insert" \/ p \in Range(queue_head') => "soft" \in rqs'[p].flags
    BY <1>3, <1>4, <2>1, <2>2 DEF Apart
  <2>5. st'[p] = "insert" => \A b \in Bios : st'[b] \in {"queued", "done"} => b \in before[p]
    <3>1. st[p] = "insert" => cs # << >>
      BY DEF Inserting, Calling
    <3> QED
      BY <1>1, <2>1, <2>2, <3>1 DEF Apart
  <2>6. ASSUME p \in Range(queue_head)
        PROVE  /\ \A b \in Bios : st'[b] = "done" => b \in before[p]
               /\ \A r \in Reqs : Prec(queue_head, r, p) \/ r \in inflight => BiosOf(r)' \subseteq before[p]
               /\ \A r \in Reqs : Prec(queue_head, p, r) \/ r \in Range(look') =>
                     BiosOf(r)' \cap before[p] = {}
    <3>1. \A r : Prec(queue_head, r, p) \/ Prec(queue_head, p, r) => r \in Range(queue_head)
      BY QFacts, ListFacts
    <3>2. ASSUME NEW r \in Range(look'), NEW c \in BiosOf(r)' PROVE c \notin before[p]
      <4>1. CASE st[c] \in {"new", "getrq"}
        BY <2>1, <4>1 DEF Apart
      <4>2. CASE st[c] \notin {"new", "getrq"}
        <5>1. PICK x \in Range(look) : c \in BiosOf(x)
          BY <1>7, <4>2
        <5> QED
          BY <1>1, <2>1, <2>6, <5>1 DEF Apart
      <4> QED
        BY <4>1, <4>2
    <3> QED
      BY <1>3, <1>5, <2>1, <2>6, <3>1, <3>2 DEF Apart
  <2>7. p \in inflight \/ st'[p] = "done" => before[p] \subseteq Issued'
    BY <1>6, <2>1, <2>2 DEF Apart
  <2> QED
    BY <2>1, <2>2, <2>3, <2>4, <2>5, <2>6, <2>7 DEF Apart
<1>9. \A p \in Pcs : st'[p] \in {"new", "getrq"} => before'[p] = NULL
  BY <1>1 DEF InLine
<1>10. \A p \in Pcs : st'[p] = "queued" => p \in Range(queue_head') \cup inflight'
  BY <1>1 DEF InLine
<1>11. ASSUME NEW b \in Bios, st'[b] = "getrq" PROVE BiosOf(b)' = {b}
  <2>1. CASE st[b] = "new"
    BY <1>11, <2>1
  <2>2. CASE st[b] = "getrq"
    <3>1. b \in Reqs \ Range(look) /\ rqs[b] # NoRq /\ rqs'[b] # NoRq
      BY <1>1, <1>11, <2>2 DEF QInv, Places
    <3> QED
      BY <2>2, <3>1, KeptBios DEF InLine
  <2> QED
    BY <1>1, <1>11, <2>1, <2>2
<1> QED
  BY <1>8, <1>9, <1>10, <1>11 DEF InLine

\* A command goes to the head of the dispatch queue, or starts a drain.
LEMMA LineExecute ==
    ASSUME QInv, QInv', Frozen, Inserting, InLine,
           NEW p \in Pcs, NEW at_head \in BOOLEAN, blk_execute_rq_nowait(p, at_head)
    PROVE  InLine'
<1>1. /\ cs = << >> /\ st[p] = "getrq" /\ FlagSet(rqs', rqs, p, "soft")
      /\ \/ /\ queue_head' = <<p>> \o queue_head
            /\ st' = [st EXCEPT ![p] = "queued"]
            /\ before' = before
         \/ /\ queue_head' = queue_head
            /\ st' = [st EXCEPT ![p] = "insert"]
            /\ before' = [before EXCEPT ![p] = {b \in Bios : st[b] \in {"queued", "done"}}]
      /\ UNCHANGED <<look, inflight>>
  BY DEF blk_execute_rq_nowait, sched, FlagSet
<1>2. /\ \A b \in Bios : b \in Reqs /\ b \notin Pcs
      /\ \A x \in Pcs : x \in Reqs
      /\ Range(queue_head) \subseteq Reqs /\ inflight \subseteq Reqs /\ Range(look) \subseteq Bios
      /\ rqs \in [Reqs -> Rq] /\ st \in [Reqs -> Where] /\ queue_head \in Seq(Reqs)
      /\ before \in [Pcs -> (SUBSET Bios) \cup {NULL}]
  BY QFacts DEF Reqs, QInv, Types
<1>3. /\ \A x \in Reqs : BiosOf(x)' = BiosOf(x) /\ rqs[x].flags \subseteq rqs'[x].flags
      /\ "soft" \in rqs'[p].flags
  BY <1>1, <1>2 DEF FlagSet, Rq, BiosOf
<1>4. /\ \A x \in Reqs : x # p => st'[x] = st[x]
      /\ \A b \in Bios : st'[b] = st[b]
  BY <1>1, <1>2
<1>5. /\ \A x \in Pcs : x # p => before'[x] = before[x]
      /\ before[p] = NULL
  BY <1>1, <1>2 DEF InLine
<1>6. Issued' = Issued
  <2>1. \A b : b \in Issued' <=>
           b \in Bios /\ (st'[b] = "done" \/ \E r \in inflight : b \in BiosOf(r)')
    BY <1>1, ToSetRange DEF Issued, BiosOf
  <2>2. \A b : b \in Issued' <=> b \in Issued
    BY <1>2, <1>3, <1>4, <2>1, IssuedBios
  <2> QED
    BY <2>2 DEF Issued
<1>7. p \notin Range(queue_head) /\ p \notin inflight /\ \A x \in Pcs : st[x] # "insert"
  BY <1>1, <1>2 DEF QInv, Places, Inserting, Calling
<1>8. /\ Range(queue_head) \subseteq Range(queue_head')
      /\ \A x : x \in Range(queue_head') => x = p \/ x \in Range(queue_head)
      /\ \A x, y : Prec(queue_head', x, y) => Prec(queue_head, x, y) \/ (x = p /\ y \in Range(queue_head))
      /\ st'[p] = "queued" => p \in Range(queue_head')
  <2>1. /\ Range(<<p>> \o queue_head) = Range(queue_head) \cup {p}
        /\ \A x, y : Prec(<<p>> \o queue_head, x, y) <=>
              Prec(queue_head, x, y) \/ (x = p /\ y \in Range(queue_head))
    BY <1>2, FrontOrder
  <2>2. CASE queue_head' = <<p>> \o queue_head
    BY <2>1, <2>2
  <2>3. CASE queue_head' = queue_head /\ st' = [st EXCEPT ![p] = "insert"]
    BY <1>2, <2>3
  <2> QED
    BY <1>1, <2>2, <2>3
<1>9. ASSUME NEW x \in Pcs, x # p, before[x] # NULL PROVE Apart(x)'
  <2>1. Apart(x) /\ before'[x] = before[x] /\ before[x] \subseteq Bios /\ st'[x] = st[x]
    BY <1>2, <1>4, <1>5, <1>9 DEF InLine
  <2>2. x \in Range(queue_head') <=> x \in Range(queue_head)
    BY <1>8, <1>9
  <2>3. \A b \in before[x] : st'[b] \in {"queued", "done"}
    BY <1>4, <2>1 DEF Apart
  <2>4. st'[x] = "insert" \/ x \in Range(queue_head') => "soft" \in rqs'[x].flags
    BY <1>2, <1>3, <2>1, <2>2 DEF Apart
  <2>5. st'[x] # "insert"
    BY <1>7, <2>1
  <2>6. ASSUME x \in Range(queue_head')
        PROVE  /\ \A b \in Bios : st'[b] = "done" => b \in before[x]
               /\ \A r \in Reqs : Prec(queue_head', r, x) \/ r \in inflight => BiosOf(r)' \subseteq before[x]
               /\ \A r \in Reqs : Prec(queue_head', x, r) \/ r \in Range(look) =>
                     BiosOf(r)' \cap before[x] = {}
    <3>1. BiosOf(p) = {}
      BY CommandBios
    <3> QED
      BY <1>3, <1>4, <1>8, <1>9, <2>1, <2>2, <2>6, <3>1 DEF Apart
  <2>7. x \in inflight \/ st'[x] = "done" => before[x] \subseteq Issued'
    BY <1>6, <2>1 DEF Apart
  <2> QED
    BY <1>1, <2>1, <2>3, <2>4, <2>5, <2>6, <2>7 DEF Apart
<1>10. ASSUME before'[p] # NULL PROVE Apart(p)'
  <2>1. /\ queue_head' = queue_head /\ st' = [st EXCEPT ![p] = "insert"]
        /\ before' = [before EXCEPT ![p] = {b \in Bios : st[b] \in {"queued", "done"}}]
    BY <1>1, <1>5, <1>10
  <2>2. st'[p] = "insert" /\ before'[p] = {b \in Bios : st[b] \in {"queued", "done"}}
    BY <1>2, <2>1
  <2> QED
    BY <1>1, <1>3, <1>4, <1>7, <2>1, <2>2 DEF Apart
<1>11. \A x \in Pcs : st'[x] \in {"new", "getrq"} => before'[x] = NULL
  <2>1. st'[p] \in {"queued", "insert"}
    BY <1>1, <1>2
  <2> QED
    BY <1>2, <1>4, <1>5, <2>1 DEF InLine
<1>12. \A x \in Pcs : st'[x] = "queued" => x \in Range(queue_head') \cup inflight'
  BY <1>1, <1>2, <1>4, <1>8 DEF InLine
<1>13. \A b \in Bios : st'[b] = "getrq" => BiosOf(b)' = {b}
  BY <1>2, <1>3, <1>4 DEF InLine
<1> QED
  BY <1>5, <1>9, <1>10, <1>11, <1>12, <1>13 DEF InLine

\* LOOK moves a request to the dispatch queue: the insertion sort stops at a
\* command, so the request comes to stand behind it.
LEMMA LineDispatch ==
    ASSUME QInv, QInv', InLine, look_dispatch, UNCHANGED <<bio, st, rqs, inflight, before>>
    PROVE  InLine'
<1>1. PICK r \in Range(look), k \in 1 .. Len(queue_head) + 1 :
         /\ Range(look') = Range(look) \ {r}
         /\ queue_head' = InsertAt(queue_head, k, r)
         /\ \A j \in 1 .. Len(queue_head) : StopsAt(r, j) => j < k
  BY Dispatched
<1>2. /\ \A b \in Bios : b \in Reqs /\ b \notin Pcs
      /\ Range(look) \subseteq Bios /\ queue_head \in Seq(Reqs) /\ r \in Bios /\ r \in Reqs
      /\ \A p \in Pcs : p \in Reqs
      /\ before \in [Pcs -> (SUBSET Bios) \cup {NULL}]
  BY QFacts DEF Reqs, QInv, Types
<1>3. /\ Range(queue_head') = Range(queue_head) \cup {r}
      /\ \A x, y : Prec(queue_head', x, y) =>
             \/ Prec(queue_head, x, y)
             \/ y = r /\ \E j \in 1 .. Len(queue_head) : j < k /\ queue_head[j] = x
             \/ x = r /\ \E j \in 1 .. Len(queue_head) : k <= j /\ queue_head[j] = y
  BY <1>1, <1>2, InsertOrder
<1>4. \A x \in Reqs : BiosOf(x)' = BiosOf(x)
  BY DEF BiosOf
<1>5. Issued' = Issued
  BY DEF Issued
<1>6. ASSUME NEW p \in Pcs, before[p] # NULL PROVE Apart(p)'
  <2>1. Apart(p) /\ before[p] \subseteq Bios /\ p # r
    BY <1>2, <1>6 DEF InLine
  <2>2. ASSUME p \in Range(queue_head')
        PROVE  /\ p \in Range(queue_head)
               /\ \A x \in Reqs : Prec(queue_head', x, p) => BiosOf(x) \subseteq before[p]
               /\ \A x \in Reqs : Prec(queue_head', p, x) \/ x \in Range(look') =>
                     BiosOf(x) \cap before[p] = {}
    <3>1. p \in Range(queue_head) /\ "soft" \in rqs[p].flags
      BY <1>3, <2>1, <2>2 DEF Apart
    <3>2. \A j \in 1 .. Len(queue_head) : queue_head[j] = p => StopsAt(r, j)
      BY <3>1 DEF StopsAt
    <3>3. \A j \in 1 .. Len(queue_head) : queue_head[j] = p => j < k
      BY <1>1, <3>2
    <3>4. \A x : ~(x = r /\ \E j \in 1 .. Len(queue_head) : k <= j /\ queue_head[j] = p)
      BY <1>2, <3>3, ListFacts
    <3>5. \A x : Prec(queue_head', x, p) => Prec(queue_head, x, p)
      BY <1>3, <2>1, <3>4
    <3>6. \A x : Prec(queue_head', p, x) => Prec(queue_head, p, x) \/ x = r
      BY <1>3, <2>1
    <3> QED
      BY <1>1, <2>1, <3>1, <3>5, <3>6 DEF Apart
  <2> QED
    BY <1>4, <1>5, <2>1, <2>2 DEF Apart
<1>7. \A p \in Pcs : st[p] = "queued" => p \in Range(queue_head') \cup inflight
  BY <1>3 DEF InLine
<1> QED
  BY <1>2, <1>4, <1>6, <1>7 DEF InLine

\* The command that was being inserted goes to the end of the dispatch
\* queue: LOOK is empty, so whatever was queued before is in front of it.
LEMMA LineAddTail ==
    ASSUME QInv, QInv', Inserting, InLine, AddTail
    PROVE  InLine'
<1>1. PICK p \in Pcs : /\ st[p] = "insert" /\ queue_head' = Append(queue_head, p)
                       /\ st' = [st EXCEPT ![p] = "queued"]
  BY DEF AddTail
<1>2. look = << >> /\ UNCHANGED <<rqs, look, inflight, before>>
  BY DEF AddTail, sched, Inserting
<1>3. /\ \A b \in Bios : b \in Reqs /\ b \notin Pcs
      /\ \A x \in Pcs : x \in Reqs
      /\ Range(queue_head) \subseteq Reqs /\ inflight \subseteq Reqs
      /\ st \in [Reqs -> Where] /\ queue_head \in Seq(Reqs)
      /\ before \in [Pcs -> (SUBSET Bios) \cup {NULL}]
  BY QFacts DEF Reqs, QInv, Types
<1>4. /\ st'[p] = "queued" /\ \A x \in Reqs : x # p => st'[x] = st[x]
      /\ \A b \in Bios : st'[b] = st[b]
  BY <1>1, <1>3
<1>5. /\ Range(queue_head') = Range(queue_head) \cup {p}
      /\ \A x, y : Prec(queue_head', x, y) <=>
            Prec(queue_head, x, y) \/ (x \in Range(queue_head) /\ y = p)
  BY <1>1, <1>3, AppendOrder
<1>6. \A x \in Reqs : BiosOf(x)' = BiosOf(x)
  BY <1>2 DEF BiosOf
<1>7. Issued' = Issued
  <2>1. \A b : b \in Issued' <=>
           b \in Bios /\ (st'[b] = "done" \/ \E r \in inflight : b \in BiosOf(r)')
    BY <1>2, ToSetRange DEF Issued, BiosOf
  <2>2. \A b : b \in Issued' <=> b \in Issued
    BY <1>3, <1>4, <1>6, <2>1, IssuedBios
  <2> QED
    BY <2>2 DEF Issued
<1>8. Range(look') = {} /\ p \notin Range(queue_head) /\ p \notin inflight
  BY <1>1, <1>2, <1>3, ShapeEntries DEF QInv, Places
<1>9. BiosOf(p) = {}
  BY CommandBios
<1>10. ASSUME NEW x \in Pcs, x # p, before[x] # NULL PROVE Apart(x)'
  <2>1. Apart(x) /\ before'[x] = before[x] /\ before[x] \subseteq Bios /\ st'[x] = st[x]
    BY <1>2, <1>3, <1>4, <1>10 DEF InLine
  <2>2. st'[x] # "insert" /\ (x \in Range(queue_head') <=> x \in Range(queue_head))
    BY <1>1, <1>5, <1>10, <2>1 DEF Inserting
  <2>3. \A b \in before[x] : st'[b] \in {"queued", "done"}
    BY <1>4, <2>1 DEF Apart
  <2>4. ASSUME x \in Range(queue_head')
        PROVE  /\ \A b \in Bios : st'[b] = "done" => b \in before[x]
               /\ \A r \in Reqs : Prec(queue_head', r, x) \/ r \in inflight => BiosOf(r)' \subseteq before[x]
               /\ \A r \in Reqs : Prec(queue_head', x, r) \/ r \in Range(look') =>
                     BiosOf(r)' \cap before[x] = {}
    BY <1>4, <1>5, <1>6, <1>8, <1>9, <1>10, <2>1, <2>2, <2>4 DEF Apart
  <2> QED
    BY <1>2, <1>7, <2>1, <2>2, <2>3, <2>4 DEF Apart
<1>11. ASSUME before[p] # NULL PROVE Apart(p)'
  <2>1. Apart(p) /\ before'[p] = before[p] /\ before[p] \subseteq Bios
    BY <1>2, <1>3, <1>11 DEF InLine
  <2>2. \A b \in Bios : st[b] \in {"queued", "done"} => b \in before[p]
    BY <1>1, <2>1 DEF Apart
  <2>3. ASSUME NEW r \in Range(queue_head) \cup inflight PROVE BiosOf(r) \subseteq before[p]
    <3>1. r \in Reqs /\ st[r] = "queued"
      BY <1>3 DEF QInv, Places
    <3> QED
      BY <2>2, <3>1, BiosAre
  <2>4. /\ \A r : Prec(queue_head', r, p) => r \in Range(queue_head)
        /\ \A r : ~Prec(queue_head', p, r)
    <3>1. \A x, y : Prec(queue_head, x, y) => x \in Range(queue_head) /\ y \in Range(queue_head)
      BY <1>3, ListFacts
    <3> QED
      BY <1>5, <1>8, <3>1
  <2>5. \A b \in before[p] : st'[b] \in {"queued", "done"}
    BY <1>4, <2>1 DEF Apart
  <2>6. "soft" \in rqs'[p].flags
    BY <1>1, <1>2, <2>1 DEF Apart
  <2>7. /\ \A b \in Bios : st'[b] = "done" => b \in before[p]
        /\ \A r \in Reqs : Prec(queue_head', r, p) \/ r \in inflight => BiosOf(r)' \subseteq before[p]
        /\ \A r \in Reqs : Prec(queue_head', p, r) \/ r \in Range(look') =>
              BiosOf(r)' \cap before[p] = {}
    BY <1>4, <1>6, <1>8, <2>2, <2>3, <2>4
  <2> QED
    BY <1>2, <1>4, <1>8, <2>1, <2>5, <2>6, <2>7 DEF Apart
<1>12. \A x \in Pcs : st'[x] \in {"new", "getrq"} => before'[x] = NULL
  BY <1>2, <1>3, <1>4 DEF InLine
<1>13. \A x \in Pcs : st'[x] = "queued" => x \in Range(queue_head') \cup inflight'
  BY <1>2, <1>3, <1>4, <1>5 DEF InLine
<1>14. \A b \in Bios : st'[b] = "getrq" => BiosOf(b)' = {b}
  BY <1>3, <1>4, <1>6 DEF InLine
<1> QED
  BY <1>2, <1>10, <1>11, <1>12, <1>13, <1>14 DEF InLine

\* The driver takes the request at the head.  If that is a command, all that
\* was queued before it has been issued, for the rest of it would be on the
\* dispatch queue or on LOOK's list, and nothing there is.
LEMMA LineIssue ==
    ASSUME QInv, QInv', InLine, IssueRequest
    PROVE  InLine'
<1> DEFINE r == Head(queue_head)
<1>1. /\ queue_head # << >> /\ queue_head' = Tail(queue_head) /\ inflight' = inflight \cup {r}
      /\ FlagSet(rqs', rqs, r, "started")
      /\ UNCHANGED <<st, look, before>>
  BY DEF IssueRequest, FlagSet, sched
<1>2. /\ \A b \in Bios : b \in Reqs /\ b \notin Pcs
      /\ \A x \in Pcs : x \in Reqs
      /\ Range(queue_head) \subseteq Reqs /\ inflight \subseteq Reqs /\ Range(look) \subseteq Bios
      /\ rqs \in [Reqs -> Rq] /\ queue_head \in Seq(Reqs)
      /\ before \in [Pcs -> (SUBSET Bios) \cup {NULL}]
  BY QFacts DEF Reqs, QInv, Types
<1>3. /\ r \in Reqs /\ Range(queue_head) = Range(queue_head') \cup {r} /\ r \notin Range(queue_head')
  BY <1>1, QueueHead
<1>4. \A x, y : Prec(queue_head, x, y) <=> Prec(queue_head', x, y) \/ (x = r /\ y \in Range(queue_head'))
  BY <1>1, <1>2, TailOrder
<1> HIDE DEF r
<1>5. \A x \in Reqs : BiosOf(x)' = BiosOf(x) /\ rqs[x].flags \subseteq rqs'[x].flags
  BY <1>1, <1>2 DEF FlagSet, Rq, BiosOf
<1>6. \A b : b \in Issued' <=> b \in Issued \/ b \in BiosOf(r)
  <2>1. \A b : b \in Issued' <=>
           b \in Bios /\ (st[b] = "done" \/ \E x \in inflight' : b \in BiosOf(x)')
    BY <1>1, ToSetRange DEF Issued, BiosOf
  <2>2. BiosOf(r) \subseteq Bios
    BY <1>3, BiosAre
  <2> QED
    BY <1>1, <1>2, <1>3, <1>5, <2>1, <2>2, IssuedBios
<1>7. ASSUME NEW p \in Pcs, before[p] # NULL PROVE Apart(p)'
  <2>1. Apart(p) /\ before'[p] = before[p] /\ before[p] \subseteq Bios /\ st'[p] = st[p]
    BY <1>1, <1>2, <1>7 DEF InLine
  <2>2. st'[p] = "insert" \/ p \in Range(queue_head') => "soft" \in rqs'[p].flags
    BY <1>2, <1>3, <1>5, <2>1 DEF Apart
  <2>3. ASSUME p \in Range(queue_head')
        PROVE  /\ \A b \in Bios : st'[b] = "done" => b \in before[p]
               /\ \A x \in Reqs : Prec(queue_head', x, p) \/ x \in inflight' =>
                     BiosOf(x)' \subseteq before[p]
               /\ \A x \in Reqs : Prec(queue_head', p, x) \/ x \in Range(look') =>
                     BiosOf(x)' \cap before[p] = {}
    <3>1. p \in Range(queue_head) /\ Prec(queue_head, r, p)
      BY <1>3, <1>4, <2>3
    <3> QED
      BY <1>1, <1>4, <1>5, <2>1, <3>1 DEF Apart
  <2>4. ASSUME p = r PROVE before[p] \subseteq Issued
    <3>1. p \in Range(queue_head) /\ BiosOf(p) = {}
      BY <1>3, <2>4, CommandBios
    <3>2. ASSUME NEW b \in before[p], st[b] = "queued" PROVE b \in Issued
      <4>1. PICK x \in Reqs : b \in BiosOf(x) /\ x \in Range(look) \cup Range(queue_head) \cup inflight
        BY <2>1, <3>2, QueuedBio
      <4>2. x \notin Range(look)
        BY <2>1, <3>1, <4>1 DEF Apart
      <4>3. x \notin Range(queue_head)
        <5>1. x # p
          BY <3>1, <4>1
        <5>2. x \in Range(queue_head) => Prec(queue_head, p, x)
          BY <1>3, <1>4, <2>4, <5>1
        <5> QED
          BY <2>1, <3>1, <4>1, <5>2 DEF Apart
      <4> QED
        BY <2>1, <4>1, <4>2, <4>3, IssuedBios
    <3>3. ASSUME NEW b \in before[p] PROVE b \in Issued
      BY <2>1, <3>2, IssuedBios DEF Apart
    <3> QED
      BY <3>3
  <2>5. p \in inflight' \/ st'[p] = "done" => before[p] \subseteq Issued'
    BY <1>1, <1>6, <2>1, <2>4 DEF Apart
  <2> QED
    BY <1>1, <2>1, <2>2, <2>3, <2>5 DEF Apart
<1>8. \A p \in Pcs : st[p] = "queued" => p \in Range(queue_head') \cup inflight'
  BY <1>1, <1>3 DEF InLine
<1> QED
  BY <1>1, <1>2, <1>5, <1>7, <1>8 DEF InLine

\* A request ends: what was issued stays issued.
LEMMA LineEnded ==
    ASSUME QInv, QInv', Inserting, InLine, NEW r \in inflight, blk_done(r)
    PROVE  InLine'
<1>1. /\ cs = << >> \/ Calling("blk_done")
      /\ inflight' = inflight \ {r}
      /\ st' = [x \in Reqs |-> IF x \in BiosOf(r) \cup ({r} \cap Pcs) THEN "done" ELSE st[x]]
      /\ rqs' = [rqs EXCEPT ![r] = NoRq]
      /\ UNCHANGED <<look, queue_head, before>>
  BY ToSetRange DEF blk_done, EndRequest, sched, BiosOf
<1>2. /\ \A b \in Bios : b \in Reqs /\ b \notin Pcs
      /\ \A x \in Pcs : x \in Reqs
      /\ Range(queue_head) \subseteq Reqs /\ inflight \subseteq Reqs /\ Range(look) \subseteq Bios
      /\ rqs \in [Reqs -> Rq] /\ queue_head \in Seq(Reqs) /\ r \in Reqs
      /\ before \in [Pcs -> (SUBSET Bios) \cup {NULL}]
  BY QFacts DEF Reqs, QInv, Types
<1>3. /\ BiosOf(r)' = {} /\ \A x \in Reqs : x # r => rqs'[x] = rqs[x] /\ BiosOf(x)' = BiosOf(x)
  <2>1. rqs'[r] = NoRq /\ \A x \in Reqs : x # r => rqs'[x] = rqs[x]
    BY <1>1, <1>2
  <2> QED
    BY <2>1, ShapeEntries DEF BiosOf, NoRq
<1>4. /\ BiosOf(r) \subseteq Bios
      /\ \A b \in Bios : st'[b] = IF b \in BiosOf(r) THEN "done" ELSE st[b]
      /\ \A p \in Pcs : st'[p] = IF p = r THEN "done" ELSE st[p]
  <2>1. BiosOf(r) \subseteq Bios
    BY <1>2, BiosAre
  <2> QED
    BY <1>1, <1>2, <2>1
<1>5. Issued \subseteq Issued'
  <2>1. \A b : b \in Issued' <=>
           b \in Bios /\ (st'[b] = "done" \/ \E x \in inflight' : b \in BiosOf(x)')
    BY ToSetRange DEF Issued, BiosOf
  <2>2. ASSUME NEW b \in Issued PROVE b \in Issued'
    <3>1. b \in Bios /\ (st[b] = "done" \/ \E x \in inflight : b \in BiosOf(x))
      BY <2>2, IssuedBios
    <3>2. CASE st[b] = "done" \/ b \in BiosOf(r)
      BY <1>4, <2>1, <3>1, <3>2
    <3>3. ASSUME NEW x \in inflight, b \in BiosOf(x), x # r PROVE b \in Issued'
      <4>1. x \in inflight' /\ b \in BiosOf(x)'
        BY <1>1, <1>2, <1>3, <3>3
      <4> QED
        BY <2>1, <3>1, <4>1
    <3> QED
      BY <3>1, <3>2, <3>3
  <2> QED
    BY <2>2
<1>6. \A p \in Pcs : st[p] # "insert"
  BY <1>1 DEF Inserting, Calling
<1>7. r \notin Range(queue_head) /\ r \notin Range(look)
  BY DEF QInv, Places
<1>8. ASSUME NEW p \in Pcs, before[p] # NULL PROVE Apart(p)'
  <2>1. Apart(p) /\ before'[p] = before[p] /\ before[p] \subseteq Bios
    BY <1>1, <1>2, <1>8 DEF InLine
  <2>2. st'[p] \in {"queued", "done"} /\ (st'[p] = "done" => p = r \/ st[p] = "done")
    BY <1>4, <1>6, <2>1 DEF Apart
  <2>3. \A b \in before[p] : st'[b] \in {"queued", "done"}
    BY <1>4, <2>1 DEF Apart
  <2>4. ASSUME p \in Range(queue_head)
        PROVE  /\ "soft" \in rqs'[p].flags
               /\ \A b \in Bios : st'[b] = "done" => b \in before[p]
               /\ \A x \in Reqs : Prec(queue_head, x, p) \/ x \in inflight' =>
                     BiosOf(x)' \subseteq before[p]
               /\ \A x \in Reqs : Prec(queue_head, p, x) \/ x \in Range(look) =>
                     BiosOf(x)' \cap before[p] = {}
    <3>1. BiosOf(r) \subseteq before[p]
      BY <1>2, <2>1, <2>4 DEF Apart
    <3>2. p # r
      BY <1>7, <2>4
    <3> QED
      BY <1>1, <1>2, <1>3, <1>4, <2>1, <2>4, <3>1, <3>2 DEF Apart
  <2>5. p \in inflight' \/ st'[p] = "done" => before[p] \subseteq Issued'
    BY <1>1, <1>5, <2>1, <2>2 DEF Apart
  <2> QED
    BY <1>1, <2>1, <2>2, <2>3, <2>4, <2>5 DEF Apart
<1>9. \A p \in Pcs : st'[p] \in {"new", "getrq"} => before'[p] = NULL
  BY <1>1, <1>4 DEF InLine
<1>10. \A p \in Pcs : st'[p] = "queued" => p \in Range(queue_head') \cup inflight'
  BY <1>1, <1>4 DEF InLine
<1>11. ASSUME NEW b \in Bios, st'[b] = "getrq" PROVE BiosOf(b)' = {b}
  <2>1. st[b] = "getrq"
    BY <1>4, <1>11
  <2>2. b # r
    BY <2>1 DEF QInv, Places
  <2> QED
    BY <1>2, <1>3, <2>1, <2>2 DEF InLine
<1> QED
  BY <1>1, <1>8, <1>9, <1>10, <1>11 DEF InLine

LEMMA LineStep ==
    ASSUME QInv, QInv', Inserting, InLine, [Next]_vars
    PROVE  InLine'
<1>1. Frozen /\ st \in [Reqs -> Where] /\ \A b \in Bios : b \in Reqs
  BY FrozenStep, QFacts
<1>2. ASSUME UNCHANGED <<st, queue_head, inflight, before>> PROVE InLine'
  BY <1>1, <1>2, LineKept
<1>3. ASSUME NEW b \in Bios, BackMerge(b) \/ FrontMerge(b) \/ add_request(b) PROVE InLine'
  <2>1. /\ cs = << >> /\ st[b] \in {"new", "getrq"} /\ st' = [st EXCEPT ![b] = "queued"]
        /\ UNCHANGED <<queue_head, inflight, before>>
    BY <1>3 DEF BackMerge, FrontMerge, add_request
  <2>2. \A x \in Reqs : st'[x] = st[x] \/ (x = b /\ st'[x] = "queued")
    BY <1>1, <2>1
  <2>3. \A c \in Bios : ~(st[c] = "new" /\ st'[c] = "getrq")
    BY <1>1, <2>2
  <2> QED
    BY <1>1, <2>1, <2>2, <2>3, LineKept
<1>4. ASSUME NEW b \in Bios, get_request(b) PROVE InLine'
  <2>1. /\ cs = << >> /\ st[b] = "new" /\ st' = [st EXCEPT ![b] = "getrq"]
        /\ UNCHANGED <<queue_head, inflight, before>>
    BY <1>4 DEF get_request
  <2>2. \A x \in Reqs : st'[x] = st[x] \/ (x = b /\ st[x] = "new" /\ st'[x] = "getrq")
    BY <1>1, <2>1
  <2>3. BiosOf(b)' = {b}
    <3>1. PICK m : rqs' = [m EXCEPT ![b] = BioRequest(b)]
      BY <1>4 DEF get_request
    <3>2. DOMAIN rqs' = Reqs
      BY DEF QInv, RqsOK
    <3>3. rqs'[b] = BioRequest(b)
      BY <1>1, <3>1, <3>2
    <3> QED
      BY <3>3, ShapeEntries DEF BioRequest, BiosOf
  <2>4. \A c \in Bios : st[c] = "new" /\ st'[c] = "getrq" => BiosOf(c)' = {c}
    BY <1>1, <2>2, <2>3
  <2> QED
    BY <1>1, <2>1, <2>2, <2>4, LineKept
<1>5. ASSUME NEW p \in Pcs, blk_get_request(p) PROVE InLine'
  <2>1. /\ cs = << >> /\ st[p] = "new" /\ st' = [st EXCEPT ![p] = "getrq"]
        /\ UNCHANGED <<queue_head, inflight, before>>
    BY <1>5 DEF blk_get_request
  <2>2. \A x \in Reqs : st'[x] = st[x] \/ (x = p /\ st[x] = "new" /\ st'[x] = "getrq")
    BY <1>1, <2>1
  <2>3. \A c \in Bios : ~(st[c] = "new" /\ st'[c] = "getrq")
    BY <1>1, <2>2, QueueAssumption
  <2> QED
    BY <1>1, <2>1, <2>2, <2>3, LineKept
<1>6. ASSUME NEW x \in Reqs, Submitter(x) PROVE InLine'
  BY <1>1, <1>3, <1>4, <1>5, <1>6, LineExecute DEF Submitter
<1>7. CASE LockOwner
  <2>1. CASE DrainPass \/ PeekAsksLook
    BY <2>1, LineDispatch DEF DrainPass, PeekAsksLook
  <2>2. CASE DrainEnd \/ __blk_run_queue \/ UnplugThreshold \/ __generic_unplug_device
              \/ StopQueue \/ RequestFnEnd \/ BlkDoneEnd
    BY <1>2, <2>2 DEF DrainEnd, __blk_run_queue, UnplugThreshold, __generic_unplug_device,
                      StopQueue, RequestFnEnd, BlkDoneEnd
  <2> QED
    BY <1>7, <2>1, <2>2, LineAddTail, LineIssue DEF LockOwner
<1>8. ASSUME NEW r \in inflight, blk_done(r) PROVE InLine'
  BY <1>8, LineEnded
<1>9. CASE blk_unplug_timeout \/ blk_unplug_work \/ generic_unplug_device \/ blk_unplug
            \/ UNCHANGED vars
  BY <1>2, <1>9 DEF blk_unplug_timeout, blk_unplug_work, generic_unplug_device, blk_unplug, vars
<1> QED
  BY <1>6, <1>7, <1>8, <1>9 DEF Next, Finished

\* The whole invariant of the barrier.
Barriers == Served /\ QInv /\ Inserting /\ InLine

LEMMA SafetyInLine == Safety => []Barriers
<1>1. Init => Barriers
  <2>1. Init => Inserting
    BY DEF Init, Inserting, Calling, Reqs
  <2>2. Init => InLine
    BY QueueAssumption DEF Init, InLine, Reqs
  <2> QED
    BY <2>1, <2>2, ServedInit, QInit DEF Barriers
<1>2. Barriers /\ [Next]_vars => Barriers'
  BY ServedStep, QStep, InsertingStep, LineStep DEF Barriers
<1> QED
  BY <1>1, <1>2, PTL DEF Safety

\* A packet command that blk_execute_rq_nowait inserts at the back is issued
\* after every bio queued before it and before every bio queued after it,
\* although LOOK and the insertion sort of elv_dispatch_sort reorder requests
\* and bios merge until the forced drain has ended.
THEOREM SafetyBarrier == Safety => []BackInsertIsBarrier
<1>1. Barriers => BackInsertIsBarrier
  <2> SUFFICES ASSUME Barriers, NEW p \in Pcs, before[p] # NULL
               PROVE  /\ st[p] = "done" \/ p \in inflight => before[p] \subseteq Issued
                      /\ st[p] \in {"insert", "queued"} /\ p \notin inflight => Issued \subseteq before[p]
    BY DEF BackInsertIsBarrier
  <2> USE DEF Barriers
  <2>1. Apart(p)
    BY DEF InLine
  <2>2. ASSUME st[p] \in {"insert", "queued"}, p \notin inflight, NEW b \in Issued PROVE b \in before[p]
    <3>1. b \in Bios /\ (st[b] = "done" \/ \E r \in inflight : b \in BiosOf(r))
      BY <2>2, IssuedBios
    <3>2. CASE st[p] = "queued"
      <4>1. p \in Range(queue_head) /\ inflight \subseteq Reqs
        BY <2>2, <3>2, QFacts DEF InLine
      <4> QED
        BY <2>1, <3>1, <4>1 DEF Apart
    <3>3. CASE st[p] = "insert"
      <4>1. \A r \in inflight : r \in Reqs /\ st[r] = "queued"
        BY QFacts DEF QInv, Places
      <4>2. st[b] \in {"queued", "done"}
        BY <3>1, <4>1, BiosAre
      <4> QED
        BY <2>1, <3>1, <3>3, <4>2 DEF Apart
    <3> QED
      BY <2>2, <3>2, <3>3
  <2> QED
    BY <2>1, <2>2 DEF Apart
<1> QED
  BY <1>1, SafetyInLine, PTL

-----------------------------------------------------------------------------
(* The elevator implements Look *)

\* The entries of LOOK's list l, m being the requests.
EntryOf(m, r) ==
    [rq |-> r, pos |-> m[r].pos, first |-> bio[Head(m[r].bios)].size, len |-> m[r].len]
EntriesOf(m, l) == [i \in DOMAIN l |-> EntryOf(m, l[i])]

Entries == [rq : Bios, pos : Nat, first : Nat, len : Nat]

\* The requests on the list l are requests of the file system.
Listed(m, l) ==
    /\ m \in [Reqs -> Rq] /\ l \in Seq(Bios)
    /\ \A r \in Range(l) : FsRq(m[r])

LEMMA EntryTyped ==
    ASSUME bio \in Workloads, NEW m \in [Reqs -> Rq], NEW r \in Bios, FsRq(m[r])
    PROVE  /\ EntryOf(m, r) \in Entries
           /\ EntryOf(m, r).rq = r /\ EntryOf(m, r).pos = m[r].pos /\ EntryOf(m, r).len = m[r].len
           /\ EntryOf(m, r).first = bio[Head(m[r].bios)].size
           /\ m[r].pos + EntryOf(m, r).first =
                 bio[Head(m[r].bios)].sector + bio[Head(m[r].bios)].size
<1>1. r \in Reqs /\ m[r] \in Rq
  BY DEF Reqs
<1>2. m[r].pos \in Nat /\ m[r].len \in Nat /\ Head(m[r].bios) \in Bios /\ m[r].pos = bio[Head(m[r].bios)].sector
  BY <1>1, RqFields, HeadBio DEF FsRq
<1>3. bio[Head(m[r].bios)].size \in Nat
  BY <1>2, BioFacts
<1> QED
  BY <1>2, <1>3 DEF EntryOf, Entries

LEMMA EntriesTyped ==
    ASSUME bio \in Workloads, NEW m, NEW l, Listed(m, l)
    PROVE  /\ EntriesOf(m, l) \in Seq(Entries) /\ Len(EntriesOf(m, l)) = Len(l)
           /\ DOMAIN EntriesOf(m, l) = 1 .. Len(l) /\ Len(l) \in Nat /\ DOMAIN l = 1 .. Len(l)
           /\ \A i \in 1 .. Len(l) : /\ EntriesOf(m, l)[i] = EntryOf(m, l[i])
                                     /\ l[i] \in Range(l) /\ l[i] \in Bios
<1>1. /\ Len(l) \in Nat /\ DOMAIN l = 1 .. Len(l)
      /\ \A i \in 1 .. Len(l) : l[i] \in Range(l) /\ l[i] \in Bios
  BY ListFacts DEF Listed
<1>2. \A i \in 1 .. Len(l) : EntryOf(m, l[i]) \in Entries
  BY <1>1, EntryTyped DEF Listed
<1>3. EntriesOf(m, l) = [i \in 1 .. Len(l) |-> EntryOf(m, l[i])]
  BY <1>1 DEF EntriesOf
<1> QED
  BY <1>1, <1>2, <1>3

\* Only the requests on the list matter.
LEMMA EntriesSame ==
    ASSUME NEW m, NEW n, NEW l \in Seq(Bios),
           \A r \in Range(l) : n[r].bios = m[r].bios /\ n[r].pos = m[r].pos /\ n[r].len = m[r].len
    PROVE  EntriesOf(n, l) = EntriesOf(m, l)
<1>1. DOMAIN l = 1 .. Len(l) /\ \A i \in 1 .. Len(l) : l[i] \in Range(l)
  BY ListFacts
<1>2. \A i \in DOMAIN l : EntryOf(n, l[i]) = EntryOf(m, l[i])
  BY <1>1 DEF EntryOf
<1> QED
  BY <1>2 DEF EntriesOf

\* Two lists of entries are the same if they are at every place.
LEMMA SameEntries ==
    ASSUME NEW S, NEW s \in Seq(S), NEW t \in Seq(S), Len(s) = Len(t),
           \A i \in 1 .. Len(s) : s[i] = t[i]
    PROVE  s = t
  BY LenProperties

LEMMA EntriesAppend ==
    ASSUME bio \in Workloads, NEW m, NEW l, NEW b \in Bios, Listed(m, l), FsRq(m[b])
    PROVE  EntriesOf(m, Append(l, b)) = Append(EntriesOf(m, l), EntryOf(m, b))
<1> DEFINE q == EntriesOf(m, l)
           e == EntryOf(m, b)
           k == Append(l, b)
<1>1. /\ l \in Seq(Bios) /\ k \in Seq(Bios) /\ Range(k) = Range(l) \cup {b} /\ e \in Entries
  BY AppendOrder, EntryTyped DEF Listed
<1>2. Listed(m, k)
  BY <1>1 DEF Listed
<1>3. /\ q \in Seq(Entries) /\ Len(q) = Len(l) /\ Len(l) \in Nat
      /\ \A i \in 1 .. Len(l) : q[i] = EntryOf(m, l[i])
  BY EntriesTyped
<1>4. /\ EntriesOf(m, k) \in Seq(Entries) /\ Len(EntriesOf(m, k)) = Len(k)
      /\ \A i \in 1 .. Len(k) : EntriesOf(m, k)[i] = EntryOf(m, k[i])
  BY <1>2, EntriesTyped
<1>5. /\ Len(k) = Len(l) + 1 /\ \A i \in 1 .. Len(l) : k[i] = l[i]
      /\ k[Len(l) + 1] = b
  BY <1>1, AppendProperties
<1>6. /\ Append(q, e) \in Seq(Entries) /\ Len(Append(q, e)) = Len(l) + 1
      /\ \A i \in 1 .. Len(l) : Append(q, e)[i] = q[i]
      /\ Append(q, e)[Len(l) + 1] = e
  BY <1>1, <1>3, AppendProperties
<1> HIDE DEF q, e, k
<1>7. \A i \in 1 .. Len(l) + 1 : EntriesOf(m, k)[i] = Append(q, e)[i]
  <2>1. ASSUME NEW i \in 1 .. Len(l) + 1 PROVE EntriesOf(m, k)[i] = Append(q, e)[i]
    <3>1. CASE i = Len(l) + 1
      BY <1>3, <1>4, <1>5, <1>6, <3>1 DEF e
    <3>2. CASE i # Len(l) + 1
      <4>1. i \in 1 .. Len(l)
        BY <1>3, <3>2
      <4> QED
        BY <1>3, <1>4, <1>5, <1>6, <4>1
    <3> QED
      BY <3>1, <3>2
  <2> QED
    BY <2>1
<1>8. EntriesOf(m, k) = Append(q, e)
  BY <1>4, <1>5, <1>6, <1>7, SameEntries
<1> QED
  BY <1>8 DEF q, e, k

LEMMA EntriesRemove ==
    ASSUME bio \in Workloads, NEW m, NEW l, Listed(m, l), NEW i \in 1 .. Len(l)
    PROVE  EntriesOf(m, RemoveAt(l, i)) = RemoveAt(EntriesOf(m, l), i)
<1> DEFINE q == EntriesOf(m, l)
           k == RemoveAt(l, i)
           n == EntriesOf(m, k)
<1>1. /\ q \in Seq(Entries) /\ Len(q) = Len(l) /\ Len(l) \in Nat /\ l \in Seq(Bios)
      /\ \A j \in 1 .. Len(l) : q[j] = EntryOf(m, l[j]) /\ l[j] \in Range(l)
  BY EntriesTyped DEF Listed
<1>2. /\ k \in Seq(Bios) /\ Len(k) = Len(l) - 1
      /\ \A j \in 1 .. Len(l) - 1 : k[j] = IF j < i THEN l[j] ELSE l[j + 1]
  BY <1>1, RemoveAtProperties
<1>3. /\ RemoveAt(q, i) \in Seq(Entries) /\ Len(RemoveAt(q, i)) = Len(l) - 1
      /\ \A j \in 1 .. Len(l) - 1 : RemoveAt(q, i)[j] = IF j < i THEN q[j] ELSE q[j + 1]
  <2>1. i \in 1 .. Len(q)
    BY <1>1
  <2> QED
    BY <1>1, <2>1, RemoveAtProperties
<1> HIDE DEF q, k
<1>4. Range(k) \subseteq Range(l)
  <2>1. \A x \in Range(k) : \E j \in 1 .. Len(k) : k[j] = x
    BY <1>2, ListFacts
  <2>2. \A j \in 1 .. Len(l) - 1 : k[j] \in Range(l)
    BY <1>1, <1>2
  <2> QED
    BY <1>2, <2>1, <2>2
<1>5. Listed(m, k)
  BY <1>2, <1>4 DEF Listed
<1>6. /\ n \in Seq(Entries) /\ Len(n) = Len(k)
      /\ \A j \in 1 .. Len(k) : n[j] = EntryOf(m, k[j])
  BY <1>5, EntriesTyped
<1> HIDE DEF n
<1>7. \A j \in 1 .. Len(l) - 1 : n[j] = RemoveAt(q, i)[j]
  BY <1>1, <1>2, <1>3, <1>6
<1>8. n = RemoveAt(q, i)
  BY <1>2, <1>3, <1>6, <1>7, SameEntries
<1> QED
  BY <1>8 DEF q, k, n

\* The request at place i changes.
LEMMA EntriesSet ==
    ASSUME bio \in Workloads, NEW m, NEW n, NEW l, Listed(m, l), Listed(n, l), Once(l),
           NEW i \in 1 .. Len(l), \A r \in Range(l) : r # l[i] => n[r] = m[r]
    PROVE  EntriesOf(n, l) = [EntriesOf(m, l) EXCEPT ![i] = EntryOf(n, l[i])]
<1> DEFINE q == EntriesOf(m, l)
           t == EntriesOf(n, l)
<1>1. /\ DOMAIN q = 1 .. Len(l) /\ DOMAIN l = 1 .. Len(l) /\ l \in Seq(Bios)
      /\ \A j \in 1 .. Len(l) : q[j] = EntryOf(m, l[j]) /\ l[j] \in Range(l)
  BY EntriesTyped DEF Listed
<1>2. /\ DOMAIN t = 1 .. Len(l)
      /\ \A j \in 1 .. Len(l) : t[j] = EntryOf(n, l[j])
  BY EntriesTyped
<1>3. q = [j \in DOMAIN l |-> EntryOf(m, l[j])] /\ t = [j \in DOMAIN l |-> EntryOf(n, l[j])]
  BY DEF EntriesOf
<1>4. \A j \in 1 .. Len(l) : j # i => l[j] # l[i]
  BY <1>1, OnceInjective DEF IsInjective
<1>5. \A j \in 1 .. Len(l) : j # i => EntryOf(n, l[j]) = EntryOf(m, l[j])
  BY <1>1, <1>4 DEF EntryOf
<1> QED
  BY <1>1, <1>3, <1>5

\* LOOK's list as Look sees it, before and after a step.
LEMMA LookShape ==
    ASSUME QInv
    PROVE  Listed(rqs, look) /\ LookQueue = EntriesOf(rqs, look) /\ Once(look)
<1>1. Listed(rqs, look) /\ Once(look)
  BY QFacts DEF Listed, QInv, Places
<1> QED
  BY <1>1 DEF LookQueue, EntriesOf, EntryOf

LEMMA LookShapeNext ==
    ASSUME bio' = bio
    PROVE  LookQueue' = EntriesOf(rqs', look')
  BY DEF LookQueue, EntriesOf, EntryOf

LEMMA LookOutIs ==
    /\ LookOut = Bios \cap (Range(queue_head) \cup inflight)
    /\ LookOut' = Bios \cap (Range(queue_head') \cup inflight')
  BY ToSetRange DEF LookOut

LEMMA LookPrivIs ==
    /\ LookPriv = Bios \cap (Range(look) \cup Range(queue_head) \cup inflight)
    /\ LookPriv' = Bios \cap (Range(look') \cup Range(queue_head') \cup inflight')
  BY ToSetRange DEF LookPriv

\* Look's own copies of the operators it shares with the queue.
LEMMA SameOperators ==
    /\ \A q, cur, d : L!NextDir(q, cur, d) = NextDir(q, cur, d)
    /\ \A q, cur, d, i : L!IsNext(q, cur, d, i) <=> IsNext(q, cur, d, i)
    /\ \A q, i : L!RemoveAt(q, i) = RemoveAt(q, i)
<1>1. Up = 1 /\ Down = 0 /\ L!Up = 1 /\ L!Down = 0
  BY DEF Up, Down, L!Up, L!Down
<1>2. \A q, cur : L!AtOrAbove(q, cur) = AtOrAbove(q, cur) /\ L!AtOrBelow(q, cur) = AtOrBelow(q, cur)
  BY DEF AtOrAbove, AtOrBelow, L!AtOrAbove, L!AtOrBelow
<1>3. \A q, cur, d : L!NextDir(q, cur, d) = NextDir(q, cur, d)
  BY <1>1, <1>2 DEF NextDir, L!NextDir, SwitchDir, L!SwitchDir
<1>5. ASSUME NEW q, NEW cur, NEW d, NEW i PROVE L!IsNext(q, cur, d, i) <=> IsNext(q, cur, d, i)
  <2>1. L!Up = Up /\ L!NextDir(q, cur, d) = NextDir(q, cur, d)
    BY <1>1, <1>3
  <2>2. (L!IsHigher(q, cur, i) <=> IsHigher(q, cur, i)) /\ (L!IsLower(q, cur, i) <=> IsLower(q, cur, i))
    BY <1>2 DEF IsHigher, IsLower, L!IsHigher, L!IsLower
  <2>3. CASE NextDir(q, cur, d) = Up
    BY <2>1, <2>2, <2>3 DEF IsNext, L!IsNext
  <2>4. CASE NextDir(q, cur, d) # Up
    BY <2>1, <2>2, <2>4 DEF IsNext, L!IsNext
  <2> QED
    BY <2>3, <2>4
<1>6. \A q, i : L!RemoveAt(q, i) = RemoveAt(q, i)
  BY DEF RemoveAt, L!RemoveAt
<1> QED
  BY <1>3, <1>5, <1>6

\* A step that leaves the list and its requests alone, and that moves no
\* request of the file system to the driver or back.
LEMMA LookStutter ==
    ASSUME QInv, UNCHANGED <<bio, look, cur_pos, dir>>,
           \A r \in Range(look) : /\ rqs'[r].bios = rqs[r].bios /\ rqs'[r].pos = rqs[r].pos
                                  /\ rqs'[r].len = rqs[r].len,
           \A b \in Bios : b \in Range(queue_head') \cup inflight' <=>
                              b \in Range(queue_head) \cup inflight
    PROVE  UNCHANGED L!vars
<1>1. LookQueue' = LookQueue
  BY LookShape, LookShapeNext, EntriesSame, QFacts
<1>2. LookOut' = LookOut
  BY LookOutIs
<1>3. LookPriv' = LookPriv
  BY LookPrivIs
<1> QED
  BY <1>1, <1>2, <1>3 DEF L!vars

LEMMA LookAdd ==
    ASSUME QInv, InLine, NEW b \in Bios, add_request(b)
    PROVE  L!Next
<1>1. /\ st[b] = "getrq" /\ look' = Append(look, b)
      /\ UNCHANGED <<bio, rqs, cur_pos, dir, queue_head, inflight>>
  BY DEF add_request
<1>2. /\ bio \in Workloads /\ rqs \in [Reqs -> Rq] /\ b \in Reqs /\ look \in Seq(Bios)
  BY QFacts
<1>3. rqs[b] # NoRq /\ b \notin Range(look) /\ b \notin Range(queue_head) /\ b \notin inflight
  BY <1>1, <1>2 DEF QInv, Places
<1>4. rqs[b] \in Rq /\ FsRq(rqs[b]) /\ Range(rqs[b].bios) = {b} /\ rqs[b].bios \in Seq(Bios)
  BY <1>1, <1>2, <1>3, RqFields DEF QInv, RqsOK, InLine, BiosOf
<1>5. Head(rqs[b].bios) = b /\ Last(rqs[b].bios) = b
  <2>1. /\ Len(rqs[b].bios) \in Nat /\ rqs[b].bios # << >>
        /\ \A i \in 1 .. Len(rqs[b].bios) : rqs[b].bios[i] \in {b}
    BY <1>4, ListFacts DEF FsRq
  <2>2. Len(rqs[b].bios) # 0
    BY <1>4, <2>1, EmptySeq
  <2> QED
    BY <2>1, <2>2, <1>4 DEF Last
<1>6. /\ bio[b].sector \in Nat /\ bio[b].size \in Nat /\ bio[b].size > 0
      /\ bio[b].sector + bio[b].size <= Capacity /\ Capacity \in Nat
  BY <1>2, BioFacts
<1>7. rqs[b].pos = bio[b].sector /\ rqs[b].len = bio[b].size
  BY <1>2, <1>4, <1>5, <1>6, RqFields DEF FsRq
<1>8. EntryOf(rqs, b) = [rq |-> b, pos |-> bio[b].sector, first |-> bio[b].size, len |-> bio[b].size]
  BY <1>5, <1>7 DEF EntryOf
<1>9. LookQueue' = Append(LookQueue, EntryOf(rqs, b))
  BY <1>1, <1>2, <1>4, LookShape, LookShapeNext, EntriesAppend
<1>10. b \notin LookPriv /\ LookPriv' = LookPriv \cup {b}
  <2>1. Range(look') = Range(look) \cup {b}
    BY <1>1, <1>2, AppendOrder
  <2> QED
    BY <1>1, <1>3, <2>1, LookPrivIs
<1>11. LookOut' = LookOut
  BY <1>1, LookOutIs
<1>12. bio[b].sector \in 0 .. Capacity - 1 /\ bio[b].size \in 1 .. Capacity
  BY <1>6
<1>13. L!look_add_request(b, bio[b].sector, bio[b].size)
  BY <1>1, <1>6, <1>8, <1>9, <1>10, <1>11 DEF L!look_add_request
<1> QED
  BY <1>12, <1>13 DEF L!Next

\* list_del_init() of entry k.
LEMMA UnlinkedPlace ==
    ASSUME QInv, NEW k \in 1 .. Len(look)
    PROVE  /\ Unlinked(look, look[k]) = RemoveAt(look, k)
           /\ RemoveAt(look, k) \in Seq(Bios)
           /\ Range(RemoveAt(look, k)) = Range(look) \ {look[k]}
<1>1. look \in Seq(Bios) /\ Once(look)
  BY DEF QInv, Types, Places
<1>2. DOMAIN look = 1 .. Len(look) /\ IsInjective(look)
  BY <1>1, ListFacts, OnceInjective
<1> DEFINE c == CHOOSE j \in DOMAIN look : look[j] = look[k]
<1>3. c \in DOMAIN look /\ look[c] = look[k]
  BY <1>2
<1> HIDE DEF c
<1>4. c = k
  BY <1>2, <1>3 DEF IsInjective
<1>5. Unlinked(look, look[k]) = RemoveAt(look, k)
  BY <1>4 DEF Unlinked, c
<1> QED
  BY <1>1, <1>5, RemoveOrder

LEMMA LookDispatched ==
    ASSUME QInv, look_dispatch, UNCHANGED <<bio, rqs, inflight>>
    PROVE  L!Next
<1>1. PICK i \in DOMAIN look :
         /\ IsNext(LookQueue, cur_pos, dir, i)
         /\ dir' = NextDir(LookQueue, cur_pos, dir)
         /\ cur_pos' = bio[Head(rqs[look[i]].bios)].sector + bio[Head(rqs[look[i]].bios)].size
         /\ look' = RemoveAt(look, i)
         /\ elv_dispatch_sort(look[i])
  BY DEF look_dispatch
<1> DEFINE r == look[i]
<1>2. /\ bio \in Workloads /\ rqs \in [Reqs -> Rq] /\ look \in Seq(Bios) /\ queue_head \in Seq(Reqs)
      /\ Range(look) \subseteq Bios /\ Bios \subseteq Reqs
      /\ \A x \in Range(look) : FsRq(rqs[x])
  BY QFacts
<1>3. /\ DOMAIN look = 1 .. Len(look) /\ r \in Range(look) /\ i \in 1 .. Len(look)
      /\ Len(queue_head) \in Nat /\ DOMAIN queue_head = 1 .. Len(queue_head)
  BY <1>2, ListFacts
<1>4. LookQueue' = RemoveAt(LookQueue, i)
  BY <1>1, <1>2, <1>3, LookShape, LookShapeNext, EntriesRemove
<1>5. LookQueue[i] = EntryOf(rqs, r)
  BY <1>2, <1>3, LookShape, EntriesTyped
<1>6. cur_pos' = LookQueue[i].pos + LookQueue[i].first /\ LookQueue[i].rq = r
  BY <1>1, <1>2, <1>3, <1>5, EntryTyped
<1>7. LookOut' = LookOut \cup {r} /\ LookPriv' = LookPriv
  <2> DEFINE S == {k \in DOMAIN queue_head : StopsAt(r, k)} \cup {0}
             k == Max(S) + 1
  <2>1. queue_head' = InsertAt(queue_head, k, r)
    BY <1>1 DEF elv_dispatch_sort
  <2>2. S \in SUBSET (0 .. Len(queue_head)) /\ S # {}
    BY <1>3
  <2>6. k = Max(S) + 1
    OBVIOUS
  <2> HIDE DEF S, k
  <2>3. Max(S) \in S
    BY <1>3, <2>2, MaxUpto
  <2>7. Max(S) \in 0 .. Len(queue_head)
    BY <2>2, <2>3
  <2>4. k \in 1 .. Len(queue_head) + 1
    BY <1>3, <2>6, <2>7
  <2>5. Range(queue_head') = Range(queue_head) \cup {r}
    BY <1>2, <1>3, <2>1, <2>4, InsertOrder
  <2>8. Range(look') = Range(look) \ {r}
    BY <1>1, <1>3, UnlinkedPlace
  <2>9. LookOut' = LookOut \cup {r}
    BY <1>2, <1>3, <2>5, LookOutIs
  <2>10. LookPriv' = LookPriv
    BY <1>3, <2>5, <2>8, LookPrivIs
  <2> QED
    BY <2>9, <2>10
<1>8. i \in DOMAIN LookQueue
  BY DEF LookQueue
<1>9. L!look_dispatch(i)
  <2>1. L!IsNext(LookQueue, cur_pos, dir, i)
    BY <1>1, SameOperators
  <2>2. dir' = L!NextDir(LookQueue, cur_pos, dir)
    BY <1>1, SameOperators
  <2>3. LookQueue' = L!RemoveAt(LookQueue, i)
    BY <1>4, SameOperators
  <2> QED
    BY <1>6, <1>7, <2>1, <2>2, <2>3 DEF L!look_dispatch
<1> QED
  BY <1>8, <1>9 DEF L!Next, L!Dispatch

LEMMA LookEnded ==
    ASSUME QInv, NEW r \in inflight, blk_done(r)
    PROVE  L!Next \/ UNCHANGED L!vars
<1>1. /\ inflight' = inflight \ {r} /\ rqs' = [rqs EXCEPT ![r] = NoRq]
      /\ UNCHANGED <<bio, look, cur_pos, dir, queue_head>>
  BY DEF blk_done, EndRequest, sched
<1>2. r \notin Range(look) /\ r \notin Range(queue_head)
  BY DEF QInv, Places
<1>3. rqs \in [Reqs -> Rq] /\ Range(look) \subseteq Bios /\ Bios \subseteq Reqs /\ look \in Seq(Bios)
  BY QFacts
<1>4. \A x \in Range(look) : rqs'[x] = rqs[x]
  BY <1>1, <1>2, <1>3
<1>5. CASE r \in Bios
  <2>1. LookQueue' = LookQueue
    BY <1>1, <1>3, <1>4, LookShape, LookShapeNext, EntriesSame
  <2>2. r \in LookOut /\ LookOut' = LookOut \ {r}
    BY <1>1, <1>2, <1>5, LookOutIs
  <2>4. LookPriv' = LookPriv \ {r}
    BY <1>1, <1>2, <1>5, LookPrivIs
  <2>3. L!put_request(r)
    BY <1>1, <2>1, <2>2, <2>4 DEF L!put_request
  <2> QED
    BY <2>2, <2>3 DEF L!Next
<1>6. CASE r \notin Bios
  <2>1. \A b \in Bios : b \in Range(queue_head') \cup inflight' <=> b \in Range(queue_head) \cup inflight
    BY <1>1, <1>6
  <2>2. UNCHANGED L!vars
    BY <1>1, <1>4, <2>1, LookStutter
  <2> QED
    BY <2>2
<1> QED
  BY <1>5, <1>6

\* The neighbour of entry i is the entry before or after it.
LEMMA NeighbourPlace ==
    ASSUME QInv, NEW i \in 1 .. Len(look), NEW d \in {1, -1}, NeighbourAt(look[i], d) # NULL
    PROVE  i + d \in 1 .. Len(look) /\ NeighbourAt(look[i], d) = look[i + d]
<1> DEFINE r == look[i]
           at == {j \in DOMAIN look : j - d \in DOMAIN look /\ look[j - d] = r}
           near == {look[k] : k \in at}
<1>1. look \in Seq(Bios) /\ Once(look)
  BY DEF QInv, Types, Places
<1>2. Len(look) \in Nat /\ DOMAIN look = 1 .. Len(look) /\ IsInjective(look)
  BY <1>1, ListFacts, OnceInjective
<1>3. near # {} /\ NeighbourAt(r, d) = CHOOSE x \in near : TRUE
  BY DEF NeighbourAt
<1>4. NeighbourAt(r, d) \in near
  BY <1>3
<1>5. PICK k \in at : NeighbourAt(r, d) = look[k]
  BY <1>4
<1>6. k \in 1 .. Len(look) /\ k - d \in 1 .. Len(look) /\ look[k - d] = look[i]
  BY <1>2
<1>7. k - d = i
  BY <1>2, <1>6 DEF IsInjective
<1>8. k = i + d
  BY <1>6, <1>7
<1> QED
  BY <1>5, <1>6, <1>8

\* Entry i + 1 is joined to entry i, m being the requests.
LEMMA JoinedQueue ==
    ASSUME QInv, QInv', bio' = bio, NEW m, Listed(m, look),
           NEW i \in 1 .. Len(look), i + 1 \in 1 .. Len(look),
           MayJoin(m, look[i], look[i + 1]), NEW chain,
           JoinRequests(m, chain, look[i], look[i + 1])
    PROVE  /\ LookQueue' = L!attempt_merge(EntriesOf(m, look), i, i + 1, TRUE)
           /\ L!MergePuts(EntriesOf(m, look), i, i + 1, TRUE) = {look[i + 1]}
           /\ Range(look') = Range(look) \ {look[i + 1]}
<1> DEFINE r == look[i]
           x == look[i + 1]
           q == EntriesOf(m, look)
           joined == [m[r] EXCEPT !.bios = @ \o m[x].bios, !.len = @ + m[x].len]
           n == [m EXCEPT ![r] = joined]
<1>1. /\ bio \in Workloads /\ look \in Seq(Bios) /\ Once(look) /\ m \in [Reqs -> Rq]
      /\ \A y \in Range(look) : y \in Bios /\ y \in Reqs /\ FsRq(m[y]) /\ m[y] \in Rq
  BY QFacts DEF Listed, QInv, Places
<1>2. /\ Len(look) \in Nat /\ r \in Range(look) /\ x \in Range(look) /\ IsInjective(look)
      /\ DOMAIN look = 1 .. Len(look)
  BY <1>1, ListFacts, OnceInjective
<1>3. r # x
  BY <1>2 DEF IsInjective
<1>4. rqs' = [m EXCEPT ![r] = joined, ![x] = NoRq] /\ look' = RemoveAt(look, i + 1)
  BY UnlinkedPlace DEF JoinRequests
<1>5. Range(look') = Range(look) \ {x} /\ look' \in Seq(Bios)
  BY <1>4, UnlinkedPlace
<1>6. rqs'[r] = joined /\ n[r] = joined /\ \A y \in Reqs : y # r => n[y] = m[y]
  BY <1>1, <1>2, <1>3, <1>4
<1>7. \A y \in Reqs : y # x => rqs'[y] = n[y]
  BY <1>1, <1>2, <1>4, <1>6
<1>8. rqs'[r] \in Rq /\ FsRq(rqs'[r])
  <2>1. rqs' \in [Reqs -> Rq]
    BY DEF QInv, RqsOK
  <2>2. rqs'[r] # NoRq
    BY <1>1, <1>2, <1>3, <1>5 DEF QInv, Places
  <2>3. ASSUME NEW c \in Bios, rqs'[c] # NoRq PROVE FsRq(rqs'[c])
    <3>1. FsRq(rqs[c])'
      BY <2>3 DEF QInv, RqsOK
    <3> QED
      BY <3>1 DEF FsRq, Contiguous
  <2>4. FsRq(rqs'[r])
    BY <1>1, <1>2, <2>2, <2>3
  <2> QED
    BY <1>1, <1>2, <2>1, <2>4
<1>9. Listed(n, look)
  <2>1. n \in [Reqs -> Rq]
    BY <1>1, <1>6, <1>8
  <2> QED
    BY <1>1, <1>6, <1>8, <2>1 DEF Listed
<1>10. /\ joined.bios = m[r].bios \o m[x].bios /\ joined.pos = m[r].pos
       /\ joined.len = m[r].len + m[x].len
  BY <1>1, <1>2 DEF Rq
<1>11. Head(joined.bios) = Head(m[r].bios)
  <2>1. /\ m[r].bios \in Seq(Bios) /\ m[x].bios \in Seq(Bios) /\ m[r].bios # << >>
        /\ m[x].bios # << >> /\ Contiguous(m[r].bios) /\ Contiguous(m[x].bios)
        /\ bio[Last(m[r].bios)].sector + bio[Last(m[r].bios)].size = bio[Head(m[x].bios)].sector
    BY <1>1, <1>2, RqFields DEF FsRq, MayJoin
  <2> QED
    BY <1>10, <2>1, FusedList
<1> HIDE DEF joined, n
<1>12. /\ EntryOf(m, r) \in Entries
       /\ EntryOf(m, r) = [rq |-> r, pos |-> m[r].pos, first |-> bio[Head(m[r].bios)].size, len |-> m[r].len]
       /\ EntryOf(n, r) = [rq |-> r, pos |-> m[r].pos, first |-> bio[Head(m[r].bios)].size,
                           len |-> m[r].len + m[x].len]
       /\ EntryOf(m, x).len = m[x].len /\ EntryOf(m, x).pos = m[x].pos
  BY <1>1, <1>2, <1>6, <1>10, <1>11, EntryTyped DEF EntryOf
<1>13. /\ q \in Seq(Entries) /\ Len(q) = Len(look) /\ DOMAIN q = 1 .. Len(look)
       /\ q[i] = EntryOf(m, r) /\ q[i + 1] = EntryOf(m, x)
  BY <1>1, <1>2, EntriesTyped
<1>14. EntriesOf(n, look) = [q EXCEPT ![i] = EntryOf(n, r)]
  BY <1>1, <1>2, <1>6, <1>9, EntriesSet
<1>15. EntryOf(n, r) = L!Join(q[i], q[i + 1])
  <2>1. q[i + 1].len = m[x].len
    BY <1>12, <1>13
  <2>2. q[i] = [rq |-> r, pos |-> m[r].pos, first |-> bio[Head(m[r].bios)].size, len |-> m[r].len]
    BY <1>12, <1>13
  <2>3. L!Join(q[i], q[i + 1]) = [rq |-> r, pos |-> m[r].pos, first |-> bio[Head(m[r].bios)].size,
                                  len |-> m[r].len + m[x].len]
    BY <2>1, <2>2 DEF L!Join
  <2> QED
    BY <1>12, <2>3
<1>16. LookQueue' = RemoveAt(EntriesOf(n, look), i + 1)
  <2>1. LookQueue' = EntriesOf(rqs', look')
    BY LookShapeNext
  <2>2. EntriesOf(rqs', look') = EntriesOf(n, look')
    BY <1>1, <1>5, <1>7, EntriesSame
  <2>3. EntriesOf(n, look') = RemoveAt(EntriesOf(n, look), i + 1)
    BY <1>1, <1>4, <1>9, EntriesRemove
  <2> QED
    BY <2>1, <2>2, <2>3
<1>17. /\ L!End(q[i]) = q[i + 1].pos /\ q[i].len + q[i + 1].len <= MaxSectors
       /\ i # L!NULLRQ /\ i + 1 # L!NULLRQ
  <2>1. m[r].pos + m[r].len = m[x].pos /\ m[r].len + m[x].len <= MaxSectors
    BY DEF MayJoin, RqEnd
  <2>2. q[i].pos = m[r].pos /\ q[i].len = m[r].len /\ q[i + 1].pos = m[x].pos /\ q[i + 1].len = m[x].len
    BY <1>12, <1>13
  <2>3. L!NULLRQ = 0
    BY DEF L!NULLRQ
  <2> HIDE DEF q, r, x
  <2> QED
    BY <2>1, <2>2, <2>3 DEF L!End
<1>21. q[i + 1].rq = x
  BY <1>13 DEF EntryOf
<1> HIDE DEF q, r, x
<1>22. L!Joins(q, i, i + 1, TRUE)
  BY <1>17 DEF L!Joins
<1>23. L!MergePuts(q, i, i + 1, TRUE) = {x}
  BY <1>21, <1>22 DEF L!MergePuts
<1>18. L!attempt_merge(q, i, i + 1, TRUE) =
          L!look_merged_requests([q EXCEPT ![i] = L!Join(@, q[i + 1])], i + 1)
  BY <1>22 DEF L!attempt_merge
<1>19. [q EXCEPT ![i] = L!Join(@, q[i + 1])] = EntriesOf(n, look)
  BY <1>14, <1>15
<1>20. L!look_merged_requests(EntriesOf(n, look), i + 1) = RemoveAt(EntriesOf(n, look), i + 1)
  BY SameOperators DEF L!look_merged_requests
<1> QED
  BY <1>5, <1>16, <1>18, <1>19, <1>20, <1>23 DEF q, x

\* Request e takes the place of request look[i], its bio b included.
LEMMA GrownQueue ==
    ASSUME QInv, NEW i \in 1 .. Len(look), NEW e \in Rq, FsRq(e)
    PROVE  /\ Listed([rqs EXCEPT ![look[i]] = e], look)
           /\ EntryOf([rqs EXCEPT ![look[i]] = e], look[i]) =
                 [rq |-> look[i], pos |-> e.pos, first |-> bio[Head(e.bios)].size, len |-> e.len]
           /\ EntriesOf([rqs EXCEPT ![look[i]] = e], look) =
                 [LookQueue EXCEPT ![i] = EntryOf([rqs EXCEPT ![look[i]] = e], look[i])]
<1> DEFINE n == [rqs EXCEPT ![look[i]] = e]
<1>1. /\ bio \in Workloads /\ rqs \in [Reqs -> Rq] /\ look \in Seq(Bios) /\ Once(look)
      /\ \A y \in Range(look) : y \in Reqs /\ FsRq(rqs[y])
  BY QFacts DEF QInv, Places
<1>2. look[i] \in Range(look)
  BY <1>1, ListFacts
<1>3. n \in [Reqs -> Rq] /\ n[look[i]] = e /\ \A y \in Reqs : y # look[i] => n[y] = rqs[y]
  BY <1>1, <1>2
<1> HIDE DEF n
<1>4. Listed(n, look)
  BY <1>1, <1>3 DEF Listed
<1>5. EntryOf(n, look[i]) =
         [rq |-> look[i], pos |-> e.pos, first |-> bio[Head(e.bios)].size, len |-> e.len]
  BY <1>3 DEF EntryOf
<1>6. EntriesOf(n, look) = [LookQueue EXCEPT ![i] = EntryOf(n, look[i])]
  <2>1. /\ Listed(rqs, look) /\ LookQueue = EntriesOf(rqs, look)
        /\ \A y \in Range(look) : y # look[i] => n[y] = rqs[y]
    BY <1>1, <1>3, LookShape
  <2>2. EntriesOf(n, look) = [EntriesOf(rqs, look) EXCEPT ![i] = EntryOf(n, look[i])]
    BY <1>1, <1>4, <2>1, EntriesSet
  <2> QED
    BY <2>1, <2>2
<1> QED
  BY <1>4, <1>5, <1>6 DEF n

\* What Look is told of entry i.
LEMMA LookEntry ==
    ASSUME QInv, NEW i \in 1 .. Len(look)
    PROVE  /\ look[i] \in Range(look) /\ look[i] \in Bios /\ look[i] \in Reqs
           /\ FsRq(rqs[look[i]]) /\ rqs[look[i]] \in Rq
           /\ LookQueue[i] = [rq |-> look[i], pos |-> rqs[look[i]].pos,
                              first |-> bio[Head(rqs[look[i]].bios)].size, len |-> rqs[look[i]].len]
           /\ rqs[look[i]].pos \in Nat /\ rqs[look[i]].len \in Nat
           /\ i \in DOMAIN LookQueue /\ Len(LookQueue) = Len(look) /\ Len(look) \in Nat
<1>1. /\ bio \in Workloads /\ rqs \in [Reqs -> Rq] /\ look \in Seq(Bios) /\ Range(look) \subseteq Bios
      /\ \A y \in Bios : y \in Reqs
      /\ \A y \in Range(look) : FsRq(rqs[y])
  BY QFacts
<1>2. look[i] \in Range(look) /\ DOMAIN look = 1 .. Len(look)
  BY <1>1, ListFacts
<1>3. rqs[look[i]].pos \in Nat /\ rqs[look[i]].len \in Nat
  BY <1>1, <1>2, RqFields
<1>4. /\ LookQueue[i] = EntryOf(rqs, look[i]) /\ DOMAIN LookQueue = 1 .. Len(look)
      /\ Len(LookQueue) = Len(look) /\ Len(look) \in Nat
  BY <1>1, <1>2, LookShape, EntriesTyped
<1> QED
  BY <1>1, <1>2, <1>3, <1>4 DEF EntryOf

\* A listed request is not with the driver, nor on its way there.
LEMMA NotIssued ==
    ASSUME QInv, NEW r \in Range(look)
    PROVE  r \notin Range(queue_head) /\ r \notin inflight
  BY DEF QInv, Places

LEMMA LookBack ==
    ASSUME QInv, QInv', NEW b \in Bios, BackMerge(b)
    PROVE  L!Next
<1> DEFINE m == elv_merge(b)
           r == m.rq
           grown == [rqs EXCEPT ![r].bios = Append(@, b), ![r].len = @ + bio[b].size]
           next == look_latter_request(r)
           sz == bio[b].size
<1>1. /\ st[b] = "new" /\ m.type = "back" /\ rqs[r].len + sz <= MaxSectors
      /\ IF MayJoin(grown, r, next) THEN JoinRequests(grown, m.chain, r, next)
                                    ELSE MergedRequest(grown, m.chain, r, "back")
      /\ UNCHANGED <<bio, cur_pos, dir, queue_head, inflight>>
  BY DEF BackMerge, Fits
<1>2. /\ r \in Range(look) /\ rqs[r].rw = bio[b].rw /\ RqEnd(rqs[r]) = bio[b].sector
  BY <1>1, MergeFound
<1> HIDE DEF m
<1>3. PICK e \in Rq : /\ FsRq(e) /\ Once(e.bios) /\ Range(e.bios) = Range(rqs[r].bios) \cup {b}
                      /\ e.flags = rqs[r].flags /\ e.bios = rqs[r].bios \o <<b>>
                      /\ e.pos = rqs[r].pos /\ e.len = rqs[r].len + bio[b].size
                      /\ grown = [rqs EXCEPT ![r] = e]
  BY <1>1, <1>2, GrownBack
<1> HIDE DEF grown, r, next
<1>4. PICK i \in 1 .. Len(look) : look[i] = r
  BY <1>2, QFacts, ListFacts
<1>5. /\ FsRq(rqs[r]) /\ rqs[r] \in Rq
      /\ LookQueue[i] = [rq |-> r, pos |-> rqs[r].pos, first |-> bio[Head(rqs[r].bios)].size,
                         len |-> rqs[r].len]
      /\ rqs[r].pos \in Nat /\ rqs[r].len \in Nat
      /\ i \in DOMAIN LookQueue /\ Len(LookQueue) = Len(look) /\ Len(look) \in Nat
  BY <1>4, LookEntry
<1>6. /\ bio \in Workloads /\ sz \in Nat /\ sz > 0 /\ sz <= Capacity /\ Capacity \in Nat
      /\ bio[b].sector \in Nat /\ bio[b].sector + sz <= Capacity
  BY QFacts, BioFacts
<1>7. Head(e.bios) = Head(rqs[r].bios)
  <2>1. rqs[r].bios \in Seq(Bios) /\ rqs[r].bios # << >>
    BY <1>5, <1>6, RqFields DEF FsRq
  <2> QED
    BY <1>3, <2>1
<1>8. /\ Listed(grown, look)
      /\ EntriesOf(grown, look) = [LookQueue EXCEPT ![i] = L!GrowBack(@, sz)]
  <2>1. /\ Listed(grown, look)
        /\ EntryOf(grown, r) = [rq |-> r, pos |-> e.pos, first |-> bio[Head(e.bios)].size, len |-> e.len]
        /\ EntriesOf(grown, look) = [LookQueue EXCEPT ![i] = EntryOf(grown, r)]
    BY <1>3, <1>4, GrownQueue
  <2>2. EntryOf(grown, r) = L!GrowBack(LookQueue[i], sz)
    BY <1>3, <1>5, <1>7, <2>1 DEF L!GrowBack
  <2> QED
    BY <2>1, <2>2
<1>9. L!End(LookQueue[i]) + sz <= Capacity /\ LookQueue[i].len + sz <= MaxSectors
  <2>1. rqs[r].pos + rqs[r].len = bio[b].sector
    BY <1>2 DEF RqEnd
  <2> QED
    BY <1>1, <1>5, <1>6, <2>1 DEF L!End
<1>10. LookOut' = LookOut /\ sz \in 1 .. Capacity
  BY <1>1, <1>6, LookOutIs
<1> DEFINE q == [LookQueue EXCEPT ![i] = L!GrowBack(@, sz)]
<1>11. CASE MayJoin(grown, r, next)
  <2>1. next # NULL /\ JoinRequests(grown, m.chain, r, next)
    BY <1>1, <1>11 DEF MayJoin
  <2>2. i + 1 \in 1 .. Len(look) /\ next = look[i + 1]
    BY <1>4, <2>1, NeighbourPlace DEF next, look_latter_request
  <2>3. /\ LookQueue' = L!attempt_merge(q, i, i + 1, TRUE)
        /\ L!MergePuts(q, i, i + 1, TRUE) = {next}
        /\ Range(look') = Range(look) \ {next}
    BY <1>1, <1>4, <1>8, <1>11, <2>1, <2>2, JoinedQueue
  <2>4. L!look_latter_request(q, i) = i + 1
    <3>1. Len(q) = Len(look) /\ i # Len(look)
      BY <1>5, <2>2
    <3> HIDE DEF q
    <3> QED
      BY <3>1 DEF L!look_latter_request
  <2>6. next \notin Range(queue_head) /\ next \notin inflight
    BY <2>2, LookEntry, NotIssued
  <2>7. LookPriv' = LookPriv \ L!MergePuts(q, i, i + 1, TRUE)
    BY <1>1, <2>3, <2>6, LookPrivIs
  <2>5. L!BackMerge(i, sz, TRUE)
    BY <1>1, <1>5, <1>9, <1>10, <2>3, <2>4, <2>7 DEF L!BackMerge
  <2> QED
    BY <1>5, <1>10, <2>5 DEF L!Next
<1>12. CASE ~MayJoin(grown, r, next)
  <2>1. rqs' = grown /\ look' = look
    BY <1>1, <1>12 DEF MergedRequest
  <2>2. LookQueue' = q
    BY <1>1, <1>8, <2>1, LookShapeNext
  <2> HIDE DEF q
  <2>3. L!attempt_merge(q, i, L!look_latter_request(q, i), FALSE) = q
    BY DEF L!attempt_merge, L!Joins
  <2>5. L!MergePuts(q, i, L!look_latter_request(q, i), FALSE) = {}
    BY DEF L!MergePuts, L!Joins
  <2>6. LookPriv' = LookPriv
    BY <1>1, <2>1, LookPrivIs
  <2>4. L!BackMerge(i, sz, FALSE)
    BY <1>1, <1>5, <1>9, <1>10, <2>2, <2>3, <2>5, <2>6 DEF L!BackMerge, q
  <2> QED
    BY <1>5, <1>10, <2>4 DEF L!Next
<1> QED
  BY <1>11, <1>12

LEMMA LookFront ==
    ASSUME QInv, QInv', NEW b \in Bios, FrontMerge(b)
    PROVE  L!Next
<1> DEFINE m == elv_merge(b)
           r == m.rq
           grown == [rqs EXCEPT ![r].bios = <<b>> \o @, ![r].pos = bio[b].sector,
                                ![r].len = @ + bio[b].size]
           prev == look_former_request(r)
           sz == bio[b].size
<1>1. /\ st[b] = "new" /\ m.type = "front" /\ rqs[r].len + sz <= MaxSectors
      /\ IF MayJoin(grown, prev, r) THEN JoinRequests(grown, m.chain, prev, r)
                                    ELSE MergedRequest(grown, m.chain, r, "front")
      /\ UNCHANGED <<bio, cur_pos, dir, queue_head, inflight>>
  BY DEF FrontMerge, Fits
<1>2. /\ r \in Range(look) /\ rqs[r].rw = bio[b].rw /\ rqs[r].pos = bio[b].sector + sz
  BY <1>1, MergeFound
<1> HIDE DEF m
<1>3. PICK e \in Rq : /\ FsRq(e) /\ Once(e.bios) /\ Range(e.bios) = Range(rqs[r].bios) \cup {b}
                      /\ e.flags = rqs[r].flags /\ RqEnd(e) = RqEnd(rqs[r])
                      /\ e.bios = <<b>> \o rqs[r].bios
                      /\ e.pos = bio[b].sector /\ e.len = rqs[r].len + bio[b].size
                      /\ grown = [rqs EXCEPT ![r] = e]
  BY <1>1, <1>2, GrownFront
<1> HIDE DEF grown, r, prev
<1>4. PICK i \in 1 .. Len(look) : look[i] = r
  BY <1>2, QFacts, ListFacts
<1>5. /\ FsRq(rqs[r]) /\ rqs[r] \in Rq
      /\ LookQueue[i] = [rq |-> r, pos |-> rqs[r].pos, first |-> bio[Head(rqs[r].bios)].size,
                         len |-> rqs[r].len]
      /\ rqs[r].pos \in Nat /\ rqs[r].len \in Nat
      /\ i \in DOMAIN LookQueue /\ Len(LookQueue) = Len(look) /\ Len(look) \in Nat
  BY <1>4, LookEntry
<1>6. /\ bio \in Workloads /\ sz \in Nat /\ sz > 0 /\ sz <= Capacity /\ Capacity \in Nat
      /\ bio[b].sector \in Nat /\ bio[b].sector + sz <= Capacity
  BY QFacts, BioFacts
<1>7. Head(e.bios) = b
  <2>1. rqs[r].bios \in Seq(Bios)
    BY <1>5, <1>6, RqFields
  <2> QED
    BY <1>3, <2>1
<1>8. /\ Listed(grown, look)
      /\ EntriesOf(grown, look) = [LookQueue EXCEPT ![i] = L!GrowFront(@, sz)]
  <2>1. /\ Listed(grown, look)
        /\ EntryOf(grown, r) = [rq |-> r, pos |-> e.pos, first |-> bio[Head(e.bios)].size, len |-> e.len]
        /\ EntriesOf(grown, look) = [LookQueue EXCEPT ![i] = EntryOf(grown, r)]
    BY <1>3, <1>4, GrownQueue
  <2>2. bio[b].sector = rqs[r].pos - sz
    BY <1>2, <1>6
  <2>3. EntryOf(grown, r) = L!GrowFront(LookQueue[i], sz)
    BY <1>3, <1>5, <1>7, <2>1, <2>2 DEF L!GrowFront
  <2> QED
    BY <2>1, <2>3
<1>9. sz <= LookQueue[i].pos /\ LookQueue[i].len + sz <= MaxSectors
  BY <1>1, <1>2, <1>5, <1>6
<1>10. LookOut' = LookOut /\ sz \in 1 .. Capacity
  BY <1>1, <1>6, LookOutIs
<1> DEFINE q == [LookQueue EXCEPT ![i] = L!GrowFront(@, sz)]
<1>11. CASE MayJoin(grown, prev, r)
  <2>1. prev # NULL /\ JoinRequests(grown, m.chain, prev, r)
    BY <1>1, <1>11 DEF MayJoin
  <2>2. i + (-1) \in 1 .. Len(look) /\ prev = look[i + (-1)]
    BY <1>4, <2>1, NeighbourPlace DEF prev, look_former_request
  <2>3. PICK j \in 1 .. Len(look) : j = i - 1 /\ i = j + 1 /\ prev = look[j] /\ r = look[j + 1]
    BY <1>4, <1>5, <2>2
  <2>4. /\ LookQueue' = L!attempt_merge(q, j, i, TRUE)
        /\ L!MergePuts(q, j, i, TRUE) = {r}
        /\ Range(look') = Range(look) \ {r}
    <3>1. /\ j + 1 \in 1 .. Len(look) /\ bio' = bio /\ Listed(grown, look)
          /\ MayJoin(grown, look[j], look[j + 1])
          /\ JoinRequests(grown, m.chain, look[j], look[j + 1])
      BY <1>1, <1>8, <1>11, <2>1, <2>3
    <3>2. /\ LookQueue' = L!attempt_merge(EntriesOf(grown, look), j, j + 1, TRUE)
          /\ L!MergePuts(EntriesOf(grown, look), j, j + 1, TRUE) = {look[j + 1]}
          /\ Range(look') = Range(look) \ {look[j + 1]}
      BY <3>1, JoinedQueue
    <3> QED
      BY <1>8, <2>3, <3>2
  <2>5. L!look_former_request(i) = j
    BY <2>3 DEF L!look_former_request
  <2>7. r \notin Range(queue_head) /\ r \notin inflight
    BY <1>2, NotIssued
  <2>8. LookPriv' = LookPriv \ L!MergePuts(q, j, i, TRUE)
    BY <1>1, <2>4, <2>7, LookPrivIs
  <2>6. L!FrontMerge(i, sz, TRUE)
    BY <1>1, <1>5, <1>9, <1>10, <2>4, <2>5, <2>8 DEF L!FrontMerge
  <2> QED
    BY <1>5, <1>10, <2>6 DEF L!Next
<1>12. CASE ~MayJoin(grown, prev, r)
  <2>1. rqs' = grown /\ look' = look
    BY <1>1, <1>12 DEF MergedRequest
  <2>2. LookQueue' = q
    BY <1>1, <1>8, <2>1, LookShapeNext
  <2> HIDE DEF q
  <2>3. L!attempt_merge(q, L!look_former_request(i), i, FALSE) = q
    BY DEF L!attempt_merge, L!Joins
  <2>5. L!MergePuts(q, L!look_former_request(i), i, FALSE) = {}
    BY DEF L!MergePuts, L!Joins
  <2>6. LookPriv' = LookPriv
    BY <1>1, <2>1, LookPrivIs
  <2>4. L!FrontMerge(i, sz, FALSE)
    BY <1>1, <1>5, <1>9, <1>10, <2>2, <2>3, <2>5, <2>6 DEF L!FrontMerge, q
  <2> QED
    BY <1>5, <1>10, <2>4 DEF L!Next
<1> QED
  BY <1>11, <1>12

\* Every step of the queue is a step of LOOK or none of its business.
LEMMA LookStep ==
    ASSUME QInv, QInv', InLine, [Next]_vars
    PROVE  [L!Next]_(L!vars)
<1>1. /\ bio \in Workloads /\ rqs \in [Reqs -> Rq] /\ look \in Seq(Bios)
      /\ Range(look) \subseteq Bios /\ queue_head \in Seq(Reqs)
      /\ \A b \in Bios : b \in Reqs /\ b \notin Pcs
      /\ \A r \in Range(look) : rqs[r] # NoRq
  BY QFacts
<1>2. ASSUME UNCHANGED <<bio, rqs, look, cur_pos, dir, queue_head, inflight>>
      PROVE  UNCHANGED L!vars
  BY <1>2, LookStutter
<1>3. ASSUME NEW m, RqsOK(m), NEW r \in Reqs, m[r] # NoRq, NEW f,
             r \in Bios => f \in {"nomerge", "started"}, r \in Pcs => f \in {"soft", "started"},
             NEW n, FlagSet(n, m, r, f)
      PROVE  SameRqs(n, m)
  BY <1>1, <1>3, FlaggedRqs
<1>4. ASSUME NEW b \in Bios, get_request(b) PROVE UNCHANGED L!vars
  <2> DEFINE m == elv_merge(b)
             big == ~elv_queue_empty /\ m.type # "none" /\ ~Fits(m.rq, b)
             full == IF big THEN [rqs EXCEPT ![m.rq].flags = @ \cup {"nomerge"}] ELSE rqs
  <2>1. /\ st[b] = "new" /\ rqs' = [full EXCEPT ![b] = BioRequest(b)]
        /\ UNCHANGED <<bio, look, cur_pos, dir, queue_head, inflight>>
    BY <1>4 DEF get_request, sched
  <2>2. b \notin Range(look)
    BY <2>1 DEF QInv, Places
  <2>3. SameRqs(full, rqs)
    <3>1. CASE big
      <4>1. m.rq \in Range(look)
        BY <3>1, MergeFound
      <4>2. m.rq \in Bios /\ m.rq \in Reqs /\ rqs[m.rq] # NoRq
        BY <1>1, <4>1
      <4>3. FlagSet(full, rqs, m.rq, "nomerge")
        BY <3>1 DEF FlagSet
      <4> HIDE DEF full, m
      <4> QED
        BY <1>1, <1>3, <4>2, <4>3 DEF QInv
    <3>2. CASE ~big
      <4>1. full = rqs
        BY <3>2
      <4> HIDE DEF full
      <4> QED
        BY <4>1 DEF SameRqs
    <3> QED
      BY <3>1, <3>2
  <2>4. DOMAIN full = Reqs
    BY <1>1
  <2> HIDE DEF full
  <2>5. \A x \in Reqs : x # b => rqs'[x] = full[x]
    BY <2>1, <2>4
  <2>6. \A x \in Range(look) : /\ rqs'[x].bios = rqs[x].bios /\ rqs'[x].pos = rqs[x].pos
                               /\ rqs'[x].len = rqs[x].len
    BY <1>1, <2>2, <2>3, <2>5 DEF SameRqs
  <2> QED
    BY <2>1, <2>6, LookStutter
<1>5. ASSUME NEW p \in Pcs, blk_get_request(p) PROVE UNCHANGED L!vars
  <2>1. \A x \in Range(look) : rqs'[x] = rqs[x]
    BY <1>1, <1>5 DEF blk_get_request
  <2> QED
    BY <1>5, <2>1, LookStutter DEF blk_get_request, sched
<1>6. ASSUME NEW p \in Pcs, NEW h \in BOOLEAN, blk_execute_rq_nowait(p, h) PROVE UNCHANGED L!vars
  <2>1. \A x \in Range(look) : rqs'[x] = rqs[x]
    BY <1>1, <1>6 DEF blk_execute_rq_nowait
  <2>2. queue_head' = queue_head \/ queue_head' = <<p>> \o queue_head
    BY <1>6 DEF blk_execute_rq_nowait
  <2>3. Range(queue_head') \subseteq Range(queue_head) \cup {p} /\ Range(queue_head) \subseteq Range(queue_head')
    <3>1. p \in Reqs
      BY DEF Reqs
    <3>2. Range(<<p>> \o queue_head) = Range(queue_head) \cup {p}
      BY <1>1, <3>1, FrontOrder
    <3> QED
      BY <2>2, <3>2
  <2>4. \A b \in Bios : b \in Range(queue_head') <=> b \in Range(queue_head)
    BY <1>1, <2>3
  <2>5. UNCHANGED <<bio, look, cur_pos, dir, inflight>>
    BY <1>6 DEF blk_execute_rq_nowait, sched
  <2> QED
    BY <2>1, <2>4, <2>5, LookStutter
<1>7. CASE AddTail
  <2>1. PICK p \in Pcs : queue_head' = Append(queue_head, p)
    BY <1>7 DEF AddTail
  <2>2. Range(queue_head') = Range(queue_head) \cup {p}
    BY <1>1, <2>1, AppendOrder DEF Reqs
  <2>3. \A b \in Bios : b \in Range(queue_head') <=> b \in Range(queue_head)
    BY <1>1, <2>2
  <2>4. UNCHANGED <<bio, rqs, look, cur_pos, dir, inflight>>
    BY <1>7 DEF AddTail, sched
  <2> QED
    BY <2>3, <2>4, LookStutter
<1>8. CASE IssueRequest \/ StopQueue
  <2> DEFINE r == Head(queue_head)
  <2>1. /\ queue_head # << >> /\ FlagSet(rqs', rqs, r, "started")
        /\ UNCHANGED <<bio, look, cur_pos, dir>>
        /\ \/ queue_head' = Tail(queue_head) /\ inflight' = inflight \cup {r}
           \/ queue_head' = queue_head /\ inflight' = inflight
    BY <1>8 DEF IssueRequest, StopQueue, FlagSet, sched
  <2>2. /\ r \in Range(queue_head) /\ r \in Reqs /\ rqs[r] # NoRq
        /\ Range(queue_head) = Range(Tail(queue_head)) \cup {r}
    BY <2>1, QueueHead
  <2> HIDE DEF r
  <2>3. SameRqs(rqs', rqs)
    BY <1>1, <1>3, <2>1, <2>2 DEF QInv
  <2>4. \A x \in Range(look) : /\ rqs'[x].bios = rqs[x].bios /\ rqs'[x].pos = rqs[x].pos
                               /\ rqs'[x].len = rqs[x].len
    BY <1>1, <2>3 DEF SameRqs
  <2>5. \A b \in Bios : b \in Range(queue_head') \cup inflight' <=> b \in Range(queue_head) \cup inflight
    BY <2>1, <2>2
  <2> QED
    BY <2>1, <2>4, <2>5, LookStutter
<1>9. CASE DrainPass \/ PeekAsksLook
  BY <1>9, LookDispatched DEF DrainPass, PeekAsksLook
<1>10. ASSUME NEW x \in Reqs, Submitter(x) PROVE L!Next \/ UNCHANGED L!vars
  BY <1>4, <1>5, <1>6, <1>10, LookBack, LookFront, LookAdd DEF Submitter
<1>11. CASE LockOwner
  <2>1. CASE DrainEnd \/ __blk_run_queue \/ UnplugThreshold \/ __generic_unplug_device
              \/ RequestFnEnd \/ BlkDoneEnd
    BY <1>2, <2>1 DEF DrainEnd, __blk_run_queue, UnplugThreshold, __generic_unplug_device,
                      RequestFnEnd, BlkDoneEnd, sched
  <2> QED
    BY <1>7, <1>8, <1>9, <1>11, <2>1, LookDispatched DEF LockOwner, DrainPass, PeekAsksLook
<1>12. CASE blk_unplug_timeout \/ blk_unplug_work \/ generic_unplug_device \/ blk_unplug
             \/ UNCHANGED vars
  BY <1>2, <1>12 DEF blk_unplug_timeout, blk_unplug_work, generic_unplug_device, blk_unplug,
                     sched, vars
<1> QED
  BY <1>10, <1>11, <1>12, LookEnded DEF Next, Finished

\* The list, the head position and the direction the block layer keeps for
\* LOOK change only as Look says: what is proved of the elevator alone (no
\* request skipped, linked once, sweeps ascend) holds inside the queue, with
\* its merges, drains and packet commands.
THEOREM SafetyImplementsLook == Safety => ImplementsLook
<1>1. Init => L!Init
  <2>1. Init => LookQueue = << >>
    BY DEF Init, LookQueue
  <2>2. Init => LookOut = {}
    BY ToSetRange, ShapeEntries DEF Init, LookOut
  <2>3. Init => LookPriv = {}
    BY ToSetRange, ShapeEntries DEF Init, LookPriv
  <2> QED
    BY <2>1, <2>2, <2>3 DEF Init, L!Init, Up, L!Up
<1>2. QInv /\ QInv' /\ InLine /\ [Next]_vars => [L!Next]_(L!vars)
  BY LookStep
<1>3. Barriers => QInv /\ InLine
  BY DEF Barriers
<1> QED
  BY <1>1, <1>2, <1>3, SafetyInLine, PTL DEF Safety, ImplementsLook, L!Safety
=============================================================================
