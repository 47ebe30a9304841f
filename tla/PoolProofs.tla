----------------------------- MODULE PoolProofs -----------------------------
(***************************************************************************)
(* The pools of the cluster package, for any number of workers and         *)
(* assignments, and any limits.                                            *)
(*                                                                         *)
(* First what holds of both kinds.  The inductive invariant is PoolInv.    *)
(* Handlers change the queues in two stages, what they do themselves and   *)
(* then activate, so its parts are stated of arbitrary queues and hold     *)
(* between the stages too.  From it follow the steps of the contract; the  *)
(* count of workers has its own.  Then each kind keeps it, and then the    *)
(* cluster, whose parent is a pool of processes: what its children have.   *)
(***************************************************************************)
EXTENDS MCPools, Cluster, SequenceTheorems, FiniteSetTheorems, TLAPS

Ascending(s) == \A i, j \in 1 .. Len(s) : i < j => s[i] < s[j]
Distinct(s) == \A i, j \in 1 .. Len(s) : s[i] = s[j] => i = j

\* The range of each part of the bookkeeping.
Typed(idl, act, pend, st, iss, lf) ==
    /\ idl \in Seq(Worker)
    /\ act \in [Worker -> Assignment \cup {NoAssignment}]
    /\ pend \in Seq(Assignment)
    /\ st \in [Assignment -> Status]
    /\ iss \in 0 .. MaxAssign
    /\ lf \in [Worker -> Life]

Numbered(st, iss) == \A a \in Assignment : st[a] = "unissued" <=> a > iss
Placed(act, pend, st) ==
    \A a \in Assignment :
        st[a] = "open" <=> a \in Range(pend) \/ \E w \in Worker : act[w] = a
Apart(act, pend) == \A w \in Worker : act[w] \notin Range(pend)
Single(act) ==
    \A v, w \in Worker : act[v] = act[w] /\ act[v] # NoAssignment => v = w
Older(pend, st, iss) ==
    \A a \in Assignment, b \in Range(pend) :
        a <= iss /\ st[a] # "MAX_PENDING" /\ a \notin Range(pend) => a < b
Free(idl, act) == \A w \in Range(idl) : act[w] = NoAssignment
Born(idl, act, lf) ==
    \A w \in Worker :
        /\ lf[w] \in {"unborn", "starting"} =>
              w \notin Range(idl) /\ act[w] = NoAssignment
        /\ lf[w] = "up" => w \in Range(idl) \/ act[w] # NoAssignment

\* What the queues say of each other, the assignments and the workers.
Books(idl, act, pend, st, iss, lf) ==
    /\ Typed(idl, act, pend, st, iss, lf)
    /\ Numbered(st, iss)
    /\ Placed(act, pend, st)
    /\ Apart(act, pend)
    /\ Single(act)
    /\ Ascending(pend)
    /\ Older(pend, st, iss)
    /\ Distinct(idl)
    /\ Free(idl, act)
    /\ Born(idl, act, lf)

\* Why the queue keeps moving: a worker that has served stays in the pool's
\* hands, and as long as one is active it will come to activate.
Moving(idl, act, pend, st, iss) ==
    (\E a \in Assignment : a <= iss /\ st[a] # "MAX_PENDING" /\ a \notin Range(pend))
        => \/ \E w \in Worker : act[w] # NoAssignment
           \/ pend = <<>> /\ idl # <<>>

\* Where an answer can come from and where it can have gone: what a worker
\* may yet answer was taken up, by it alone, not after what it now holds, and
\* has been given to nobody.
Answers(act, pend, run, st, iss, rep) ==
    /\ run \in [Worker -> SUBSET Assignment]
    /\ rep \in [Assignment -> Assignment \cup {NoAssignment}]
    /\ \A w \in Worker : \A b \in run[w] :
          /\ b <= iss /\ st[b] # "MAX_PENDING" /\ b \notin Range(pend)
          /\ \A v \in Worker : b \in run[v] => v = w
          /\ \A c \in Assignment : rep[c] # b
          /\ act[w] # NoAssignment => b <= act[w]
          /\ st[b] = "open" => act[w] = b
    /\ \A a \in Assignment : rep[a] # NoAssignment <=> st[a] = "RESOLVED"
    /\ \A a \in Assignment :
          rep[a] \notin {NoAssignment, a} =>
             rep[a] < a /\ st[rep[a]] \in Failure \cup {"RESOLVED"}
    /\ \A a, b \in Assignment : rep[a] = rep[b] /\ rep[a] # NoAssignment => a = b

\* The inductive invariant, of the pool and of its error limiter.
PoolInv ==
    /\ Books(idle, active, pending, status, issued, life)
    /\ Moving(idle, active, pending, status, issued)
    /\ Answers(active, pending, running, status, issued, reply)
    /\ alive \in Nat
    /\ destroyed \in BOOLEAN
    /\ firstWorker \in Worker \cup {None}
    /\ online \in BOOLEAN

LimiterInv ==
    /\ initPeriod \in BOOLEAN
    /\ halted \in BOOLEAN
    /\ records \in 0 .. Threshold
    /\ ~halted => records < Threshold

-----------------------------------------------------------------------------
(* Sequences.                                                              *)

\* The members of a sequence with an element appended.
LEMMA RangeAppend ==
    ASSUME NEW S, NEW s \in Seq(S), NEW e \in S
    PROVE  Range(Append(s, e)) = Range(s) \cup {e}
<1>1. /\ Append(s, e) \in Seq(S)
      /\ Len(Append(s, e)) = Len(s) + 1
      /\ \A i \in 1 .. Len(s) : Append(s, e)[i] = s[i]
      /\ Append(s, e)[Len(s) + 1] = e
  BY AppendProperties
<1>2. /\ Len(s) \in Nat
      /\ DOMAIN s = 1 .. Len(s)
      /\ DOMAIN Append(s, e) = 1 .. (Len(s) + 1)
  BY <1>1, LenProperties
<1>3. ASSUME NEW x \in Range(Append(s, e)) PROVE x \in Range(s) \cup {e}
  <2>1. PICK i \in 1 .. (Len(s) + 1) : x = Append(s, e)[i]
    BY <1>2 DEF Range
  <2>2. CASE i = Len(s) + 1
    BY <2>1, <2>2, <1>1
  <2>3. CASE i \in 1 .. Len(s)
    BY <2>1, <2>3, <1>1, <1>2 DEF Range
  <2> QED BY <2>2, <2>3, <1>2
<1>4. ASSUME NEW x \in Range(s) PROVE x \in Range(Append(s, e))
  <2>1. PICK i \in 1 .. Len(s) : x = s[i]
    BY <1>2 DEF Range
  <2>2. i \in DOMAIN Append(s, e) /\ Append(s, e)[i] = x
    BY <2>1, <1>1, <1>2
  <2> QED BY <2>2 DEF Range
<1>5. e \in Range(Append(s, e))
  BY <1>1, <1>2 DEF Range
<1> QED BY <1>3, <1>4, <1>5

\* A nonempty sequence is its head and its tail.
LEMMA RangeHeadTail ==
    ASSUME NEW S, NEW s \in Seq(S), s # <<>>
    PROVE  /\ Range(s) = {Head(s)} \cup Range(Tail(s))
           /\ Head(s) \in S
           /\ Tail(s) \in Seq(S)
<1>1. /\ Head(s) \in S
      /\ Tail(s) \in Seq(S)
      /\ Len(Tail(s)) = Len(s) - 1
      /\ \A i \in 1 .. Len(Tail(s)) : Tail(s)[i] = s[i + 1]
  BY HeadTailProperties
<1>2. /\ Len(s) \in Nat \ {0}
      /\ DOMAIN s = 1 .. Len(s)
      /\ DOMAIN Tail(s) = 1 .. (Len(s) - 1)
      /\ Head(s) = s[1]
  BY <1>1, LenProperties, EmptySeq
<1>3. ASSUME NEW x \in Range(s) PROVE x \in {Head(s)} \cup Range(Tail(s))
  <2>1. PICK i \in 1 .. Len(s) : x = s[i]
    BY <1>2 DEF Range
  <2>2. CASE i = 1
    BY <2>1, <2>2, <1>2
  <2>3. CASE i # 1
    <3>1. i - 1 \in DOMAIN Tail(s) /\ Tail(s)[i - 1] = x
      BY <2>1, <2>3, <1>1, <1>2
    <3> QED BY <3>1 DEF Range
  <2> QED BY <2>2, <2>3
<1>4. ASSUME NEW x \in Range(Tail(s)) PROVE x \in Range(s)
  <2>1. PICK i \in 1 .. (Len(s) - 1) : x = Tail(s)[i]
    BY <1>2 DEF Range
  <2>2. i + 1 \in DOMAIN s /\ s[i + 1] = x
    BY <2>1, <1>1, <1>2
  <2> QED BY <2>2 DEF Range
<1>5. Head(s) \in Range(s)
  BY <1>2 DEF Range
<1> QED BY <1>1, <1>3, <1>4, <1>5

\* The tail of an ascending sequence ascends, above its head.
LEMMA AscendingTail ==
    ASSUME NEW s \in Seq(Assignment), s # <<>>, Ascending(s)
    PROVE  /\ Ascending(Tail(s))
           /\ \A b \in Range(Tail(s)) : Head(s) < b
<1>1. /\ Tail(s) \in Seq(Assignment)
      /\ Len(Tail(s)) = Len(s) - 1
      /\ \A i \in 1 .. Len(Tail(s)) : Tail(s)[i] = s[i + 1]
  BY HeadTailProperties
<1>2. /\ Len(s) \in Nat \ {0}
      /\ DOMAIN Tail(s) = 1 .. (Len(s) - 1)
      /\ Head(s) = s[1]
  BY <1>1, LenProperties, EmptySeq
<1>3. Ascending(Tail(s))
  BY <1>1, <1>2 DEF Ascending
<1>4. ASSUME NEW b \in Range(Tail(s)) PROVE Head(s) < b
  <2>1. PICK i \in 1 .. (Len(s) - 1) : b = Tail(s)[i]
    BY <1>2 DEF Range
  <2>2. b = s[i + 1] /\ 1 < i + 1 /\ i + 1 \in 1 .. Len(s)
    BY <2>1, <1>1, <1>2
  <2> QED BY <2>2, <1>2 DEF Ascending
<1> QED BY <1>3, <1>4

\* Appending something greater than every member keeps the order.
LEMMA AscendingAppend ==
    ASSUME NEW s \in Seq(Assignment), NEW e \in Assignment,
           Ascending(s), \A b \in Range(s) : b < e
    PROVE  Ascending(Append(s, e))
<1>1. /\ Len(Append(s, e)) = Len(s) + 1
      /\ \A i \in 1 .. Len(s) : Append(s, e)[i] = s[i]
      /\ Append(s, e)[Len(s) + 1] = e
  BY AppendProperties
<1>2. Len(s) \in Nat /\ DOMAIN s = 1 .. Len(s)
  BY LenProperties
<1>3. \A i \in 1 .. Len(s) : s[i] < e
  BY <1>2 DEF Range
<1>4. ASSUME NEW i \in 1 .. (Len(s) + 1), NEW j \in 1 .. (Len(s) + 1), i < j
      PROVE  Append(s, e)[i] < Append(s, e)[j]
  <2>1. i \in 1 .. Len(s) /\ (j \in 1 .. Len(s) \/ j = Len(s) + 1)
    BY <1>2, <1>4
  <2> QED BY <2>1, <1>1, <1>3, <1>4 DEF Ascending
<1> QED BY <1>1, <1>4 DEF Ascending

\* The tail of a sequence without repetitions is one, and without the head.
LEMMA DistinctTail ==
    ASSUME NEW S, NEW s \in Seq(S), s # <<>>, Distinct(s)
    PROVE  Distinct(Tail(s)) /\ Head(s) \notin Range(Tail(s))
<1>1. /\ Tail(s) \in Seq(S)
      /\ Len(Tail(s)) = Len(s) - 1
      /\ \A i \in 1 .. Len(Tail(s)) : Tail(s)[i] = s[i + 1]
  BY HeadTailProperties
<1>2. /\ Len(s) \in Nat \ {0}
      /\ DOMAIN Tail(s) = 1 .. (Len(s) - 1)
      /\ Head(s) = s[1]
  BY <1>1, LenProperties, EmptySeq
<1>3. Distinct(Tail(s))
  <2>1. \A i, j \in 1 .. (Len(s) - 1) : s[i + 1] = s[j + 1] => i + 1 = j + 1
    BY <1>2 DEF Distinct
  <2> QED BY <2>1, <1>1, <1>2 DEF Distinct
<1>4. \A i \in 1 .. (Len(s) - 1) : Tail(s)[i] # s[1]
  <2>1. \A i \in 1 .. (Len(s) - 1) : s[i + 1] # s[1]
    BY <1>2 DEF Distinct
  <2> QED BY <2>1, <1>1, <1>2
<1> QED BY <1>2, <1>3, <1>4 DEF Range

\* Appending something new keeps a sequence without repetitions.
LEMMA DistinctAppend ==
    ASSUME NEW S, NEW s \in Seq(S), NEW e \in S, Distinct(s), e \notin Range(s)
    PROVE  Distinct(Append(s, e))
<1>1. /\ Len(Append(s, e)) = Len(s) + 1
      /\ \A i \in 1 .. Len(s) : Append(s, e)[i] = s[i]
      /\ Append(s, e)[Len(s) + 1] = e
  BY AppendProperties
<1>2. Len(s) \in Nat /\ DOMAIN s = 1 .. Len(s)
  BY LenProperties
<1>3. \A i \in 1 .. Len(s) : s[i] # e
  BY <1>2 DEF Range
<1>4. ASSUME NEW i \in 1 .. (Len(s) + 1), NEW j \in 1 .. (Len(s) + 1),
             Append(s, e)[i] = Append(s, e)[j]
      PROVE  i = j
  <2>1. /\ i \in 1 .. Len(s) \/ i = Len(s) + 1
        /\ j \in 1 .. Len(s) \/ j = Len(s) + 1
    BY <1>2
  <2> QED BY <2>1, <1>1, <1>3, <1>4 DEF Distinct
<1> QED BY <1>1, <1>4 DEF Distinct

-----------------------------------------------------------------------------
(* The fragments.                                                          *)

\* activate keeps the books of the queues it is called on.
LEMMA ActivateKeepsBooks ==
    ASSUME NEW idl, NEW act, NEW pend, NEW run,
           Books(idl, act, pend, status', issued', life'),
           Activate(idl, act, pend, run)
    PROVE  Books(idle', active', pending', status', issued', life')
<1>1. CASE /\ idle' = idl
           /\ active' = act
           /\ pending' = pend
  BY <1>1
<1>2. CASE /\ pend # <<>> /\ idl # <<>>
           /\ idle' = Tail(idl)
           /\ active' = [act EXCEPT ![Head(idl)] = Head(pend)]
           /\ pending' = Tail(pend)
  <2> DEFINE w == Head(idl)
             a == Head(pend)
  <2>1. /\ idl \in Seq(Worker)
        /\ act \in [Worker -> Assignment \cup {NoAssignment}]
        /\ pend \in Seq(Assignment)
        /\ status' \in [Assignment -> Status]
        /\ issued' \in 0 .. MaxAssign
        /\ life' \in [Worker -> Life]
    BY DEF Books, Typed
  <2>2. /\ Range(idl) = {w} \cup Range(Tail(idl))
        /\ w \in Worker
        /\ Tail(idl) \in Seq(Worker)
    BY <1>2, <2>1, RangeHeadTail
  <2>3. /\ Range(pend) = {a} \cup Range(Tail(pend))
        /\ a \in Assignment
        /\ Tail(pend) \in Seq(Assignment)
    BY <1>2, <2>1, RangeHeadTail
  <2>4. Distinct(Tail(idl)) /\ w \notin Range(Tail(idl))
    BY <1>2, <2>1, DistinctTail DEF Books
  <2>5. Ascending(Tail(pend)) /\ \A b \in Range(Tail(pend)) : a < b
    BY <1>2, <2>1, AscendingTail DEF Books
  <2>6. a \notin Range(Tail(pend))
    BY <2>3, <2>5 DEF Assignment
  <2>7. a # NoAssignment /\ act[w] = NoAssignment
    BY <2>2, <2>3 DEF Books, Free, Assignment, NoAssignment
  <2>8. /\ active' \in [Worker -> Assignment \cup {NoAssignment}]
        /\ active'[w] = a
        /\ \A v \in Worker : v # w => active'[v] = act[v]
    BY <1>2, <2>1, <2>2, <2>3
  <2> HIDE DEF w, a
  <2>9. Typed(idle', active', pending', status', issued', life')
    BY <1>2, <2>1, <2>2, <2>3, <2>8 DEF Typed
  <2>10. Numbered(status', issued')
    BY DEF Books
  <2>11. Placed(active', pending', status')
    <3>1. \A b \in Assignment :
             status'[b] = "open" <=> b \in Range(pend) \/ \E v \in Worker : act[v] = b
      BY DEF Books, Placed
    <3>2. \A b \in Assignment : b # NoAssignment
      BY DEF Assignment, NoAssignment
    <3>3. ASSUME NEW b \in Assignment
          PROVE  (\E v \in Worker : active'[v] = b) <=> b = a \/ \E v \in Worker : act[v] = b
      BY <2>2, <2>7, <2>8, <3>2
    <3> QED BY <1>2, <2>3, <3>1, <3>3 DEF Placed
  <2>12. Apart(active', pending')
    BY <1>2, <2>3, <2>6, <2>8 DEF Books, Apart
  <2>13. Single(active')
    BY <2>3, <2>8 DEF Books, Single, Apart
  <2>14. Older(pending', status', issued')
    BY <1>2, <2>3, <2>5 DEF Books, Older
  <2>15. Free(idle', active')
    <3>1. Range(Tail(idl)) \subseteq Worker
      BY <2>2, LenProperties DEF Range
    <3> QED BY <1>2, <2>2, <2>4, <2>8, <3>1 DEF Books, Free
  <2>16. Born(idle', active', life')
    BY <1>2, <2>2, <2>7, <2>8 DEF Books, Born
  <2> QED BY <1>2, <2>4, <2>5, <2>9, <2>10, <2>11, <2>12, <2>13, <2>14, <2>15, <2>16
          DEF Books
<1> QED BY <1>1, <1>2 DEF Activate

\* After activate on a nonempty idle queue something is active, or nothing
\* waits and the worker is still there.
LEMMA ActivateMoves ==
    ASSUME NEW idl, NEW act, NEW pend, NEW run, NEW st, NEW iss, NEW lf,
           Typed(idl, act, pend, st, iss, lf),
           idl # <<>>,
           Activate(idl, act, pend, run)
    PROVE  \/ \E w \in Worker : active'[w] # NoAssignment
           \/ pending' = <<>> /\ idle' # <<>>
<1>1. CASE pend = <<>>
  BY <1>1 DEF Activate
<1>2. CASE pend # <<>>
  <2>1. Head(idl) \in Worker /\ Head(pend) \in Assignment
    BY <1>2, RangeHeadTail DEF Typed
  <2>2. active' = [act EXCEPT ![Head(idl)] = Head(pend)]
    BY <1>2 DEF Activate
  <2>3. active'[Head(idl)] = Head(pend)
    BY <2>1, <2>2 DEF Typed
  <2> QED BY <2>1, <2>3 DEF Assignment, NoAssignment
<1> QED BY <1>1, <1>2

\* A worker that gives up its assignment, which is settled, goes back to the
\* idle workers: the books are in order again before activate.
LEMMA SettleKeepsBooks ==
    ASSUME NEW w \in Worker, active[w] # NoAssignment,
           NEW outcome \in Failure \cup {"RESOLVED"}, NEW lf,
           Books(idle, active, pending, status, issued, lf)
    PROVE  Books(Append(idle, w), [active EXCEPT ![w] = NoAssignment], pending,
                 [status EXCEPT ![active[w]] = outcome], issued, lf)
<1> DEFINE idl == Append(idle, w)
           act == [active EXCEPT ![w] = NoAssignment]
           a == active[w]
           st == [status EXCEPT ![a] = outcome]
<1>1. /\ idle \in Seq(Worker)
      /\ active \in [Worker -> Assignment \cup {NoAssignment}]
      /\ pending \in Seq(Assignment)
      /\ status \in [Assignment -> Status]
      /\ issued \in 0 .. MaxAssign
      /\ lf \in [Worker -> Life]
  BY DEF Books, Typed
<1>2. a \in Assignment
  BY <1>1
<1>3. /\ act \in [Worker -> Assignment \cup {NoAssignment}]
      /\ act[w] = NoAssignment
      /\ \A v \in Worker : v # w => act[v] = active[v]
  BY <1>1
<1>4. /\ st \in [Assignment -> Status]
      /\ st[a] = outcome
      /\ \A b \in Assignment : b # a => st[b] = status[b]
  BY <1>1, <1>2 DEF Status
<1>5. idl \in Seq(Worker) /\ Range(idl) = Range(idle) \cup {w}
  BY <1>1, AppendProperties, RangeAppend
<1>6. w \notin Range(idle)
  BY DEF Books, Free
<1>7. status[a] = "open"
  BY <1>2 DEF Books, Placed
<1>8. \A v \in Worker : active[v] = a => v = w
  BY <1>1 DEF Books, Single
<1>9. a \notin Range(pending)
  BY DEF Books, Apart
<1>10. outcome \notin {"unissued", "open", "MAX_PENDING"}
  BY DEF Failure
<1> HIDE DEF idl, act, a, st
<1>11. Typed(idl, act, pending, st, issued, lf)
  BY <1>1, <1>3, <1>4, <1>5 DEF Typed
<1>12. Numbered(st, issued)
  BY <1>2, <1>4, <1>7, <1>10 DEF Books, Numbered
<1>13. Placed(act, pending, st)
  <2>1. ASSUME NEW b \in Assignment
        PROVE  (\E v \in Worker : act[v] = b) <=> b # a /\ \E v \in Worker : active[v] = b
    <3>1. b # NoAssignment
      BY DEF Assignment, NoAssignment
    <3>2. active[w] = a
      BY DEF a
    <3> QED BY <1>3, <1>8, <3>1, <3>2
  <2>2. \A b \in Assignment :
           status[b] = "open" <=> b \in Range(pending) \/ \E v \in Worker : active[v] = b
    BY DEF Books, Placed
  <2>3. ASSUME NEW b \in Assignment, b # a
        PROVE  st[b] = "open" <=> b \in Range(pending) \/ \E v \in Worker : act[v] = b
    BY <1>4, <2>1, <2>2, <2>3
  <2>4. st[a] # "open" /\ a \notin Range(pending) /\ ~\E v \in Worker : act[v] = a
    BY <1>2, <1>4, <1>9, <1>10, <2>1
  <2> QED BY <2>3, <2>4 DEF Placed
<1>14. Apart(act, pending)
  <2>1. NoAssignment \notin Range(pending)
    BY <1>1, LenProperties DEF Range, Assignment, NoAssignment
  <2> QED BY <1>3, <2>1 DEF Books, Apart
<1>15. Single(act)
  BY <1>3 DEF Books, Single
<1>16. Older(pending, st, issued)
  BY <1>2, <1>4, <1>7, <1>9 DEF Books, Older
<1>17. Distinct(idl)
  BY <1>1, <1>6, DistinctAppend DEF Books, idl
<1>18. Free(idl, act)
  <2>1. Range(idle) \subseteq Worker
    BY <1>1, LenProperties DEF Range
  <2> QED BY <1>3, <1>5, <2>1 DEF Books, Free
<1>19. Born(idl, act, lf)
  <2>1. active[w] # NoAssignment
    OBVIOUS
  <2> QED BY <1>3, <1>5, <2>1 DEF Books, Born
<1>20. Ascending(pending)
  BY DEF Books
<1>21. Books(idl, act, pending, st, issued, lf)
  BY <1>11, <1>12, <1>13, <1>14, <1>15, <1>16, <1>17, <1>18, <1>19, <1>20 DEF Books
<1> QED BY <1>21 DEF idl, act, a, st

\* activate: what it sends is new to every worker, and younger.
LEMMA ActivateKeepsAnswers ==
    ASSUME NEW idl, NEW act, NEW pend, NEW run,
           Books(idl, act, pend, status', issued', life'),
           Answers(act, pend, run, status', issued', reply'),
           Activate(idl, act, pend, run)
    PROVE  Answers(active', pending', running', status', issued', reply')
<1>1. CASE /\ active' = act
           /\ pending' = pend
           /\ running' = run
  BY <1>1
<1>2. CASE /\ pend # <<>> /\ idl # <<>>
           /\ active' = [act EXCEPT ![Head(idl)] = Head(pend)]
           /\ pending' = Tail(pend)
           /\ running' = Posted(run, Head(idl), Head(pend))
  <2> DEFINE w == Head(idl)
             a == Head(pend)
  <2>1. /\ idl \in Seq(Worker)
        /\ act \in [Worker -> Assignment \cup {NoAssignment}]
        /\ pend \in Seq(Assignment)
        /\ issued' \in 0 .. MaxAssign
    BY DEF Books, Typed
  <2>2. w \in Worker /\ w \in Range(idl)
    BY <1>2, <2>1, RangeHeadTail
  <2>3. /\ Range(pend) = {a} \cup Range(Tail(pend))
        /\ a \in Assignment
    BY <1>2, <2>1, RangeHeadTail
  <2>4. a \notin Range(Tail(pend))
    <3>1. \A b \in Range(Tail(pend)) : a < b
      BY <1>2, <2>1, AscendingTail DEF Books
    <3> QED BY <2>3, <3>1 DEF Assignment
  <2>5. status'[a] = "open" /\ a <= issued'
    <3>1. status'[a] = "open"
      BY <2>3 DEF Books, Placed
    <3> QED BY <2>1, <2>3, <3>1 DEF Books, Numbered, Assignment
  <2>6. act[w] = NoAssignment
    BY <2>2 DEF Books, Free
  <2>7. /\ active'[w] = a
        /\ \A v \in Worker : v # w => active'[v] = act[v]
    BY <1>2, <2>1, <2>2, <2>3
  <2>8. \A v \in Worker : a \notin run[v]
    BY <2>3 DEF Answers
  <2>9. \A c \in Assignment : reply'[c] # a
    BY <2>3, <2>5 DEF Answers, Failure, Assignment, NoAssignment
  <2>10. /\ running' \in [Worker -> SUBSET Assignment]
         /\ \A v \in Worker : v # w => running'[v] = run[v]
         /\ running'[w] \subseteq run[w] \cup {a}
    BY <1>2, <2>2, <2>3 DEF Posted, Answers
  <2> HIDE DEF w, a
  <2>11. ASSUME NEW v \in Worker, NEW b \in running'[v]
         PROVE  /\ b <= issued' /\ status'[b] # "MAX_PENDING" /\ b \notin Range(pending')
                /\ \A u \in Worker : b \in running'[u] => u = v
                /\ \A c \in Assignment : reply'[c] # b
                /\ active'[v] # NoAssignment => b <= active'[v]
                /\ status'[b] = "open" => active'[v] = b
    <3>1. CASE b = a
      <4>1. v = w
        BY <2>8, <2>10, <3>1
      <4>2. \A u \in Worker : b \in running'[u] => u = v
        BY <2>8, <2>10, <3>1, <4>1
      <4> QED BY <1>2, <2>3, <2>4, <2>5, <2>7, <2>9, <3>1, <4>1, <4>2 DEF Assignment
    <3>2. CASE b # a
      <4>1. b \in run[v] /\ b \in Assignment
        BY <2>10, <3>2
      <4>2. /\ b <= issued' /\ status'[b] # "MAX_PENDING" /\ b \notin Range(pend)
            /\ \A u \in Worker : b \in run[u] => u = v
            /\ \A c \in Assignment : reply'[c] # b
            /\ act[v] # NoAssignment => b <= act[v]
            /\ status'[b] = "open" => act[v] = b
        BY <4>1 DEF Answers
      <4>3. \A u \in Worker : b \in running'[u] => u = v
        BY <2>10, <3>2, <4>2
      <4>4. b < a
        BY <2>3, <4>1, <4>2 DEF Books, Older
      <4>5. v = w => status'[b] # "open"
        BY <2>6, <4>1, <4>2 DEF Assignment, NoAssignment
      <4>6. active'[v] # NoAssignment => b <= active'[v]
        BY <2>3, <2>7, <4>1, <4>2, <4>4 DEF Assignment
      <4>7. b \notin Range(pending')
        BY <1>2, <2>3, <4>2
      <4> QED BY <2>7, <4>2, <4>3, <4>5, <4>6, <4>7
    <3> QED BY <3>1, <3>2
  <2> QED BY <2>10, <2>11 DEF Answers
<1> QED BY <1>1, <1>2 DEF Activate

\* A worker can come to answer less than it might have.
LEMMA LossKeepsAnswers ==
    ASSUME Answers(active, pending, running, status, issued, reply),
           NEW run \in [Worker -> SUBSET Assignment],
           \A w \in Worker : run[w] \subseteq running[w]
    PROVE  Answers(active, pending, run, status, issued, reply)
BY DEF Answers

\* An assignment is rejected: its answer, if it comes, finds it settled.
LEMMA RejectKeepsAnswers ==
    ASSUME NEW w \in Worker, active[w] # NoAssignment, NEW err \in Failure,
           NEW run,
           Books(idle, active, pending, status, issued, life'),
           Answers(active, pending, run, status, issued, reply)
    PROVE  Answers([active EXCEPT ![w] = NoAssignment], pending, run,
                   [status EXCEPT ![active[w]] = err], issued, reply)
<1> DEFINE a == active[w]
           act == [active EXCEPT ![w] = NoAssignment]
           st == [status EXCEPT ![a] = err]
<1>1. /\ active \in [Worker -> Assignment \cup {NoAssignment}]
      /\ status \in [Assignment -> Status]
      /\ a \in Assignment
  BY DEF Books, Typed
<1>2. status[a] = "open" /\ reply[a] = NoAssignment
  <2>1. status[a] = "open"
    BY <1>1 DEF Books, Placed
  <2> QED BY <1>1, <2>1 DEF Answers
<1>3. /\ act[w] = NoAssignment
      /\ \A v \in Worker : v # w => act[v] = active[v]
      /\ st[a] = err
      /\ \A b \in Assignment : b # a => st[b] = status[b]
  BY <1>1
<1>4. err \notin {"open", "MAX_PENDING", "RESOLVED"}
  BY DEF Failure
<1> HIDE DEF act, st
<1>5. ASSUME NEW v \in Worker, NEW b \in run[v]
      PROVE  /\ b <= issued /\ st[b] # "MAX_PENDING" /\ b \notin Range(pending)
             /\ \A u \in Worker : b \in run[u] => u = v
             /\ \A c \in Assignment : reply[c] # b
             /\ act[v] # NoAssignment => b <= act[v]
             /\ st[b] = "open" => act[v] = b
  <2>1. b \in Assignment
    BY DEF Answers
  <2>2. /\ b <= issued /\ status[b] # "MAX_PENDING" /\ b \notin Range(pending)
        /\ \A u \in Worker : b \in run[u] => u = v
        /\ \A c \in Assignment : reply[c] # b
        /\ active[v] # NoAssignment => b <= active[v]
        /\ status[b] = "open" => active[v] = b
    BY DEF Answers
  <2>3. st[b] = "open" => act[v] = b
    BY <1>3, <1>4, <2>1, <2>2
  <2> QED BY <1>3, <1>4, <2>1, <2>2, <2>3
<1>6. ASSUME NEW c \in Assignment
      PROVE  /\ reply[c] # NoAssignment <=> st[c] = "RESOLVED"
             /\ reply[c] \notin {NoAssignment, c} =>
                   reply[c] < c /\ st[reply[c]] \in Failure \cup {"RESOLVED"}
  <2>1. /\ reply[c] # NoAssignment <=> status[c] = "RESOLVED"
        /\ reply[c] \notin {NoAssignment, c} =>
              reply[c] < c /\ status[reply[c]] \in Failure \cup {"RESOLVED"}
        /\ reply[c] \in Assignment \cup {NoAssignment}
    BY DEF Answers
  <2> QED BY <1>2, <1>3, <1>4, <2>1
<1>7. Answers(act, pending, run, st, issued, reply)
  BY <1>5, <1>6 DEF Answers
<1> QED BY <1>7 DEF act, st, a

\* An assignment is resolved with what its worker answers: its own answer, or
\* that of an older one that was settled before.
LEMMA ResolveKeepsAnswers ==
    ASSUME NEW w \in Worker, active[w] # NoAssignment, NEW b \in running[w],
           Books(idle, active, pending, status, issued, life'),
           Answers(active, pending, running, status, issued, reply)
    PROVE  Answers([active EXCEPT ![w] = NoAssignment], pending,
                   [running EXCEPT ![w] = @ \ {b}],
                   [status EXCEPT ![active[w]] = "RESOLVED"], issued,
                   [reply EXCEPT ![active[w]] = b])
<1> DEFINE a == active[w]
           act == [active EXCEPT ![w] = NoAssignment]
           st == [status EXCEPT ![a] = "RESOLVED"]
           run == [running EXCEPT ![w] = @ \ {b}]
           rep == [reply EXCEPT ![a] = b]
<1>1. /\ active \in [Worker -> Assignment \cup {NoAssignment}]
      /\ status \in [Assignment -> Status]
      /\ issued \in 0 .. MaxAssign
      /\ a \in Assignment
  BY DEF Books, Typed
<1>2. /\ running \in [Worker -> SUBSET Assignment]
      /\ reply \in [Assignment -> Assignment \cup {NoAssignment}]
      /\ b \in Assignment
  BY DEF Answers
<1>3. status[a] = "open" /\ reply[a] = NoAssignment
  <2>1. status[a] = "open"
    BY <1>1 DEF Books, Placed
  <2> QED BY <1>1, <2>1 DEF Answers
<1>4. /\ b <= issued /\ status[b] # "MAX_PENDING"
      /\ \A u \in Worker : b \in running[u] => u = w
      /\ \A c \in Assignment : reply[c] # b
      /\ b <= a
      /\ status[b] = "open" => a = b
  BY DEF Answers
<1>5. b # a => b < a /\ status[b] \in Failure \cup {"RESOLVED"}
  <2>1. status[b] # "unissued"
    BY <1>1, <1>2, <1>4 DEF Books, Numbered, Assignment
  <2> QED BY <1>1, <1>2, <1>4, <2>1 DEF Status, Assignment
<1>6. /\ act[w] = NoAssignment
      /\ \A v \in Worker : v # w => act[v] = active[v]
      /\ st[a] = "RESOLVED"
      /\ \A c \in Assignment : c # a => st[c] = status[c]
  BY <1>1
<1>7. /\ run \in [Worker -> SUBSET Assignment]
      /\ run[w] = running[w] \ {b}
      /\ \A v \in Worker : v # w => run[v] = running[v]
  BY <1>2
<1>8. /\ rep \in [Assignment -> Assignment \cup {NoAssignment}]
      /\ rep[a] = b
      /\ \A c \in Assignment : c # a => rep[c] = reply[c]
  BY <1>1, <1>2
<1> HIDE DEF a, act, st, run, rep
<1>9. ASSUME NEW v \in Worker, NEW d \in run[v]
      PROVE  /\ d <= issued /\ st[d] # "MAX_PENDING" /\ d \notin Range(pending)
             /\ \A u \in Worker : d \in run[u] => u = v
             /\ \A c \in Assignment : rep[c] # d
             /\ act[v] # NoAssignment => d <= act[v]
             /\ st[d] = "open" => act[v] = d
  <2>1. d \in running[v] /\ d \in Assignment /\ d # b
    BY <1>4, <1>7
  <2>2. /\ d <= issued /\ status[d] # "MAX_PENDING" /\ d \notin Range(pending)
        /\ \A u \in Worker : d \in running[u] => u = v
        /\ \A c \in Assignment : reply[c] # d
        /\ active[v] # NoAssignment => d <= active[v]
        /\ status[d] = "open" => active[v] = d
    BY <2>1 DEF Answers
  <2>3. \A u \in Worker : d \in run[u] => u = v
    BY <1>7, <2>2
  <2>4. \A c \in Assignment : rep[c] # d
    BY <1>8, <2>1, <2>2
  <2>5. st[d] = "open" => act[v] = d
    BY <1>6, <2>1, <2>2 DEF a
  <2> QED BY <1>6, <2>1, <2>2, <2>3, <2>4, <2>5
<1>10. ASSUME NEW c \in Assignment
       PROVE  /\ rep[c] # NoAssignment <=> st[c] = "RESOLVED"
              /\ rep[c] \notin {NoAssignment, c} =>
                    rep[c] < c /\ st[rep[c]] \in Failure \cup {"RESOLVED"}
  <2>1. CASE c = a
    <3>1. b # NoAssignment
      BY <1>2 DEF Assignment, NoAssignment
    <3> QED BY <1>2, <1>5, <1>6, <1>8, <2>1, <3>1
  <2>2. CASE c # a
    <3>1. /\ reply[c] # NoAssignment <=> status[c] = "RESOLVED"
          /\ reply[c] \notin {NoAssignment, c} =>
                reply[c] < c /\ status[reply[c]] \in Failure \cup {"RESOLVED"}
          /\ reply[c] \in Assignment \cup {NoAssignment}
      BY DEF Answers
    <3> QED BY <1>6, <1>8, <2>2, <3>1
  <2> QED BY <2>1, <2>2
<1>11. \A c, d \in Assignment : rep[c] = rep[d] /\ rep[c] # NoAssignment => c = d
  <2>1. \A c, d \in Assignment : reply[c] = reply[d] /\ reply[c] # NoAssignment => c = d
    BY DEF Answers
  <2> QED BY <1>4, <1>8, <2>1
<1>12. Answers(act, pending, run, st, issued, rep)
  BY <1>7, <1>8, <1>9, <1>10, <1>11 DEF Answers
<1> QED BY <1>12 DEF act, st, run, rep, a

\* Books do not mind a worker that dies or starts.
LEMMA LifeKeepsBooks ==
    ASSUME Books(idle, active, pending, status, issued, life),
           NEW lf \in [Worker -> Life],
           \A v \in Worker :
              /\ lf[v] \in {"unborn", "starting"} => life[v] \in {"unborn", "starting"}
              /\ lf[v] = "up" => life[v] = "up"
    PROVE  Books(idle, active, pending, status, issued, lf)
<1>1. Typed(idle, active, pending, status, issued, lf)
  BY DEF Books, Typed
<1>2. Born(idle, active, lf)
  BY DEF Books, Born
<1> QED BY <1>1, <1>2 DEF Books

\* deactivate, of a worker whose assignment has just been settled.
LEMMA DeactivateKeepsInv ==
    ASSUME NEW w \in Worker, active[w] # NoAssignment,
           NEW outcome \in Failure \cup {"RESOLVED"}, NEW run,
           Books(idle, active, pending, status, issued, life'),
           Answers([active EXCEPT ![w] = NoAssignment], pending, run,
                   status', issued', reply'),
           status' = [status EXCEPT ![active[w]] = outcome],
           issued' = issued,
           Deactivate(w, run)
    PROVE  /\ Books(idle', active', pending', status', issued', life')
           /\ Moving(idle', active', pending', status', issued')
           /\ Answers(active', pending', running', status', issued', reply')
<1> DEFINE idl == Append(idle, w)
           act == [active EXCEPT ![w] = NoAssignment]
<1>1. Books(idl, act, pending, status', issued', life')
  BY SettleKeepsBooks
<1>2. Activate(idl, act, pending, run)
  BY DEF Deactivate
<1>3. Typed(idl, act, pending, status', issued', life')
  BY <1>1 DEF Books
<1>4. idl # <<>>
  BY AppendProperties DEF Books, Typed
<1>5. Answers(act, pending, run, status', issued', reply')
  OBVIOUS
<1> HIDE DEF idl, act
<1>6. Books(idle', active', pending', status', issued', life')
  BY <1>1, <1>2, ActivateKeepsBooks
<1>7. \/ \E v \in Worker : active'[v] # NoAssignment
      \/ pending' = <<>> /\ idle' # <<>>
  BY <1>2, <1>3, <1>4, ActivateMoves
<1>8. Moving(idle', active', pending', status', issued')
  BY <1>7 DEF Moving
<1>9. Answers(active', pending', running', status', issued', reply')
  BY <1>1, <1>2, <1>5, ActivateKeepsAnswers
<1> QED BY <1>6, <1>8, <1>9

\* deactivateWorkerWithError, whatever has become of the worker.
LEMMA RejectKeepsInv ==
    ASSUME NEW w \in Worker, NEW err \in Failure, NEW run,
           Books(idle, active, pending, status, issued, life'),
           Moving(idle, active, pending, status, issued),
           Answers(active, pending, run, status, issued, reply),
           DeactivateWorkerWithError(w, err, run)
    PROVE  /\ Books(idle', active', pending', status', issued', life')
           /\ Moving(idle', active', pending', status', issued')
           /\ Answers(active', pending', running', status', issued', reply')
<1>1. CASE active[w] = NoAssignment
  BY <1>1 DEF DeactivateWorkerWithError, promises
<1>2. CASE active[w] # NoAssignment
  <2>1. /\ status' = [status EXCEPT ![active[w]] = err]
        /\ issued' = issued
        /\ reply' = reply
        /\ Deactivate(w, run)
    BY <1>2 DEF DeactivateWorkerWithError
  <2>2. Answers([active EXCEPT ![w] = NoAssignment], pending, run,
                status', issued', reply')
    BY <1>2, <2>1, RejectKeepsAnswers
  <2> QED BY <1>2, <2>1, <2>2, DeactivateKeepsInv
<1> QED BY <1>1, <1>2

\* deactivateWorker, with the answer to any assignment.
LEMMA ResolveKeepsInv ==
    ASSUME NEW w \in Worker, NEW b \in running[w],
           Books(idle, active, pending, status, issued, life'),
           Moving(idle, active, pending, status, issued),
           Answers(active, pending, running, status, issued, reply),
           DeactivateWorker(w, b, [running EXCEPT ![w] = @ \ {b}])
    PROVE  /\ Books(idle', active', pending', status', issued', life')
           /\ Moving(idle', active', pending', status', issued')
           /\ Answers(active', pending', running', status', issued', reply')
<1> DEFINE run == [running EXCEPT ![w] = @ \ {b}]
<1>1. CASE active[w] = NoAssignment
  <2>1. /\ run \in [Worker -> SUBSET Assignment]
        /\ \A v \in Worker : run[v] \subseteq running[v]
    BY DEF Answers
  <2>2. Answers(active, pending, run, status, issued, reply)
    BY <2>1, LossKeepsAnswers
  <2> QED BY <1>1, <2>2 DEF DeactivateWorker, promises
<1>2. CASE active[w] # NoAssignment
  <2>1. /\ status' = [status EXCEPT ![active[w]] = "RESOLVED"]
        /\ reply' = [reply EXCEPT ![active[w]] = b]
        /\ issued' = issued
        /\ Deactivate(w, run)
    BY <1>2 DEF DeactivateWorker
  <2>2. Answers([active EXCEPT ![w] = NoAssignment], pending, run,
                status', issued', reply')
    BY <1>2, <2>1, ResolveKeepsAnswers
  <2> QED BY <1>2, <2>1, <2>2, DeactivateKeepsInv
<1> QED BY <1>1, <1>2

\* A new assignment joins the queue: the books are in order before activate.
LEMMA AcceptKeepsBooks ==
    ASSUME Books(idle, active, pending, status, issued, life), Accepts
    PROVE  Books(idle, active, Append(pending, issued + 1), status', issued', life)
<1> DEFINE a == issued + 1
           pend == Append(pending, a)
<1>1. /\ idle \in Seq(Worker)
      /\ active \in [Worker -> Assignment \cup {NoAssignment}]
      /\ pending \in Seq(Assignment)
      /\ status \in [Assignment -> Status]
      /\ issued \in 0 .. MaxAssign
      /\ life \in [Worker -> Life]
  BY DEF Books, Typed
<1>2. /\ issued' = a
      /\ issued < MaxAssign
      /\ status' = [status EXCEPT ![a] = "open"]
  BY DEF Accepts, Assigns
<1>3. /\ MaxAssign \in Nat
      /\ a \in Assignment
      /\ a \in 0 .. MaxAssign
      /\ a > issued
  BY <1>1, <1>2, BoundAssumption DEF Assignment
<1>4. /\ status' \in [Assignment -> Status]
      /\ status'[a] = "open"
      /\ \A b \in Assignment : b # a => status'[b] = status[b]
  BY <1>1, <1>2, <1>3 DEF Status
<1>5. status[a] = "unissued"
  BY <1>3 DEF Books, Numbered
<1>6. a \notin Range(pending) /\ \A v \in Worker : active[v] # a
  BY <1>3, <1>5 DEF Books, Placed
<1>7. pend \in Seq(Assignment) /\ Range(pend) = Range(pending) \cup {a}
  BY <1>1, <1>3, AppendProperties, RangeAppend
<1>8. Range(pending) \subseteq Assignment
  BY <1>1, LenProperties DEF Range
<1>9. \A b \in Range(pending) : b < a
  <2>1. ASSUME NEW b \in Range(pending) PROVE b < a
    <3>1. b \in Assignment /\ status[b] = "open"
      BY <1>8 DEF Books, Placed
    <3>2. ~(b > issued)
      BY <3>1 DEF Books, Numbered
    <3> QED BY <1>1, <1>3, <3>1, <3>2 DEF Assignment
  <2> QED BY <2>1
<1>10. Ascending(pend)
  BY <1>1, <1>3, <1>9, AscendingAppend DEF Books
<1> HIDE DEF a, pend
<1>11. Typed(idle, active, pend, status', issued', life)
  BY <1>1, <1>2, <1>3, <1>4, <1>7 DEF Typed
<1>12. Numbered(status', issued')
  <2>1. ASSUME NEW b \in Assignment PROVE status'[b] = "unissued" <=> b > issued'
    <3>1. CASE b = a
      BY <3>1, <1>2, <1>3, <1>4
    <3>2. CASE b # a
      <4>1. status'[b] = status[b]
        BY <3>2, <1>4
      <4>2. status[b] = "unissued" <=> b > issued
        BY DEF Books, Numbered
      <4>3. b > issued <=> b > a
        BY <3>2, <1>1, <1>3 DEF Assignment, a
      <4> QED BY <4>1, <4>2, <4>3, <1>2
    <3> QED BY <3>1, <3>2
  <2> QED BY <2>1 DEF Numbered
<1>13. Placed(active, pend, status')
  BY <1>3, <1>4, <1>6, <1>7 DEF Books, Placed
<1>14. Apart(active, pend)
  BY <1>6, <1>7 DEF Books, Apart
<1>15. Older(pend, status', issued')
  <2>1. ASSUME NEW c \in Assignment, NEW b \in Range(pend),
               c <= issued', status'[c] # "MAX_PENDING", c \notin Range(pend)
        PROVE  c < b
    <3>1. c # a /\ c \notin Range(pending)
      BY <1>7, <2>1
    <3>2. c <= issued /\ c < a
      BY <1>1, <1>2, <2>1, <3>1 DEF Assignment, a
    <3>3. status[c] # "MAX_PENDING"
      BY <1>4, <2>1, <3>1
    <3> QED BY <1>7, <3>1, <3>2, <3>3 DEF Books, Older
  <2> QED BY <2>1 DEF Older
<1>16. Books(idle, active, pend, status', issued', life)
  BY <1>10, <1>11, <1>12, <1>13, <1>14, <1>15 DEF Books
<1> QED BY <1>16 DEF pend, a

\* A new assignment, queued or refused, takes part in no answer.
LEMMA NewKeepsAnswers ==
    ASSUME Typed(idle, active, pending, status, issued, life),
           Numbered(status, issued),
           issued < MaxAssign,
           Answers(active, pending, running, status, issued, reply),
           NEW how \in {"open", "MAX_PENDING"},
           NEW pend, Range(pend) \subseteq Range(pending) \cup {issued + 1}
    PROVE  Answers(active, pend, running, [status EXCEPT ![issued + 1] = how],
                   issued + 1, reply)
<1> DEFINE a == issued + 1
           st == [status EXCEPT ![a] = how]
<1>1. /\ issued \in Nat
      /\ a \in Assignment
      /\ status \in [Assignment -> Status]
  BY BoundAssumption DEF Typed, Assignment
<1>2. status[a] = "unissued"
  BY <1>1 DEF Numbered
<1>3. /\ st[a] = how
      /\ \A b \in Assignment : b # a => st[b] = status[b]
  BY <1>1
<1> HIDE DEF st
<1>4. ASSUME NEW w \in Worker, NEW b \in running[w]
      PROVE  /\ b <= a /\ st[b] # "MAX_PENDING" /\ b \notin Range(pend)
             /\ \A v \in Worker : b \in running[v] => v = w
             /\ \A c \in Assignment : reply[c] # b
             /\ active[w] # NoAssignment => b <= active[w]
             /\ st[b] = "open" => active[w] = b
  <2>1. b \in Assignment
    BY DEF Answers
  <2>2. /\ b <= issued /\ status[b] # "MAX_PENDING" /\ b \notin Range(pending)
        /\ \A v \in Worker : b \in running[v] => v = w
        /\ \A c \in Assignment : reply[c] # b
        /\ active[w] # NoAssignment => b <= active[w]
        /\ status[b] = "open" => active[w] = b
    BY DEF Answers
  <2>3. b # a /\ b <= a
    BY <1>1, <2>1, <2>2 DEF Assignment
  <2> QED BY <1>3, <2>1, <2>2, <2>3
<1>5. ASSUME NEW c \in Assignment
      PROVE  /\ reply[c] # NoAssignment <=> st[c] = "RESOLVED"
             /\ reply[c] \notin {NoAssignment, c} =>
                   reply[c] < c /\ st[reply[c]] \in Failure \cup {"RESOLVED"}
  <2>1. /\ reply[c] # NoAssignment <=> status[c] = "RESOLVED"
        /\ reply[c] \notin {NoAssignment, c} =>
              reply[c] < c /\ status[reply[c]] \in Failure \cup {"RESOLVED"}
        /\ reply[c] \in Assignment \cup {NoAssignment}
    BY DEF Answers
  <2> QED BY <1>1, <1>2, <1>3, <2>1 DEF Failure
<1>6. Answers(active, pend, running, st, a, reply)
  BY <1>4, <1>5 DEF Answers
<1> QED BY <1>6 DEF st

-----------------------------------------------------------------------------
(* The handlers both pools share.                                          *)

\* The constructor spawning its first worker keeps the invariant: a worker that
\* is starting holds nothing and is in no queue.
LEMMA BootKeepsInv == ASSUME PoolInv, Boot PROVE PoolInv'
<1>1. PICK w \in Worker : SpawnWorker(w) /\ firstWorker' = w
  BY DEF Boot
<1>2. /\ life[w] = "unborn"
      /\ life' = [life EXCEPT ![w] = "starting"]
      /\ alive' = alive + 1
  BY <1>1 DEF SpawnWorker
<1>3. UNCHANGED <<idle, active, pending, running, issued, status, reply, online, destroyed>>
  BY DEF Boot, queues, promises
<1>4. life \in [Worker -> Life]
  BY DEF PoolInv, Books, Typed
<1>5. life' \in [Worker -> Life]
  BY <1>2, <1>4 DEF Life
<1>6. Books(idle, active, pending, status, issued, life')
  BY <1>2, <1>4, <1>5, LifeKeepsBooks DEF PoolInv
<1> QED BY <1>1, <1>2, <1>3, <1>6 DEF PoolInv

\* The first message of a worker keeps it: the worker joins the idle ones, which
\* it was not among.
LEMMA WorkerOnlineKeepsInv ==
    ASSUME PoolInv, NEW w \in Worker, WorkerOnline(w) PROVE PoolInv'
<1>1. /\ life[w] = "starting"
      /\ life' = [life EXCEPT ![w] = "up"]
      /\ idle' = Append(idle, w)
      /\ online' = (online \/ w = firstWorker)
      /\ UNCHANGED <<active, pending, running, issued, status, reply,
                     firstWorker, alive, destroyed>>
  BY DEF WorkerOnline, promises
<1>2. Books(idle, active, pending, status, issued, life)
  BY DEF PoolInv
<1>3. /\ idle \in Seq(Worker)
      /\ life \in [Worker -> Life]
  BY <1>2 DEF Books, Typed
<1>4. w \notin Range(idle) /\ active[w] = NoAssignment
  BY <1>1, <1>2 DEF Books, Born
<1>5. idle' \in Seq(Worker) /\ idle' # <<>> /\ Range(idle') = Range(idle) \cup {w}
  BY <1>1, <1>3, AppendProperties, RangeAppend
<1>6. /\ life' \in [Worker -> Life]
      /\ life'[w] = "up"
      /\ \A v \in Worker : v # w => life'[v] = life[v]
  BY <1>1, <1>3 DEF Life
<1>7. Typed(idle', active, pending, status, issued, life')
  BY <1>2, <1>5, <1>6 DEF Books, Typed
<1>8. Distinct(idle')
  BY <1>1, <1>2, <1>3, <1>4, DistinctAppend DEF Books
<1>9. Free(idle', active) /\ Born(idle', active, life')
  BY <1>2, <1>4, <1>5, <1>6 DEF Books, Free, Born
<1>10. Books(idle', active, pending, status, issued, life')
  BY <1>2, <1>7, <1>8, <1>9 DEF Books
<1>11. Moving(idle', active, pending, status, issued)
  BY <1>5 DEF PoolInv, Moving
<1>12. online' \in BOOLEAN
  BY <1>1
<1> QED BY <1>1, <1>10, <1>11, <1>12 DEF PoolInv

\* A refused assignment keeps it: no queue changes, and its promise is settled.
LEMMA AssignRefusedKeepsInv == ASSUME PoolInv, AssignRefused PROVE PoolInv'
<1>1. /\ issued < MaxAssign
      /\ issued' = issued + 1
      /\ status' = [status EXCEPT ![issued + 1] = "MAX_PENDING"]
      /\ UNCHANGED <<idle, active, pending, running, reply, firstWorker, online,
                     alive, life, destroyed>>
  BY DEF AssignRefused, Assigns, queues, workers, startup
<1> DEFINE a == issued + 1
<1>2. Books(idle, active, pending, status, issued, life)
  BY DEF PoolInv
<1>3. /\ issued \in Nat
      /\ a \in Assignment
      /\ a \in 0 .. MaxAssign
      /\ status \in [Assignment -> Status]
      /\ pending \in Seq(Assignment)
      /\ Range(pending) \subseteq Assignment
  BY <1>1, <1>2, BoundAssumption, LenProperties DEF Books, Typed, Assignment, Range
<1>4. /\ status' \in [Assignment -> Status]
      /\ status'[a] = "MAX_PENDING"
      /\ \A b \in Assignment : b # a => status'[b] = status[b]
  BY <1>1, <1>3 DEF Status
<1>5. status[a] = "unissued"
  BY <1>2, <1>3 DEF Books, Numbered
<1>6. Typed(idle, active, pending, status', issued', life)
  BY <1>1, <1>2, <1>3, <1>4 DEF Books, Typed
<1>7. Numbered(status', issued')
  <2>1. ASSUME NEW b \in Assignment PROVE status'[b] = "unissued" <=> b > issued'
    <3>1. CASE b = a
      BY <3>1, <1>1, <1>3, <1>4
    <3>2. CASE b # a
      <4>1. b > issued <=> b > a
        BY <3>2, <1>3 DEF Assignment
      <4> QED BY <3>2, <4>1, <1>1, <1>2, <1>4 DEF Books, Numbered
    <3> QED BY <3>1, <3>2
  <2> QED BY <2>1 DEF Numbered
<1>8. Placed(active, pending, status')
  <2>1. ASSUME NEW b \in Assignment
        PROVE  status'[b] = "open" <=> b \in Range(pending) \/ \E v \in Worker : active[v] = b
    <3>1. status[b] = "open" <=> b \in Range(pending) \/ \E v \in Worker : active[v] = b
      BY <1>2 DEF Books, Placed
    <3> QED BY <3>1, <1>4, <1>5
  <2> QED BY <2>1 DEF Placed
<1>9. \A c \in Assignment :
         c <= issued' /\ status'[c] # "MAX_PENDING" =>
            c <= issued /\ status[c] # "MAX_PENDING"
  BY <1>1, <1>3, <1>4 DEF Assignment
<1>10. Older(pending, status', issued')
  BY <1>2, <1>9 DEF Books, Older
<1>11. Books(idle, active, pending, status', issued', life)
  BY <1>2, <1>6, <1>7, <1>8, <1>10 DEF Books
<1>12. Moving(idle, active, pending, status', issued')
  BY <1>9 DEF PoolInv, Moving
<1>13. Answers(active, pending, running, status', issued', reply)
  BY <1>1, <1>2, NewKeepsAnswers DEF PoolInv, Books
<1> QED BY <1>1, <1>11, <1>12, <1>13 DEF PoolInv

\* An accepted assignment: the invariant of the queues before activate.
LEMMA AcceptKeepsInv ==
    ASSUME PoolInv, Accepts
    PROVE  /\ Books(idle, active, Append(pending, issued + 1), status', issued', life)
           /\ Answers(active, Append(pending, issued + 1), running, status', issued', reply')
           /\ (\E c \in Assignment :
                  /\ c <= issued' /\ status'[c] # "MAX_PENDING"
                  /\ c \notin Range(Append(pending, issued + 1)))
                => \/ \E w \in Worker : active[w] # NoAssignment
                   \/ idle # <<>>
           /\ UNCHANGED <<reply, firstWorker, online, destroyed>>
<1> DEFINE a == issued + 1
           pend == Append(pending, a)
<1>1. Books(idle, active, pending, status, issued, life)
  BY DEF PoolInv
<1>2. Books(idle, active, pend, status', issued', life)
  BY <1>1, AcceptKeepsBooks
<1>3. /\ issued < MaxAssign
      /\ issued' = a
      /\ status' = [status EXCEPT ![a] = "open"]
      /\ UNCHANGED <<reply, firstWorker, online, destroyed>>
  BY DEF Accepts, Assigns, startup
<1>4. /\ issued \in Nat
      /\ a \in Assignment
      /\ pending \in Seq(Assignment)
      /\ status \in [Assignment -> Status]
  BY <1>1, <1>3, BoundAssumption DEF Books, Typed, Assignment
<1>5. Range(pend) = Range(pending) \cup {a}
  BY <1>4, RangeAppend
<1>6. Answers(active, pend, running, status', issued', reply)
  BY <1>1, <1>3, <1>5, NewKeepsAnswers DEF PoolInv, Books
<1>7. ASSUME NEW c \in Assignment,
             c <= issued', status'[c] # "MAX_PENDING", c \notin Range(pend)
      PROVE  c <= issued /\ status[c] # "MAX_PENDING" /\ c \notin Range(pending)
  <2>1. c # a /\ c \notin Range(pending)
    BY <1>5, <1>7
  <2> QED BY <2>1, <1>3, <1>4, <1>7 DEF Assignment
<1> QED BY <1>2, <1>3, <1>6, <1>7 DEF PoolInv, Moving

\* An assignment accepted with no spawn keeps it, taken up at once or not.
LEMMA AssignAcceptedKeepsInv == ASSUME PoolInv, AssignAccepted PROVE PoolInv'
<1> DEFINE pend == Append(pending, issued + 1)
<1>1. /\ Accepts
      /\ UNCHANGED <<alive, life>>
      /\ Activate(idle, active, pend, running)
  BY DEF AssignAccepted, workers
<1>2. /\ Books(idle, active, pend, status', issued', life')
      /\ Answers(active, pend, running, status', issued', reply')
      /\ (\E c \in Assignment :
             c <= issued' /\ status'[c] # "MAX_PENDING" /\ c \notin Range(pend))
          => (\E w \in Worker : active[w] # NoAssignment) \/ idle # <<>>
      /\ UNCHANGED <<reply, firstWorker, online, destroyed>>
  BY <1>1, AcceptKeepsInv
<1> HIDE DEF pend
<1>3. Books(idle', active', pending', status', issued', life')
  BY <1>1, <1>2, ActivateKeepsBooks
<1>4. Answers(active', pending', running', status', issued', reply')
  BY <1>1, <1>2, ActivateKeepsAnswers
<1>5. Moving(idle', active', pending', status', issued')
  <2>1. CASE idle # <<>>
    <3>1. Typed(idle, active, pend, status', issued', life')
      BY <1>2 DEF Books
    <3> QED BY <2>1, <3>1, <1>1, ActivateMoves DEF Moving
  <2>2. CASE idle = <<>>
    <3>1. active' = active /\ pending' = pend
      BY <2>2, <1>1 DEF Activate
    <3> QED BY <2>2, <3>1, <1>2 DEF Moving
  <2> QED BY <2>1, <2>2
<1> QED BY <1>1, <1>2, <1>3, <1>4, <1>5 DEF PoolInv

\* An assignment that spawns a worker keeps it: the assignment waits.
LEMMA AssignSpawnsKeepsInv == ASSUME PoolInv, AssignSpawns PROVE PoolInv'
<1> DEFINE pend == Append(pending, issued + 1)
<1>1. PICK w \in Worker : SpawnWorker(w)
  BY DEF AssignSpawns
<1>2. /\ Accepts
      /\ idle = <<>>
      /\ pending' = pend
      /\ UNCHANGED <<idle, active, running>>
  BY DEF AssignSpawns
<1>3. /\ Books(idle, active, pend, status', issued', life)
      /\ Answers(active, pend, running, status', issued', reply')
      /\ (\E c \in Assignment :
             c <= issued' /\ status'[c] # "MAX_PENDING" /\ c \notin Range(pend))
          => (\E v \in Worker : active[v] # NoAssignment) \/ idle # <<>>
      /\ UNCHANGED <<reply, firstWorker, online, destroyed>>
  BY <1>2, AcceptKeepsInv
<1>4. /\ life[w] = "unborn"
      /\ life' = [life EXCEPT ![w] = "starting"]
      /\ alive' = alive + 1
  BY <1>1 DEF SpawnWorker
<1> HIDE DEF pend
<1>5. life \in [Worker -> Life]
  BY DEF PoolInv, Books, Typed
<1>6. Books(idle, active, pend, status', issued', life')
  <2>1. life' \in [Worker -> Life]
    BY <1>4, <1>5 DEF Life
  <2>2. Typed(idle, active, pend, status', issued', life')
    BY <1>3, <2>1 DEF Books, Typed
  <2>3. Born(idle, active, life')
    BY <1>3, <1>4, <1>5 DEF Books, Born
  <2> QED BY <1>3, <2>2, <2>3 DEF Books
<1>7. Moving(idle, active, pend, status', issued')
  BY <1>2, <1>3 DEF Moving
<1> QED BY <1>2, <1>3, <1>4, <1>6, <1>7 DEF PoolInv

\* The answer of a worker keeps it, whether or not the worker is active.
LEMMA ReplyKeepsInv == ASSUME PoolInv, NEW w \in Worker, Reply(w) PROVE PoolInv'
<1>1. UNCHANGED <<firstWorker, online, alive, life, destroyed>>
  BY DEF Reply, startup, workers
<1>2. PICK b \in running[w] : DeactivateWorker(w, b, [running EXCEPT ![w] = @ \ {b}])
  BY DEF Reply
<1>3. /\ Books(idle', active', pending', status', issued', life')
      /\ Moving(idle', active', pending', status', issued')
      /\ Answers(active', pending', running', status', issued', reply')
  BY <1>1, <1>2, ResolveKeepsInv DEF PoolInv
<1> QED BY <1>1, <1>3 DEF PoolInv

\* The timer of an assignment keeps it: the worker is idle again or active with
\* the next assignment.
LEMMA TimeoutKeepsInv == ASSUME PoolInv, NEW w \in Worker, Timeout(w) PROVE PoolInv'
<1>1. /\ UNCHANGED <<firstWorker, online, alive, life, destroyed>>
      /\ DeactivateWorkerWithError(w, "TIMEOUT", running)
  BY DEF Timeout, startup, workers
<1>2. /\ Books(idle', active', pending', status', issued', life')
      /\ Moving(idle', active', pending', status', issued')
      /\ Answers(active', pending', running', status', issued', reply')
  BY <1>1, RejectKeepsInv DEF PoolInv, Failure
<1> QED BY <1>1, <1>2 DEF PoolInv

\* destroy keeps it: it sends signals and changes no queue.
LEMMA DestroyKeepsInv == ASSUME PoolInv, Destroy PROVE PoolInv'
BY DEF PoolInv, Destroy, queues, promises, startup, workers

\* Every handler both pools share keeps the invariant.
LEMMA SharedHandlerKeepsInv == ASSUME PoolInv, SharedHandler PROVE PoolInv'
BY BootKeepsInv, WorkerOnlineKeepsInv, AssignRefusedKeepsInv, AssignAcceptedKeepsInv,
   AssignSpawnsKeepsInv, ReplyKeepsInv, TimeoutKeepsInv, DestroyKeepsInv
   DEF SharedHandler

\* Feeding the error limiter keeps its own invariant: a host that goes on has
\* fewer records than the threshold.
LEMMA FeedKeepsInv == ASSUME LimiterInv, ~halted, Feed PROVE LimiterInv'
<1>1. Threshold \in Nat \ {0}
  BY BoundAssumption
<1>2. CASE ~ErrorHandled /\ halted' = TRUE /\ UNCHANGED <<initPeriod, records>>
  BY <1>2 DEF LimiterInv
<1>3. CASE ErrorHandled
  <2>1. PICK kept \in 0 .. records :
           /\ records' = kept + 1
           /\ halted' = (initPeriod \/ kept + 1 >= Threshold)
    BY <1>3 DEF Feed
  <2>2. initPeriod' = initPeriod
    BY DEF Feed
  <2>3. records \in 0 .. Threshold /\ records < Threshold /\ initPeriod \in BOOLEAN
    BY DEF LimiterInv
  <2>4. kept \in Nat /\ kept < Threshold
    BY <1>1, <2>3
  <2>5. records' \in 0 .. Threshold
    BY <1>1, <2>1, <2>4
  <2>6. ~halted' => records' < Threshold
    <3>1. kept + 1 >= Threshold => halted'
      BY <2>1, Zenon
    <3>2. ~(kept + 1 >= Threshold) => kept + 1 < Threshold
      BY <1>1, <2>4
    <3> QED BY <2>1, <3>1, <3>2, Zenon
  <2>7. halted' \in BOOLEAN
    BY <2>1
  <2> QED BY <2>2, <2>3, <2>5, <2>6, <2>7 DEF LimiterInv
<1> QED BY <1>2, <1>3 DEF Feed

\* The end of the initial period keeps both invariants.
LEMMA InitPeriodEndsKeepsInv ==
    ASSUME PoolInv, LimiterInv, InitPeriodEnds PROVE PoolInv' /\ LimiterInv'
BY DEF PoolInv, LimiterInv, InitPeriodEnds, queues, promises, startup, workers

\* The end of the host keeps them: it changes no queue.
LEMMA HostEndsKeepsInv ==
    ASSUME PoolInv, LimiterInv, HostEnds PROVE PoolInv' /\ LimiterInv'
BY DEF PoolInv, LimiterInv, HostEnds, queues, promises, startup, workers

\* A worker exits and another is created: life and its count.
LEMMA ExitKeepsBooks ==
    ASSUME PoolInv, NEW w \in Worker, life[w] \in Live, ExitAndRespawn(w)
    PROVE  /\ Books(idle, active, pending, status, issued, life')
           /\ alive' \in Nat
<1>1. PICK n \in Worker :
         /\ life[n] = "unborn"
         /\ life' = [life EXCEPT ![w] = "dead", ![n] = "starting"]
  BY DEF ExitAndRespawn
<1>2. life \in [Worker -> Life]
  BY DEF PoolInv, Books, Typed
<1>3. life' \in [Worker -> Life]
  BY <1>1, <1>2 DEF Life
<1>4. Books(idle, active, pending, status, issued, life')
  BY <1>1, <1>2, <1>3, LifeKeepsBooks DEF PoolInv, Live
<1>5. alive' = (alive - 1) + 1
  BY DEF ExitAndRespawn
<1> QED BY <1>4, <1>5 DEF PoolInv

\* A pool that was just constructed satisfies both invariants.
LEMMA InitEstablishesInv == ASSUME Init PROVE PoolInv /\ LimiterInv
<1>1. Range(<<>>) = {}
  BY DEF Range
<1>2. Typed(idle, active, pending, status, issued, life)
  BY BoundAssumption DEF Init, Typed, Status, Life
<1>3. /\ Numbered(status, issued)
      /\ Placed(active, pending, status)
  BY <1>1 DEF Init, Numbered, Placed, Assignment, NoAssignment
<1>4. /\ Apart(active, pending)
      /\ Single(active)
      /\ Older(pending, status, issued)
      /\ Free(idle, active)
      /\ Born(idle, active, life)
  BY <1>1 DEF Init, Apart, Single, Older, Free, Born
<1>5. /\ Ascending(pending)
      /\ Distinct(idle)
  BY DEF Init, Ascending, Distinct
<1>6. Answers(active, pending, running, status, issued, reply)
  BY DEF Init, Answers
<1>7. Moving(idle, active, pending, status, issued)
  BY DEF Init, Moving, Assignment
<1>8. Books(idle, active, pending, status, issued, life)
  BY <1>2, <1>3, <1>4, <1>5 DEF Books
<1>9. LimiterInv
  <2>1. records \in 0 .. Threshold /\ records < Threshold
    BY BoundAssumption DEF Init
  <2>2. initPeriod \in BOOLEAN /\ halted = FALSE
    BY DEF Init
  <2> QED BY <2>1, <2>2 DEF LimiterInv
<1> QED BY <1>6, <1>7, <1>8, <1>9 DEF Init, PoolInv

-----------------------------------------------------------------------------
(* What the invariant says of the properties.                              *)

\* The invariants of the pool and of the limiter give the type invariant.
LEMMA InvImpliesTypeOK == ASSUME PoolInv, LimiterInv PROVE TypeOK
BY DEF PoolInv, LimiterInv, Books, Typed, Answers, TypeOK

\* The invariant gives: open assignments are those waiting or held.
LEMMA InvImpliesAccounted == ASSUME PoolInv PROVE Accounted
<1>1. Books(idle, active, pending, status, issued, life)
  BY DEF PoolInv
<1>2. ASSUME NEW a \in Assignment
      PROVE  status[a] = "open" <=> a \in Waiting \cup Underway
  <2>1. a # NoAssignment
    BY DEF Assignment, NoAssignment
  <2> QED BY <1>1, <2>1 DEF Books, Placed, Waiting, Underway
<1>3. Waiting \cap Underway = {}
  BY <1>1 DEF Books, Apart, Waiting, Underway
<1>4. \A v, w \in Worker : active[v] = active[w] /\ active[v] # NoAssignment => v = w
  BY <1>1 DEF Books, Single
<1> QED BY <1>2, <1>3, <1>4 DEF Accounted

\* The invariant gives: assignments are taken up in order.
LEMMA InvImpliesInOrder == ASSUME PoolInv PROVE InOrder
BY DEF PoolInv, Books, Ascending, Older, InOrder, TakenUp, Waiting

\* The invariant gives: a worker is idle once or active.
LEMMA InvImpliesHeldOnce == ASSUME PoolInv PROVE HeldOnce
BY DEF PoolInv, Books, Distinct, Free, Born, HeldOnce, Queued

\* The invariant gives: whose answer a promise may be resolved with.
LEMMA InvImpliesAnswerFate == ASSUME PoolInv PROVE AnswerFate
BY DEF PoolInv, Answers, AnswerFate

\* The invariant gives: nothing waits while no worker is active.
LEMMA InvImpliesNoStranding == ASSUME PoolInv PROVE NoStranding
<1>1. ASSUME TakenUp # {}, pending # <<>> PROVE Underway # {}
  <2>1. PICK a \in Assignment :
           a <= issued /\ status[a] # "MAX_PENDING" /\ a \notin Range(pending)
    BY <1>1 DEF TakenUp, Waiting
  <2>2. \E w \in Worker : active[w] # NoAssignment
    BY <1>1, <2>1 DEF PoolInv, Moving
  <2> QED BY <2>2 DEF Underway
<1> QED BY <1>1 DEF NoStranding

-----------------------------------------------------------------------------
(* The pool keeps its contract: what a step does to the queue, to what is  *)
(* held and to the promises is a step of AssignmentService, or nothing.    *)

Held(act) == {act[w] : w \in Worker} \ {NoAssignment}

\* activate takes up the head of the queue, and does if there is an idle worker.
LEMMA ActivateTakesUp ==
    ASSUME NEW idl, NEW act, NEW pend, NEW run, NEW st, NEW iss, NEW lf,
           Typed(idl, act, pend, st, iss, lf), Free(idl, act),
           Activate(idl, act, pend, run)
    PROVE  /\ Service!TakeUp(pend, Held(act))
           /\ idl # <<>> => pend = <<>> \/ pending' # pend
<1>1. CASE pend = <<>> \/ idl = <<>>
  BY <1>1 DEF Activate, Service!TakeUp, Underway, Held
<1>2. CASE pend # <<>> /\ idl # <<>>
  <2> DEFINE w == Head(idl)
             a == Head(pend)
  <2>1. /\ active' = [act EXCEPT ![w] = a]
        /\ pending' = Tail(pend)
    BY <1>2 DEF Activate
  <2>2. /\ Range(idl) = {w} \cup Range(Tail(idl))
        /\ w \in Worker
    BY <1>2, RangeHeadTail DEF Typed
  <2>3. a \in Assignment /\ a # NoAssignment
    <3>1. pend \in Seq(Assignment)
      BY DEF Typed
    <3>2. a \in Assignment
      BY <1>2, <3>1, RangeHeadTail
    <3> QED BY <3>2 DEF Assignment, NoAssignment
  <2>4. act[w] = NoAssignment
    BY <2>2 DEF Free
  <2>5. /\ active'[w] = a
        /\ \A v \in Worker : v # w => active'[v] = act[v]
    BY <2>1, <2>2 DEF Typed
  <2> HIDE DEF w, a
  <2>6. Underway' = Held(act) \cup {a}
    BY <2>2, <2>3, <2>4, <2>5 DEF Underway, Held
  <2>7. pending' # pend
    <3>1. Len(Tail(pend)) = Len(pend) - 1 /\ Len(pend) \in Nat
      BY <1>2, HeadTailProperties, LenProperties DEF Typed
    <3> QED BY <2>1, <3>1
  <2>8. Service!TakeUp(pend, Held(act))
    BY <1>2, <2>1, <2>6 DEF Service!TakeUp, a
  <2> QED BY <2>7, <2>8
<1> QED BY <1>1, <1>2

\* deactivate of a worker makes room for the next assignment.
LEMMA DeactivateMakesRoom ==
    ASSUME NEW w \in Worker, active[w] # NoAssignment, NEW run, NEW lf,
           Books(idle, active, pending, status, issued, lf),
           UNCHANGED issued,
           Deactivate(w, run)
    PROVE  /\ active[w] \in Assignment
           /\ active[w] \in Underway
           /\ Service!MakeRoom(active[w])
<1> DEFINE idl == Append(idle, w)
           act == [active EXCEPT ![w] = NoAssignment]
<1>1. /\ idle \in Seq(Worker)
      /\ active \in [Worker -> Assignment \cup {NoAssignment}]
  BY DEF Books, Typed
<1>2. /\ act \in [Worker -> Assignment \cup {NoAssignment}]
      /\ act[w] = NoAssignment
      /\ \A v \in Worker : v # w => act[v] = active[v]
  BY <1>1
<1>3. /\ idl \in Seq(Worker)
      /\ idl # <<>>
      /\ Range(idl) = Range(idle) \cup {w}
      /\ Range(idle) \subseteq Worker
  BY <1>1, AppendProperties, RangeAppend, LenProperties DEF Range
<1>4. Activate(idl, act, pending, run)
  BY DEF Deactivate
<1> HIDE DEF idl, act
<1>5. Typed(idl, act, pending, status, issued, lf)
  BY <1>2, <1>3 DEF Books, Typed
<1>6. Free(idl, act)
  BY <1>2, <1>3 DEF Books, Free
<1>7. Service!TakeUp(pending, Held(act)) /\ (pending = <<>> \/ pending' # pending)
  BY <1>3, <1>4, <1>5, <1>6, ActivateTakesUp
<1>8. Held(act) = Underway \ {active[w]}
  <2>1. \A v \in Worker : active[v] = active[w] => v = w
    BY DEF Books, Single
  <2> QED BY <1>2, <2>1 DEF Held, Underway
<1>9. active[w] \in Assignment /\ active[w] \in Underway
  BY <1>1 DEF Underway
<1>10. UNCHANGED issued
  OBVIOUS
<1> QED BY <1>7, <1>8, <1>9, <1>10 DEF Service!MakeRoom

\* A worker's failure rejects what it holds, if it holds anything.
LEMMA RejectIsContracted ==
    ASSUME NEW w \in Worker, NEW err \in Failure, NEW run, NEW lf,
           Books(idle, active, pending, status, issued, lf),
           DeactivateWorkerWithError(w, err, run)
    PROVE  \/ UNCHANGED <<pending, Underway, issued, status, reply>>
           \/ \E a \in Assignment : Service!Reject(a)
<1>1. CASE active[w] = NoAssignment
  BY <1>1 DEF DeactivateWorkerWithError, promises, Underway
<1>2. CASE active[w] # NoAssignment
  <2>1. /\ status' = [status EXCEPT ![active[w]] = err]
        /\ issued' = issued
        /\ reply' = reply
        /\ Deactivate(w, run)
    BY <1>2 DEF DeactivateWorkerWithError
  <2>2. /\ active[w] \in Assignment
        /\ active[w] \in Underway
        /\ Service!MakeRoom(active[w])
    BY <1>2, <2>1, DeactivateMakesRoom
  <2> QED BY <2>1, <2>2 DEF Service!Reject, Service!Failure, Failure
<1> QED BY <1>1, <1>2

\* An answer of a worker resolves what it holds, if it holds anything: by its
\* own answer or that of an older assignment, which nothing was resolved with.
LEMMA ResolveIsContracted ==
    ASSUME PoolInv, NEW w \in Worker, NEW b \in running[w], NEW run,
           DeactivateWorker(w, b, run)
    PROVE  \/ UNCHANGED <<pending, Underway, issued, status, reply>>
           \/ \E a \in Assignment : Service!Resolve(a)
<1>1. CASE active[w] = NoAssignment
  BY <1>1 DEF DeactivateWorker, promises, Underway
<1>2. CASE active[w] # NoAssignment
  <2> DEFINE a == active[w]
  <2>1. /\ status' = [status EXCEPT ![a] = "RESOLVED"]
        /\ reply' = [reply EXCEPT ![a] = b]
        /\ issued' = issued
        /\ Deactivate(w, run)
    BY <1>2 DEF DeactivateWorker
  <2>2. Books(idle, active, pending, status, issued, life)
    BY DEF PoolInv
  <2>3. a \in Assignment /\ a \in Underway /\ Service!MakeRoom(a)
    BY <1>2, <2>1, <2>2, DeactivateMakesRoom
  <2>4. /\ b \in Assignment
        /\ b <= issued /\ status[b] # "MAX_PENDING"
        /\ \A c \in Assignment : reply[c] # b
        /\ b <= a
        /\ status[b] = "open" => a = b
    BY <1>2 DEF PoolInv, Answers
  <2>5. status[b] \in Status /\ issued \in Nat
    BY <2>2, <2>4 DEF Books, Typed
  <2>6. status[b] # "unissued"
    BY <2>2, <2>4, <2>5 DEF Books, Numbered, Assignment
  <2>7. b = a \/ (b < a /\ status[b] \in Failure \cup {"RESOLVED"})
    BY <2>3, <2>4, <2>5, <2>6 DEF Status, Assignment
  <2> HIDE DEF a
  <2>8. Service!MayAnswer(a, b)
    BY <2>4, <2>7 DEF Service!MayAnswer, Service!Failure, Failure, Service!Assignment, Assignment
  <2>9. Service!Resolve(a)
    BY <2>1, <2>3, <2>4, <2>8 DEF Service!Resolve, Service!Assignment, Assignment
  <2> QED BY <2>3, <2>9
<1> QED BY <1>1, <1>2

\* What the steps of the contract are, but for the end of the host.
Contracted ==
    \/ UNCHANGED <<pending, Underway, issued, status, reply>>
    \/ Service!Refuse
    \/ Service!Submit
    \/ \E a \in Assignment : Service!Resolve(a) \/ Service!Reject(a)

\* An accepted assignment is submitted, and taken up at once or not.
LEMMA AcceptIsContracted ==
    ASSUME PoolInv,
           \/ AssignAccepted
           \/ AssignSpawns
    PROVE  Service!Submit
<1> DEFINE pend == Append(pending, issued + 1)
<1>1. /\ issued < MaxAssign
      /\ Len(pending) < MaxPending
      /\ issued' = issued + 1
      /\ status' = [status EXCEPT ![issued + 1] = "open"]
      /\ UNCHANGED reply
  BY DEF AssignAccepted, AssignSpawns, Accepts, Assigns
<1>2. Held(active) = Underway
  BY DEF Held, Underway
<1>3. Service!TakeUp(pend, Underway)
  <2>1. CASE AssignAccepted
    <3>1. Books(idle, active, pend, status', issued', life)
      BY <2>1, AcceptKeepsInv DEF AssignAccepted
    <3>2. Activate(idle, active, pend, running)
      BY <2>1 DEF AssignAccepted
    <3> HIDE DEF pend
    <3> QED BY <1>2, <3>1, <3>2, ActivateTakesUp DEF Books
  <2>2. CASE AssignSpawns
    BY <2>2 DEF AssignSpawns, Service!TakeUp, Underway
  <2> QED BY <2>1, <2>2
<1> QED BY <1>1, <1>3 DEF Service!Submit

\* Every handler that both pools share keeps the contract.
LEMMA SharedHandlerIsContracted ==
    ASSUME PoolInv, SharedHandler PROVE Contracted
<1>1. CASE Boot \/ Destroy
  BY <1>1 DEF Boot, Destroy, queues, promises, Underway, Contracted
<1>2. CASE AssignRefused
  BY <1>2 DEF AssignRefused, Assigns, queues, Service!Refuse, Underway, Contracted
<1>3. CASE AssignAccepted \/ AssignSpawns
  BY <1>3, AcceptIsContracted DEF Contracted
<1>4. ASSUME NEW w \in Worker, WorkerOnline(w) PROVE Contracted
  BY <1>4 DEF WorkerOnline, promises, Underway, Contracted
<1>5. ASSUME NEW w \in Worker, Reply(w) PROVE Contracted
  <2>1. PICK b \in running[w] : DeactivateWorker(w, b, [running EXCEPT ![w] = @ \ {b}])
    BY <1>5 DEF Reply
  <2> QED BY <2>1, ResolveIsContracted DEF Contracted
<1>6. ASSUME NEW w \in Worker, Timeout(w) PROVE Contracted
  BY <1>6, RejectIsContracted DEF Timeout, PoolInv, Failure, Contracted
<1> QED BY <1>1, <1>2, <1>3, <1>4, <1>5, <1>6 DEF SharedHandler

\* A step that is contracted is one of the contract, whether the host ends in
\* it or not.
LEMMA ContractedIsStep ==
    ASSUME halted = FALSE, halted' \in BOOLEAN, Contracted
    PROVE  [Service!Next]_(Service!vars)
<1>1. CASE UNCHANGED <<pending, Underway, issued, status, reply>>
  <2>1. CASE halted'
    BY <1>1, <2>1 DEF Service!Next, Service!Stop
  <2>2. CASE halted' = FALSE
    BY <1>1, <2>2 DEF Service!vars
  <2> QED BY <2>1, <2>2
<1>2. CASE Service!Refuse \/ Service!Submit
  BY <1>2 DEF Service!Next
<1>3. CASE \E a \in Assignment : Service!Resolve(a) \/ Service!Reject(a)
  BY <1>3 DEF Service!Next, Service!Assignment, Assignment
<1> QED BY <1>1, <1>2, <1>3 DEF Contracted

\* The contract begins with the pool.
LEMMA InitIsContracted == Init => Service!Init
<1>1. ASSUME Init PROVE Underway = {}
  BY <1>1 DEF Init, Underway
<1> QED BY <1>1 DEF Init, Service!Init, Service!Assignment, Assignment, NoAssignment

-----------------------------------------------------------------------------
(* The number of workers.                                                  *)

Alive(lf) == {w \in Worker : lf[w] \in Live}
Surplus(first) == IF first = None \/ (AwaitOnline /\ Limit > 0) THEN 0 ELSE 1

\* Why the count exceeds the limit once at most: the constructor's spawn is the
\* only one that does not look at it, and the first of all where assignments
\* await "online".
SizeInv ==
    /\ IsFiniteSet(Alive(life))
    /\ Cardinality(Alive(life)) <= alive
    /\ alive <= Limit + Surplus(firstWorker)
    /\ AwaitOnline /\ firstWorker = None => alive = 0 /\ ~online

\* The type of what SizeInv counts.
SizeTyped ==
    /\ life \in [Worker -> Life]
    /\ alive \in Nat
    /\ firstWorker \in Worker \cup {None}

\* The inductive invariant of the pool has it.
LEMMA InvImpliesSizeTyped == PoolInv => SizeTyped
  BY DEF PoolInv, Books, Typed, SizeTyped

\* No worker is alive in the beginning.
LEMMA InitEstablishesSize == Init => SizeInv
<1> SUFFICES ASSUME Init PROVE SizeInv
  OBVIOUS
<1>1. Alive(life) = {}
  BY DEF Init, Alive, Live
<1> QED BY <1>1, FS_EmptySet, BoundAssumption DEF Init, SizeInv, Surplus

\* A spawn adds one to the workers alive.
LEMMA SpawnCounts ==
    ASSUME SizeTyped, IsFiniteSet(Alive(life)), Cardinality(Alive(life)) <= alive,
           NEW w \in Worker, SpawnWorker(w)
    PROVE  /\ IsFiniteSet(Alive(life'))
           /\ Cardinality(Alive(life')) <= alive'
           /\ alive' = alive + 1
<1>1. /\ life[w] = "unborn"
      /\ life' = [life EXCEPT ![w] = "starting"]
      /\ alive' = alive + 1
      /\ life \in [Worker -> Life]
      /\ alive \in Nat
  BY DEF SpawnWorker, SizeTyped
<1>2. Alive(life') = Alive(life) \cup {w} /\ w \notin Alive(life)
  BY <1>1 DEF Alive, Live
<1>3. /\ IsFiniteSet(Alive(life'))
      /\ Cardinality(Alive(life')) = Cardinality(Alive(life)) + 1
  BY <1>2, FS_AddElement
<1>4. Cardinality(Alive(life)) \in Nat
  BY FS_CardinalityType
<1> QED BY <1>1, <1>3, <1>4

\* Where no worker comes to life and the count stays, the invariant stays.
LEMMA FadeKeepsSize ==
    ASSUME SizeTyped, SizeInv, Alive(life') \subseteq Alive(life),
           UNCHANGED <<alive, firstWorker, online>>
    PROVE  SizeInv'
<1>1. /\ IsFiniteSet(Alive(life'))
      /\ Cardinality(Alive(life')) <= Cardinality(Alive(life))
  BY FS_Subset DEF SizeInv
<1>2. Cardinality(Alive(life)) \in Nat /\ Cardinality(Alive(life')) \in Nat
  BY <1>1, FS_CardinalityType DEF SizeInv
<1> QED BY <1>1, <1>2 DEF SizeTyped, SizeInv, Surplus

\* One worker goes and another comes in its place.
LEMMA RespawnKeepsSize ==
    ASSUME SizeTyped, SizeInv, NEW w \in Worker, life[w] \in Live,
           ExitAndRespawn(w), UNCHANGED <<firstWorker, online>>
    PROVE  SizeInv'
<1>1. PICK n \in Worker :
         /\ life[n] = "unborn"
         /\ life' = [life EXCEPT ![w] = "dead", ![n] = "starting"]
         /\ alive' = (alive - 1) + 1
  BY DEF ExitAndRespawn
<1>2. life \in [Worker -> Life] /\ alive' = alive
  BY <1>1 DEF SizeTyped
<1> DEFINE rest == Alive(life) \ {w}
<1>3. /\ w \in Alive(life)
      /\ n \notin Alive(life)
      /\ Alive(life') = rest \cup {n}
  BY <1>1, <1>2 DEF Alive, Live
<1>4. /\ IsFiniteSet(rest)
      /\ Cardinality(rest) = Cardinality(Alive(life)) - 1
  BY <1>3, FS_RemoveElement DEF SizeInv
<1>5. n \notin rest
  BY <1>3
<1> HIDE DEF rest
<1>6. /\ IsFiniteSet(Alive(life'))
      /\ Cardinality(Alive(life')) = Cardinality(rest) + 1
  BY <1>3, <1>4, <1>5, FS_AddElement
<1>7. Cardinality(Alive(life)) \in Nat /\ Cardinality(rest) \in Nat
  BY <1>4, FS_CardinalityType DEF SizeInv
<1> QED BY <1>2, <1>4, <1>6, <1>7 DEF SizeTyped, SizeInv, Surplus

\* Every handler that both pools share keeps the count right.
LEMMA SharedHandlerKeepsSize ==
    ASSUME SizeTyped, SizeInv, SharedHandler PROVE SizeInv'
<1>1. CASE Boot
  <2>1. PICK w \in Worker : SpawnWorker(w) /\ firstWorker' = w
    BY <1>1 DEF Boot
  <2>2. /\ IsFiniteSet(Alive(life'))
        /\ Cardinality(Alive(life')) <= alive'
        /\ alive' = alive + 1
    BY <2>1, SpawnCounts DEF SizeInv
  <2>3. firstWorker = None /\ firstWorker' # None
    BY <1>1, <2>1, WorkerAssumption DEF Boot
  <2>4. alive' <= Limit + Surplus(firstWorker')
    <3>1. alive \in Nat /\ Limit \in Nat
      BY BoundAssumption DEF SizeTyped
    <3>2. CASE AwaitOnline /\ Limit > 0
      BY <2>2, <2>3, <3>1, <3>2 DEF SizeInv, Surplus
    <3>3. CASE ~(AwaitOnline /\ Limit > 0)
      BY <2>2, <2>3, <3>1, <3>3 DEF SizeInv, Surplus
    <3> QED BY <3>2, <3>3
  <2> QED BY <2>2, <2>3, <2>4 DEF SizeInv
<1>2. CASE AssignSpawns
  <2>1. PICK w \in Worker : SpawnWorker(w)
    BY <1>2 DEF AssignSpawns
  <2>2. /\ IsFiniteSet(Alive(life'))
        /\ Cardinality(Alive(life')) <= alive'
        /\ alive' = alive + 1
    BY <2>1, SpawnCounts DEF SizeInv
  <2>3. /\ alive < Limit
        /\ AwaitOnline => online
        /\ UNCHANGED <<firstWorker, online>>
    BY <1>2 DEF AssignSpawns, Accepts, Assigns, startup
  <2>4. alive' <= Limit + Surplus(firstWorker)
    BY <2>2, <2>3, BoundAssumption DEF SizeTyped, Surplus
  <2> QED BY <2>2, <2>3, <2>4 DEF SizeInv
<1>3. CASE AssignRefused \/ AssignAccepted \/ Destroy
  BY <1>3, FadeKeepsSize
     DEF AssignRefused, AssignAccepted, Accepts, Assigns, Destroy, workers, startup
<1>4. ASSUME NEW w \in Worker, WorkerOnline(w) PROVE SizeInv'
  <2>1. /\ life[w] = "starting"
        /\ life' = [life EXCEPT ![w] = "up"]
        /\ online' = (online \/ w = firstWorker)
        /\ UNCHANGED <<firstWorker, alive>>
    BY <1>4 DEF WorkerOnline
  <2>2. Alive(life') = Alive(life)
    BY <2>1 DEF SizeTyped, Alive, Live
  <2>3. firstWorker = None => w # firstWorker
    BY WorkerAssumption
  <2> QED BY <2>1, <2>2, <2>3 DEF SizeInv
<1>5. ASSUME NEW w \in Worker, Reply(w) \/ Timeout(w) PROVE SizeInv'
  BY <1>5, FadeKeepsSize DEF Reply, Timeout, workers, startup
<1> QED BY <1>1, <1>2, <1>3, <1>4, <1>5 DEF SharedHandler

\* What the invariant says of the count is PoolSize.
LEMMA InvImpliesPoolSize == SizeInv => PoolSize
  BY DEF SizeInv, PoolSize, Alive, Surplus

-----------------------------------------------------------------------------
(* The pool of threads.                                                    *)

\* The "error" of a thread keeps the invariants, whatever answers it had posted.
LEMMA ThreadErrorKeepsInv ==
    ASSUME PoolInv, LimiterInv, ~halted, NEW w \in Worker, ThreadError(w)
    PROVE  PoolInv' /\ LimiterInv'
<1>1. /\ life[w] \in {"starting", "up"}
      /\ life' = [life EXCEPT ![w] = "errored"]
      /\ Feed
      /\ UNCHANGED <<firstWorker, online, alive, destroyed>>
  BY DEF ThreadError, startup
<1>2. LimiterInv'
  BY <1>1, FeedKeepsInv
<1>3. PICK late \in SUBSET running[w] :
         LET run == [running EXCEPT ![w] = late]
         IN  \/ /\ halted'
                /\ running' = run
                /\ UNCHANGED <<idle, active, pending, promises>>
             \/ /\ ~halted'
                /\ DeactivateWorkerWithError(w, "ERROR", run)
  BY DEF ThreadError
<1> DEFINE run == [running EXCEPT ![w] = late]
<1>4. life \in [Worker -> Life] /\ life' \in [Worker -> Life]
  BY <1>1 DEF PoolInv, Books, Typed, Life
<1>5. Books(idle, active, pending, status, issued, life')
  BY <1>1, <1>4, LifeKeepsBooks DEF PoolInv
<1>6. Answers(active, pending, run, status, issued, reply)
  <2>1. /\ run \in [Worker -> SUBSET Assignment]
        /\ \A v \in Worker : run[v] \subseteq running[v]
    BY DEF PoolInv, Answers
  <2> QED BY <2>1, LossKeepsAnswers DEF PoolInv
<1>7. /\ Books(idle', active', pending', status', issued', life')
      /\ Moving(idle', active', pending', status', issued')
      /\ Answers(active', pending', running', status', issued', reply')
  <2>1. CASE running' = run /\ UNCHANGED <<idle, active, pending, promises>>
    BY <2>1, <1>5, <1>6 DEF PoolInv, promises
  <2>2. CASE DeactivateWorkerWithError(w, "ERROR", run)
    <3> HIDE DEF run
    <3> QED BY <2>2, <1>5, <1>6, RejectKeepsInv DEF PoolInv, Failure
  <2> QED BY <1>3, <2>1, <2>2
<1> QED BY <1>1, <1>2, <1>7 DEF PoolInv

\* An exit the pool ignores keeps them: the dead thread stays where it was.
LEMMA ThreadExitIgnoredKeepsInv ==
    ASSUME PoolInv, LimiterInv, NEW w \in Worker, ThreadExitIgnored(w)
    PROVE  PoolInv' /\ LimiterInv'
<1>1. /\ life[w] \in Live
      /\ life' = [life EXCEPT ![w] = "dead"]
      /\ running' = [running EXCEPT ![w] = {}]
      /\ UNCHANGED <<idle, active, pending, issued, status, reply, firstWorker, online,
                     alive, destroyed, initPeriod, records, halted>>
  BY DEF ThreadExitIgnored, promises, startup, limiter
<1>2. life \in [Worker -> Life] /\ life' \in [Worker -> Life]
  BY <1>1 DEF PoolInv, Books, Typed, Life
<1>3. Books(idle, active, pending, status, issued, life')
  BY <1>1, <1>2, LifeKeepsBooks DEF PoolInv
<1>4. Answers(active, pending, running', status, issued, reply)
  <2>1. /\ running' \in [Worker -> SUBSET Assignment]
        /\ \A v \in Worker : running'[v] \subseteq running[v]
    BY <1>1 DEF PoolInv, Answers
  <2> QED BY <2>1, LossKeepsAnswers DEF PoolInv
<1> QED BY <1>1, <1>3, <1>4 DEF PoolInv, LimiterInv

\* An exit that replaces the thread keeps them.
LEMMA ThreadExitKeepsInv ==
    ASSUME PoolInv, LimiterInv, NEW w \in Worker, ThreadExit(w)
    PROVE  PoolInv' /\ LimiterInv'
<1> DEFINE run == [running EXCEPT ![w] = {}]
<1>1. /\ life[w] \in Live
      /\ ExitAndRespawn(w)
      /\ DeactivateWorkerWithError(w, "WORKER_EXIT", run)
      /\ UNCHANGED <<firstWorker, online, destroyed, initPeriod, records, halted>>
  BY DEF ThreadExit, startup, limiter
<1>2. Books(idle, active, pending, status, issued, life') /\ alive' \in Nat
  BY <1>1, ExitKeepsBooks
<1>3. Answers(active, pending, run, status, issued, reply)
  <2>1. /\ run \in [Worker -> SUBSET Assignment]
        /\ \A v \in Worker : run[v] \subseteq running[v]
    BY DEF PoolInv, Answers
  <2> QED BY <2>1, LossKeepsAnswers DEF PoolInv
<1> HIDE DEF run
<1>4. /\ Books(idle', active', pending', status', issued', life')
      /\ Moving(idle', active', pending', status', issued')
      /\ Answers(active', pending', running', status', issued', reply')
  BY <1>1, <1>2, <1>3, RejectKeepsInv DEF PoolInv, Failure
<1> QED BY <1>1, <1>2, <1>4 DEF PoolInv, LimiterInv

\* Every step of the thread pool keeps the invariants.
LEMMA ThreadStepKeepsInv ==
    ASSUME PoolInv, LimiterInv, [ThreadNext]_vars
    PROVE  PoolInv' /\ LimiterInv'
<1>1. CASE ~halted /\ ThreadShared
  <2>1. PoolInv'
    BY <1>1, SharedHandlerKeepsInv DEF ThreadShared
  <2> QED BY <1>1, <2>1 DEF ThreadShared, limiter, LimiterInv
<1>2. CASE InitPeriodEnds
  BY <1>2, InitPeriodEndsKeepsInv
<1>9. CASE HostEnds
  BY <1>9, HostEndsKeepsInv
<1>3. CASE ~halted /\ \E w \in Worker : ThreadError(w)
  BY <1>3, ThreadErrorKeepsInv
<1>4. CASE \E w \in Worker : ThreadExitIgnored(w)
  BY <1>4, ThreadExitIgnoredKeepsInv
<1>5. CASE \E w \in Worker : ThreadExit(w)
  BY <1>5, ThreadExitKeepsInv
<1>6. CASE UNCHANGED vars
  BY <1>6 DEF vars, queues, promises, startup, workers, limiter,
              PoolInv, LimiterInv
<1> QED BY <1>1, <1>2, <1>3, <1>4, <1>5, <1>6, <1>9 DEF ThreadNext, ThreadStep

\* The inductive invariant holds throughout.
THEOREM ThreadPoolInvariant == ThreadSpec => [](PoolInv /\ LimiterInv)
<1>1. Init => PoolInv /\ LimiterInv
  BY InitEstablishesInv
<1>2. (PoolInv /\ LimiterInv) /\ [ThreadNext]_vars => (PoolInv /\ LimiterInv)'
  BY ThreadStepKeepsInv
<1> QED BY <1>1, <1>2, PTL DEF ThreadSpec

\* Every field of the pool keeps its type (AWorkerPool.ts:45-56).
THEOREM ThreadPoolTypeOK == ThreadSpec => []TypeOK
<1>1. PoolInv /\ LimiterInv => TypeOK
  BY InvImpliesTypeOK
<1> QED BY <1>1, ThreadPoolInvariant, PTL

\* An open promise is in one place: waiting, or held by one worker
\* (activate, deactivate and assign, AWorkerPool.ts:93-126, 227-243).
THEOREM ThreadPoolAccounted == ThreadSpec => []Accounted
<1>1. PoolInv => Accounted
  BY InvImpliesAccounted
<1> QED BY <1>1, ThreadPoolInvariant, PTL

\* Assignments are taken up in the order they were made (AWorkerPool.ts:103-104).
THEOREM ThreadPoolInOrder == ThreadSpec => []InOrder
<1>1. PoolInv => InOrder
  BY InvImpliesInOrder
<1> QED BY <1>1, ThreadPoolInvariant, PTL

\* A worker is idle once or active, not both (AWorkerPool.ts:102-126).
THEOREM ThreadPoolHeldOnce == ThreadSpec => []HeldOnce
<1>1. PoolInv => HeldOnce
  BY InvImpliesHeldOnce
<1> QED BY <1>1, ThreadPoolInvariant, PTL

\* What can become of an answer, though nothing says what it answers
\* (deactivateWorker, AWorkerPool.ts:194-203).
THEOREM ThreadPoolAnswerFate == ThreadSpec => []AnswerFate
<1>1. PoolInv => AnswerFate
  BY InvImpliesAnswerFate
<1> QED BY <1>1, ThreadPoolInvariant, PTL

\* Nothing waits with no worker active once one was (AWorkerPool.ts:125).
THEOREM ThreadPoolNoStranding == ThreadSpec => []NoStranding
<1>1. PoolInv => NoStranding
  BY InvImpliesNoStranding
<1> QED BY <1>1, ThreadPoolInvariant, PTL

\* Every step of the thread pool is one of the contract, or none to its users.
LEMMA ThreadStepIsContracted ==
    ASSUME PoolInv, LimiterInv, [ThreadNext]_vars
    PROVE  [Service!Next]_(Service!vars)
<1>1. CASE UNCHANGED vars
  <2>1. UNCHANGED <<active, pending, issued, status, reply, halted>>
    BY <1>1 DEF vars, queues, promises, startup, workers, limiter
  <2>2. UNCHANGED Underway
    BY <2>1 DEF Underway
  <2> QED BY <2>1, <2>2 DEF Service!vars
<1>2. CASE ThreadNext
  <2>1. halted = FALSE /\ halted' \in BOOLEAN
    <3>1. LimiterInv'
      BY ThreadStepKeepsInv
    <3>2. halted' \in BOOLEAN
      BY <3>1 DEF LimiterInv
    <3>3. ~halted /\ halted \in BOOLEAN
      BY <1>2 DEF ThreadNext, LimiterInv
    <3> QED BY <3>2, <3>3
  <2>2. ASSUME ThreadShared PROVE Contracted
    BY <2>2, SharedHandlerIsContracted DEF ThreadShared
  <2>3. ASSUME InitPeriodEnds \/ HostEnds PROVE Contracted
    BY <2>3 DEF InitPeriodEnds, HostEnds, queues, promises, Underway, Contracted
  <2>4. ASSUME NEW w \in Worker, ThreadError(w) PROVE Contracted
    BY <2>4, RejectIsContracted DEF ThreadError, PoolInv, Failure, promises, Underway, Contracted
  <2>5. ASSUME NEW w \in Worker, ThreadExitIgnored(w) PROVE Contracted
    BY <2>5 DEF ThreadExitIgnored, promises, Underway, Contracted
  <2>6. ASSUME NEW w \in Worker, ThreadExit(w) PROVE Contracted
    BY <2>6, RejectIsContracted DEF ThreadExit, PoolInv, Failure, Contracted
  <2>7. Contracted
    BY <1>2, <2>2, <2>3, <2>4, <2>5, <2>6 DEF ThreadNext, ThreadStep
  <2> QED BY <2>1, <2>7, ContractedIsStep
<1> QED BY <1>1, <1>2

\* The pool of threads is an assignment service: assign, the replies and the
\* failures do to the promises and the queue what the contract says, and
\* nothing else (AWorkerPool.ts:93-126, 194-211, 227-243).
THEOREM ThreadPoolContract == ThreadSpec => Contract
<1>1. Init => Service!Init
  BY InitIsContracted
<1>2. (PoolInv /\ LimiterInv) /\ [ThreadNext]_vars => [Service!Next]_(Service!vars)
  BY ThreadStepIsContracted
<1> QED BY <1>1, <1>2, ThreadPoolInvariant, PTL DEF ThreadSpec, Contract, Service!Spec

\* Every step of the pool keeps the count of its workers right.
LEMMA ThreadStepKeepsSize ==
    ASSUME PoolInv, SizeInv, [ThreadNext]_vars PROVE SizeInv'
<1> USE InvImpliesSizeTyped
<1>1. CASE ThreadShared
  BY <1>1, SharedHandlerKeepsSize DEF ThreadShared
<1>2. CASE InitPeriodEnds \/ HostEnds \/ UNCHANGED vars
  BY <1>2, FadeKeepsSize DEF InitPeriodEnds, HostEnds, vars, workers, startup
<1>3. ASSUME NEW w \in Worker, ThreadError(w) \/ ThreadExitIgnored(w) PROVE SizeInv'
  <2>1. /\ life[w] \in Live
        /\ \E to \in {"errored", "dead"} : life' = [life EXCEPT ![w] = to]
        /\ UNCHANGED <<alive, firstWorker, online>>
    BY <1>3 DEF ThreadError, ThreadExitIgnored, startup, Live
  <2>2. Alive(life') \subseteq Alive(life)
    BY <2>1 DEF SizeTyped, Alive, Live
  <2> QED BY <2>1, <2>2, FadeKeepsSize
<1>4. ASSUME NEW w \in Worker, ThreadExit(w) PROVE SizeInv'
  BY <1>4, RespawnKeepsSize DEF ThreadExit, startup
<1> QED BY <1>1, <1>2, <1>3, <1>4 DEF ThreadNext, ThreadStep

\* The count of workers covers those alive, and exceeds the limit by one at
\* most (the constructor's spawn, AWorkerPool.ts:81-85, and activate, 93-100).
THEOREM ThreadPoolSize == ThreadSpec => []PoolSize
<1>1. Init => SizeInv
  BY InitEstablishesSize
<1>2. PoolInv /\ SizeInv /\ [ThreadNext]_vars => SizeInv'
  BY ThreadStepKeepsSize
<1>3. SizeInv => PoolSize
  BY InvImpliesPoolSize
<1> QED BY <1>1, <1>2, <1>3, ThreadPoolInvariant, PTL DEF ThreadSpec

-----------------------------------------------------------------------------
(* The pool of child processes.                                            *)

\* An assignment sent to a dead child, or none, keeps the limiter's invariant.
LEMMA SendErrorsKeepsInv ==
    ASSUME LimiterInv, ~halted, SendErrors PROVE LimiterInv'
<1>1. CASE UNCHANGED limiter
  BY <1>1 DEF limiter, LimiterInv
<1>2. CASE Feed
  BY <1>2, FeedKeepsInv
<1> QED BY <1>1, <1>2 DEF SendErrors

\* A worker dies and nothing else changes but what it may still answer.
LEMMA DeathKeepsInv ==
    ASSUME PoolInv, NEW w \in Worker, life' = [life EXCEPT ![w] = "dead"],
           running' \in [Worker -> SUBSET Assignment],
           \A v \in Worker : running'[v] \subseteq running[v],
           UNCHANGED <<idle, active, pending, issued, status, reply, firstWorker, online,
                       alive, destroyed>>
    PROVE  PoolInv'
<1>1. life \in [Worker -> Life] /\ life' \in [Worker -> Life]
  BY DEF PoolInv, Books, Typed, Life
<1>2. Books(idle, active, pending, status, issued, life')
  BY <1>1, LifeKeepsBooks DEF PoolInv
<1>3. Answers(active, pending, running', status, issued, reply)
  BY LossKeepsAnswers DEF PoolInv
<1> QED BY <1>2, <1>3 DEF PoolInv

\* A child that exits with 0 keeps the invariants: it stays where it is queued.
LEMMA ProcessExitZeroKeepsInv ==
    ASSUME PoolInv, LimiterInv, NEW w \in Worker, ProcessExitZero(w)
    PROVE  PoolInv' /\ LimiterInv'
<1>1. PICK late \in SUBSET running[w] : running' = [running EXCEPT ![w] = late]
  BY DEF ProcessExitZero
<1>2. /\ running' \in [Worker -> SUBSET Assignment]
      /\ \A v \in Worker : running'[v] \subseteq running[v]
  BY <1>1 DEF PoolInv, Answers
<1>3. PoolInv'
  BY <1>2, DeathKeepsInv DEF ProcessExitZero, promises, startup
<1> QED BY <1>3 DEF ProcessExitZero, limiter, LimiterInv

\* A child that takes the host with it keeps them: no queue changes.
LEMMA ProcessExitFatalKeepsInv ==
    ASSUME PoolInv, LimiterInv, NEW w \in Worker, ProcessExitFatal(w)
    PROVE  PoolInv' /\ LimiterInv'
<1>1. UNCHANGED running /\ running \in [Worker -> SUBSET Assignment]
  BY DEF ProcessExitFatal, queues, PoolInv, Answers
<1>2. PoolInv'
  BY <1>1, DeathKeepsInv DEF ProcessExitFatal, queues, promises, startup
<1> QED BY <1>2 DEF ProcessExitFatal, LimiterInv

\* A fork that fails keeps them: the child had not come online.
LEMMA ForkFailsKeepsInv ==
    ASSUME PoolInv, LimiterInv, NEW w \in Worker, ForkFails(w)
    PROVE  PoolInv' /\ LimiterInv'
<1>1. UNCHANGED running /\ running \in [Worker -> SUBSET Assignment]
  BY DEF ForkFails, queues, PoolInv, Answers
<1>2. PoolInv'
  BY <1>1, DeathKeepsInv DEF ForkFails, queues, promises, startup
<1> QED BY <1>2 DEF ForkFails, LimiterInv

\* A child that exits and is replaced keeps them, with any answers of its own
\* still to come.
LEMMA ProcessExitKeepsInv ==
    ASSUME PoolInv, LimiterInv, ~halted, NEW w \in Worker, ProcessExit(w)
    PROVE  PoolInv' /\ LimiterInv'
<1>1. PICK late \in SUBSET running[w] :
         DeactivateWorkerWithError(w, "WORKER_EXIT", [running EXCEPT ![w] = late])
  BY DEF ProcessExit
<1>2. /\ life[w] \in Live
      /\ ExitAndRespawn(w)
      /\ SendErrors
      /\ UNCHANGED <<firstWorker, online, destroyed>>
  BY DEF ProcessExit, startup
<1> DEFINE run == [running EXCEPT ![w] = late]
<1>3. Books(idle, active, pending, status, issued, life') /\ alive' \in Nat
  BY <1>2, ExitKeepsBooks
<1>4. Answers(active, pending, run, status, issued, reply)
  <2>1. /\ run \in [Worker -> SUBSET Assignment]
        /\ \A v \in Worker : run[v] \subseteq running[v]
    BY DEF PoolInv, Answers
  <2> QED BY <2>1, LossKeepsAnswers DEF PoolInv
<1>5. DeactivateWorkerWithError(w, "WORKER_EXIT", run)
  BY <1>1
<1> HIDE DEF run
<1>6. /\ Books(idle', active', pending', status', issued', life')
      /\ Moving(idle', active', pending', status', issued')
      /\ Answers(active', pending', running', status', issued', reply')
  BY <1>3, <1>4, <1>5, RejectKeepsInv DEF PoolInv, Failure
<1>7. LimiterInv'
  BY <1>2, SendErrorsKeepsInv
<1> QED BY <1>2, <1>3, <1>6, <1>7 DEF PoolInv

\* Every step of the process pool keeps the invariants.
LEMMA ProcessStepKeepsInv ==
    ASSUME PoolInv, LimiterInv, [ProcessNext]_vars
    PROVE  PoolInv' /\ LimiterInv'
<1>1. CASE ~halted /\ ProcessShared
  BY <1>1, SharedHandlerKeepsInv, SendErrorsKeepsInv DEF ProcessShared
<1>2. CASE InitPeriodEnds
  BY <1>2, InitPeriodEndsKeepsInv
<1>9. CASE HostEnds
  BY <1>9, HostEndsKeepsInv
<1>3. CASE \E w \in Worker : ProcessExitZero(w)
  BY <1>3, ProcessExitZeroKeepsInv
<1>4. CASE \E w \in Worker : ProcessExitFatal(w)
  BY <1>4, ProcessExitFatalKeepsInv
<1>5. CASE ~halted /\ \E w \in Worker : ProcessExit(w)
  BY <1>5, ProcessExitKeepsInv
<1>6. CASE \E w \in Worker : ForkFails(w)
  BY <1>6, ForkFailsKeepsInv
<1>7. CASE UNCHANGED vars
  BY <1>7 DEF vars, queues, promises, startup, workers, limiter,
              PoolInv, LimiterInv
<1> QED BY <1>1, <1>2, <1>3, <1>4, <1>5, <1>6, <1>7, <1>9 DEF ProcessNext, ProcessStep

\* The inductive invariant holds throughout.
THEOREM ProcessPoolInvariant == ProcessSpec => [](PoolInv /\ LimiterInv)
<1>1. Init => PoolInv /\ LimiterInv
  BY InitEstablishesInv
<1>2. (PoolInv /\ LimiterInv) /\ [ProcessNext]_vars => (PoolInv /\ LimiterInv)'
  BY ProcessStepKeepsInv
<1> QED BY <1>1, <1>2, PTL DEF ProcessSpec

\* Every field of the pool keeps its type (AWorkerPool.ts:45-56).
THEOREM ProcessPoolTypeOK == ProcessSpec => []TypeOK
<1>1. PoolInv /\ LimiterInv => TypeOK
  BY InvImpliesTypeOK
<1> QED BY <1>1, ProcessPoolInvariant, PTL

\* An open promise is in one place: waiting, or held by one worker
\* (activate, deactivate and assign, AWorkerPool.ts:93-126, 227-243).
THEOREM ProcessPoolAccounted == ProcessSpec => []Accounted
<1>1. PoolInv => Accounted
  BY InvImpliesAccounted
<1> QED BY <1>1, ProcessPoolInvariant, PTL

\* Assignments are taken up in the order they were made (AWorkerPool.ts:103-104).
THEOREM ProcessPoolInOrder == ProcessSpec => []InOrder
<1>1. PoolInv => InOrder
  BY InvImpliesInOrder
<1> QED BY <1>1, ProcessPoolInvariant, PTL

\* A worker is idle once or active, not both (AWorkerPool.ts:102-126).
THEOREM ProcessPoolHeldOnce == ProcessSpec => []HeldOnce
<1>1. PoolInv => HeldOnce
  BY InvImpliesHeldOnce
<1> QED BY <1>1, ProcessPoolInvariant, PTL

\* What can become of an answer, though nothing says what it answers
\* (deactivateWorker, AWorkerPool.ts:194-203).
THEOREM ProcessPoolAnswerFate == ProcessSpec => []AnswerFate
<1>1. PoolInv => AnswerFate
  BY InvImpliesAnswerFate
<1> QED BY <1>1, ProcessPoolInvariant, PTL

\* Nothing waits with no worker active once one was (AWorkerPool.ts:125).
THEOREM ProcessPoolNoStranding == ProcessSpec => []NoStranding
<1>1. PoolInv => NoStranding
  BY InvImpliesNoStranding
<1> QED BY <1>1, ProcessPoolInvariant, PTL

\* Every step of the process pool is one of the contract, or none to its users.
LEMMA ProcessStepIsContracted ==
    ASSUME PoolInv, LimiterInv, [ProcessNext]_vars
    PROVE  [Service!Next]_(Service!vars)
<1>1. CASE UNCHANGED vars
  <2>1. UNCHANGED <<active, pending, issued, status, reply, halted>>
    BY <1>1 DEF vars, queues, promises, startup, workers, limiter
  <2>2. UNCHANGED Underway
    BY <2>1 DEF Underway
  <2> QED BY <2>1, <2>2 DEF Service!vars
<1>2. CASE ProcessNext
  <2>1. halted = FALSE /\ halted' \in BOOLEAN
    <3>1. LimiterInv'
      BY ProcessStepKeepsInv
    <3>2. halted' \in BOOLEAN
      BY <3>1 DEF LimiterInv
    <3>3. ~halted /\ halted \in BOOLEAN
      BY <1>2 DEF ProcessNext, LimiterInv
    <3> QED BY <3>2, <3>3
  <2>2. ASSUME ProcessShared PROVE Contracted
    BY <2>2, SharedHandlerIsContracted DEF ProcessShared
  <2>3. ASSUME InitPeriodEnds \/ HostEnds PROVE Contracted
    BY <2>3 DEF InitPeriodEnds, HostEnds, queues, promises, Underway, Contracted
  <2>4. ASSUME NEW w \in Worker, ProcessExitZero(w) PROVE Contracted
    BY <2>4 DEF ProcessExitZero, promises, Underway, Contracted
  <2>5. ASSUME NEW w \in Worker, ProcessExitFatal(w) \/ ForkFails(w) PROVE Contracted
    BY <2>5 DEF ProcessExitFatal, ForkFails, queues, promises, Underway, Contracted
  <2>6. ASSUME NEW w \in Worker, ProcessExit(w) PROVE Contracted
    BY <2>6, RejectIsContracted DEF ProcessExit, PoolInv, Failure, Contracted
  <2>7. Contracted
    BY <1>2, <2>2, <2>3, <2>4, <2>5, <2>6 DEF ProcessNext, ProcessStep
  <2> QED BY <2>1, <2>7, ContractedIsStep
<1> QED BY <1>1, <1>2

\* The pool of child processes is an assignment service: assign, the replies and the
\* failures do to the promises and the queue what the contract says, and
\* nothing else (AWorkerPool.ts:93-126, 194-211, 227-243).
THEOREM ProcessPoolContract == ProcessSpec => Contract
<1>1. Init => Service!Init
  BY InitIsContracted
<1>2. (PoolInv /\ LimiterInv) /\ [ProcessNext]_vars => [Service!Next]_(Service!vars)
  BY ProcessStepIsContracted
<1> QED BY <1>1, <1>2, ProcessPoolInvariant, PTL DEF ProcessSpec, Contract, Service!Spec

\* Every step of the pool keeps the count of its workers right.
LEMMA ProcessStepKeepsSize ==
    ASSUME PoolInv, SizeInv, [ProcessNext]_vars PROVE SizeInv'
<1> USE InvImpliesSizeTyped
<1>1. CASE ProcessShared
  BY <1>1, SharedHandlerKeepsSize DEF ProcessShared
<1>2. CASE InitPeriodEnds \/ HostEnds \/ UNCHANGED vars
  BY <1>2, FadeKeepsSize DEF InitPeriodEnds, HostEnds, vars, workers, startup
<1>3. ASSUME NEW w \in Worker, ProcessExitZero(w) \/ ProcessExitFatal(w) \/ ForkFails(w)
      PROVE  SizeInv'
  <2>1. /\ life' = [life EXCEPT ![w] = "dead"]
        /\ UNCHANGED <<alive, firstWorker, online>>
    BY <1>3 DEF ProcessExitZero, ProcessExitFatal, ForkFails, startup
  <2>2. Alive(life') \subseteq Alive(life)
    BY <2>1 DEF SizeTyped, Alive, Live
  <2> QED BY <2>1, <2>2, FadeKeepsSize
<1>4. ASSUME NEW w \in Worker, ProcessExit(w) PROVE SizeInv'
  BY <1>4, RespawnKeepsSize DEF ProcessExit, startup
<1> QED BY <1>1, <1>2, <1>3, <1>4 DEF ProcessNext, ProcessStep

\* The count of workers covers those alive, and exceeds the limit by one at
\* most (the constructor's spawn, AWorkerPool.ts:81-85, and activate, 93-100).
THEOREM ProcessPoolSize == ProcessSpec => []PoolSize
<1>1. Init => SizeInv
  BY InitEstablishesSize
<1>2. PoolInv /\ SizeInv /\ [ProcessNext]_vars => SizeInv'
  BY ProcessStepKeepsSize
<1>3. SizeInv => PoolSize
  BY InvImpliesPoolSize
<1> QED BY <1>1, <1>2, <1>3, ProcessPoolInvariant, PTL DEF ProcessSpec

-----------------------------------------------------------------------------
(* The two kinds of pool together.                                         *)

\* The inductive invariant holds of pools of both kinds.
THEOREM PoolInvariant == PoolSpec => [](PoolInv /\ LimiterInv)
<1>1. PoolInit => PoolInv /\ LimiterInv
  BY InitEstablishesInv DEF PoolInit
<1>2. (PoolInv /\ LimiterInv) /\ [PoolNext]_poolVars => (PoolInv /\ LimiterInv)'
  BY ThreadStepKeepsInv, ProcessStepKeepsInv DEF PoolNext, poolVars
<1> QED BY <1>1, <1>2, PTL DEF PoolSpec

-----------------------------------------------------------------------------
(* The cluster.  Its parent is a process pool.  As long as no assignment   *)
(* has been given up, a child that is up has what its parent has it for,   *)
(* in one place, and one thread, which is idle if it does not have it.     *)

ChildTypes ==
    /\ sent \in [Worker -> Seq(Assignment)]
    /\ waiting \in [Worker -> Seq(Assignment)]
    /\ threads \in [Worker -> Nat]
    /\ ready \in [Worker -> Nat]
    /\ taken \in [Worker -> SUBSET Assignment]
    /\ answered \in [Worker -> SUBSET Assignment]

NothingGivenUp == \A a \in Assignment : status[a] # "TIMEOUT"

\* A child that has not been online has nothing.
Unused(w) ==
    life[w] \in {"unborn", "starting"} =>
        /\ running[w] = {} /\ sent[w] = <<>> /\ waiting[w] = <<>>
        /\ taken[w] = {} /\ answered[w] = {}

Vacant(w) ==
    /\ active[w] = NoAssignment /\ running[w] = {}
    /\ sent[w] = <<>> /\ taken[w] = {} /\ answered[w] = {} /\ ready[w] = 1

Busy(w) ==
    /\ active[w] # NoAssignment /\ running[w] = {active[w]}
    /\ \/ sent[w] = <<active[w]>> /\ taken[w] = {} /\ answered[w] = {} /\ ready[w] = 1
       \/ sent[w] = <<>> /\ taken[w] = {active[w]} /\ answered[w] = {} /\ ready[w] = 0
       \/ sent[w] = <<>> /\ taken[w] = {} /\ answered[w] = {active[w]} /\ ready[w] = 1

OneThread(w) == threads[w] = 1 /\ waiting[w] = <<>> /\ (Vacant(w) \/ Busy(w))

ChildInv(w) ==
    /\ life[w] # "errored"
    /\ Unused(w)
    /\ ~Up(w) /\ NothingGivenUp => threads[w] <= 1
    /\ Up(w) /\ NothingGivenUp => OneThread(w)

\* The inductive invariant of the children, beside that of the parent.
ClusterInv == ChildTypes /\ \A w \in Worker : ChildInv(w)

\* Every step of the cluster is one of the process pool or none to it.
LEMMA ClusterStepIsProcessStep == ClusterNext => [ProcessNext]_vars
  BY DEF ClusterNext, ParentOnly, ChildOnline, Reads, ChildReads, ThreadOnline, ThreadAnswers,
         ThreadFails, ThreadTimeout, ChildEnds, ChildExitsZero, InitPeriodOver, ParentEnds,
         Sends, SharedHandler, ProcessShared, ProcessStep, ProcessNext

\* The parent of a cluster is a process pool: what is proved of the one holds of the
\* other, whatever the children do (Cluster.ts:16-38, adapter.process.ts:14-20).
THEOREM ClusterIsProcessPool == ClusterSpec => ProcessSpec
<1>1. ClusterInit => Init
  BY DEF ClusterInit
<1>2. [ClusterNext]_clusterVars => [ProcessNext]_vars
  BY ClusterStepIsProcessStep DEF clusterVars
<1> QED BY <1>1, <1>2, PTL DEF ClusterSpec, ProcessSpec

\* An assignment that was given up stays so.
LEMMA GivenUpStays ==
    ASSUME PoolInv, LimiterInv, [ProcessNext]_vars, NothingGivenUp'
    PROVE  NothingGivenUp
<1> SUFFICES ASSUME NEW a \in Assignment, status[a] = "TIMEOUT" PROVE status'[a] = "TIMEOUT"
  BY DEF NothingGivenUp
<1>1. /\ status \in [Assignment -> Status]
      /\ Numbered(status, issued) /\ Placed(active, pending, status)
      /\ issued \in 0 .. MaxAssign /\ MaxAssign \in Nat
  BY BoundAssumption DEF PoolInv, Books, Typed
<1>2. [Service!Next]_(Service!vars)
  BY ProcessStepIsContracted
<1>3. ASSUME NEW c, status' = [status EXCEPT ![issued + 1] = c], issued < MaxAssign
      PROVE  status'[a] = "TIMEOUT"
  <2>1. issued + 1 \in Assignment /\ status[issued + 1] = "unissued"
    BY <1>1, <1>3 DEF Numbered, Assignment
  <2> QED BY <1>1, <1>3, <2>1
<1>4. ASSUME NEW b \in Underway, NEW c, status' = [status EXCEPT ![b] = c]
      PROVE  status'[a] = "TIMEOUT"
  <2>1. b \in Assignment /\ status[b] = "open"
    BY <1>1 DEF Underway, Placed, PoolInv, Books, Typed
  <2> QED BY <1>1, <1>4, <2>1
<1>5. CASE UNCHANGED status
  BY <1>5
<1> QED BY <1>2, <1>3, <1>4, <1>5
   DEF Service!Next, Service!vars, Service!Refuse, Service!Submit, Service!Resolve,
       Service!Reject, Service!Stop

\* What the step of the parent does to a child: the assignment that it gives it, if
\* it gives it one.
Kept(v) == active'[v] = active[v] /\ running'[v] = running[v]
GivenOn(v, act, run) ==
    /\ act[v] = NoAssignment
    /\ active'[v] \in Assignment
    /\ running'[v] = IF life'[v] = "up" THEN run[v] \cup {active'[v]} ELSE run[v]

\* activate gives one worker an assignment, one that has none.
LEMMA ActivateGives ==
    ASSUME NEW idl, NEW act, NEW pend, NEW run, NEW st, NEW iss, NEW lf,
           Typed(idl, act, pend, st, iss, lf), Free(idl, act),
           run \in [Worker -> SUBSET Assignment],
           Activate(idl, act, pend, run), NEW v \in Worker
    PROVE  \/ active'[v] = act[v] /\ running'[v] = run[v]
           \/ GivenOn(v, act, run) /\ active'[v] \in Range(pend)
<1>1. CASE pend = <<>> \/ idl = <<>>
  BY <1>1 DEF Activate
<1>2. CASE pend # <<>> /\ idl # <<>>
  <2> DEFINE w == Head(idl)
             a == Head(pend)
  <2>1. /\ active' = [act EXCEPT ![w] = a]
        /\ running' = Posted(run, w, a)
    BY <1>2 DEF Activate
  <2>2. /\ Range(idl) = {w} \cup Range(Tail(idl))
        /\ w \in Worker
    BY <1>2, RangeHeadTail DEF Typed
  <2>3. a \in Assignment /\ a \in Range(pend)
    <3>1. pend \in Seq(Assignment)
      BY DEF Typed
    <3>2. Range(pend) = {a} \cup Range(Tail(pend)) /\ a \in Assignment
      BY <1>2, <3>1, RangeHeadTail
    <3> QED BY <3>2
  <2>4. act[w] = NoAssignment
    BY <2>2 DEF Free
  <2> HIDE DEF w, a
  <2>5. act \in [Worker -> Assignment \cup {NoAssignment}]
    BY DEF Typed
  <2>6. CASE v = w
    BY <2>1, <2>2, <2>3, <2>4, <2>5, <2>6 DEF Posted, GivenOn
  <2>7. CASE v # w
    BY <2>1, <2>2, <2>5, <2>7 DEF Posted
  <2> QED BY <2>6, <2>7
<1> QED BY <1>1, <1>2

\* A child that the parent gives an assignment, or none, and does not hear of.
LEMMA GivenKeepsChild ==
    ASSUME PoolInv, ChildTypes, NEW v \in Worker, ChildInv(v),
           Kept(v) \/ GivenOn(v, active, running),
           \/ life'[v] = life[v]
           \/ life[v] = "unborn" /\ life'[v] = "starting",
           sent'[v] = IF v \in SentTo /\ life'[v] = "up"
                      THEN Append(sent[v], active'[v]) ELSE sent[v],
           waiting'[v] = waiting[v], threads'[v] = threads[v], ready'[v] = ready[v],
           taken'[v] = taken[v], answered'[v] = answered[v],
           NothingGivenUp' => NothingGivenUp
    PROVE  ChildInv(v)'
<1> USE DEF Up
<1>1. life'[v] # "errored" /\ (~Up(v)' /\ NothingGivenUp' => threads'[v] <= 1)
  BY DEF ChildInv
<1>2. Unused(v)'
  BY DEF ChildInv, Unused, Kept, GivenOn
<1>3. ASSUME Up(v)', NothingGivenUp' PROVE OneThread(v)'
  <2>1. Up(v) /\ OneThread(v)
    BY <1>3 DEF ChildInv
  <2>2. active[v] # NoAssignment => active'[v] = active[v]
    BY DEF Kept, GivenOn
  <2>3. CASE Kept(v)
    <3>1. sent'[v] = sent[v]
      BY <2>3 DEF Kept, SentTo
    <3> QED BY <2>1, <2>3, <3>1 DEF OneThread, Vacant, Busy, Kept
  <2>4. CASE GivenOn(v, active, running)
    <3>1. active'[v] # NoAssignment /\ active'[v] # active[v]
      BY <2>4 DEF GivenOn, Assignment, NoAssignment
    <3>2. Vacant(v)
      BY <2>1, <2>4 DEF OneThread, Busy, GivenOn
    <3>3. sent'[v] = <<active'[v]>>
      BY <1>3, <3>1, <3>2 DEF Vacant, SentTo
    <3>4. running'[v] = {active'[v]}
      BY <1>3, <2>4, <3>2 DEF Vacant, GivenOn
    <3> QED BY <2>1, <3>1, <3>2, <3>3, <3>4 DEF OneThread, Vacant, Busy
  <2> QED BY <2>3, <2>4
<1> QED BY <1>1, <1>2, <1>3 DEF ChildInv

\* What the parent sends is an assignment: the type of what is unread.
LEMMA SendsTyped ==
    ASSUME PoolInv', NEW unread \in [Worker -> Seq(Assignment)], SendsBehind(unread)
    PROVE  /\ sent' \in [Worker -> Seq(Assignment)]
           /\ \A v \in Worker : sent'[v] =
                 IF v \in SentTo /\ life'[v] = "up" THEN Append(unread[v], active'[v])
                 ELSE unread[v]
<1>1. \A v \in SentTo : v \in Worker /\ active'[v] \in Assignment
  BY DEF SentTo, PoolInv, Books, Typed
<1>2. \A v \in Worker : v \in SentTo => Append(unread[v], active'[v]) \in Seq(Assignment)
  BY <1>1
<1> QED BY <1>2 DEF SendsBehind

\* A step of the parent that it hears of no child in.
LEMMA ParentOnlyKeepsCluster ==
    ASSUME PoolInv, LimiterInv, ClusterInv, ~halted, ParentOnly
    PROVE  ClusterInv'
<1>1. /\ Sends /\ UNCHANGED <<waiting, threads, ready, taken, answered>>
      /\ SharedHandler
  BY DEF ParentOnly, SharedHandler
<1>2. PoolInv' /\ ProcessShared
  BY <1>1, SharedHandlerKeepsInv DEF Sends, ProcessShared
<1>3. NothingGivenUp' => NothingGivenUp
  BY <1>2, GivenUpStays DEF ProcessNext, ProcessStep
<1>4. /\ sent' \in [Worker -> Seq(Assignment)]
      /\ \A v \in Worker : sent'[v] =
            IF v \in SentTo /\ life'[v] = "up" THEN Append(sent[v], active'[v]) ELSE sent[v]
  BY <1>1, <1>2, SendsTyped DEF Sends, ClusterInv, ChildTypes
<1>5. /\ Typed(idle, active, pending, status, issued, life) /\ Free(idle, active)
      /\ Books(idle, active, pending, status, issued, life)
      /\ running \in [Worker -> SUBSET Assignment]
  BY DEF PoolInv, Books, Answers
<1>6. ASSUME NEW v \in Worker, Kept(v) \/ GivenOn(v, active, running),
             \/ life'[v] = life[v]
             \/ life[v] = "unborn" /\ life'[v] = "starting"
      PROVE  ChildInv(v)'
  BY <1>1, <1>3, <1>4, <1>6, GivenKeepsChild DEF ClusterInv
<1>7. ChildTypes'
  BY <1>1, <1>4 DEF ClusterInv, ChildTypes
<1>8. CASE Boot \/ AssignRefused \/ AssignSpawns \/ Destroy
  <2>1. UNCHANGED <<active, running>>
    BY <1>8 DEF Boot, AssignRefused, AssignSpawns, Destroy, queues
  <2>2. \/ life' = life
        \/ \E w \in Worker : life[w] = "unborn" /\ life' = [life EXCEPT ![w] = "starting"]
    BY <1>8 DEF Boot, AssignRefused, AssignSpawns, Destroy, SpawnWorker, workers
  <2>3. life \in [Worker -> Life]
    BY <1>5 DEF Typed
  <2>4. \A v \in Worker : \/ life'[v] = life[v]
                          \/ life[v] = "unborn" /\ life'[v] = "starting"
    BY <2>2, <2>3
  <2> QED BY <1>6, <1>7, <2>1, <2>4 DEF Kept, ClusterInv
<1>9. CASE AssignAccepted
  <2> DEFINE pend == Append(pending, issued + 1)
  <2>1. UNCHANGED life /\ Activate(idle, active, pend, running) /\ issued < MaxAssign
    BY <1>9 DEF AssignAccepted, Accepts, Assigns, workers
  <2>2. Typed(idle, active, pend, status, issued, life)
    <3>1. issued + 1 \in Assignment
      BY <1>5, <2>1, BoundAssumption DEF Typed, Assignment
    <3>2. pend \in Seq(Assignment)
      BY <1>5, <3>1 DEF Typed
    <3> QED BY <1>5, <3>2 DEF Typed
  <2> HIDE DEF pend
  <2>3. \A v \in Worker : Kept(v) \/ GivenOn(v, active, running)
    BY <1>5, <2>1, <2>2, ActivateGives DEF Kept
  <2> QED BY <1>6, <1>7, <2>1, <2>3 DEF ClusterInv
<1>10. ASSUME NEW w \in Worker, Timeout(w) PROVE ClusterInv'
  <2>1. UNCHANGED life /\ active[w] # NoAssignment
        /\ DeactivateWorkerWithError(w, "TIMEOUT", running)
    BY <1>10 DEF Timeout, workers
  <2>2. status' = [status EXCEPT ![active[w]] = "TIMEOUT"]
    BY <2>1 DEF DeactivateWorkerWithError
  <2>3. active[w] \in Assignment /\ status \in [Assignment -> Status]
    BY <1>5, <2>1 DEF Typed
  <2>4. ~NothingGivenUp'
    BY <2>2, <2>3 DEF NothingGivenUp
  <2>5. ASSUME NEW v \in Worker PROVE ChildInv(v)'
    <3>1. ChildInv(v)
      BY DEF ClusterInv
    <3>2. life'[v] \in {"unborn", "starting"} => running'[v] = running[v] /\ v \notin SentTo
      <4>1. life[v] \in {"unborn", "starting"} => v # w
        BY <1>5, <2>1 DEF Books, Born
      <4>2. life'[v] \in {"unborn", "starting"} => running'[v] = running[v]
        <5>1. Deactivate(w, running)
          BY <2>1 DEF DeactivateWorkerWithError
        <5>2. ASSUME NEW u, NEW a, life'[v] # "up", running' = Posted(running, u, a)
              PROVE  running'[v] = running[v]
          BY <1>5, <5>2 DEF Posted
        <5> QED BY <5>1, <5>2 DEF Deactivate, Activate
      <4>3. life'[v] \in {"unborn", "starting"} => active'[v] = NoAssignment
        BY <1>2 DEF PoolInv, Books, Born
      <4> QED BY <4>2, <4>3 DEF SentTo
    <3> QED BY <1>1, <1>4, <2>1, <2>4, <3>1, <3>2 DEF ChildInv, Unused, Up
  <2> QED BY <1>7, <2>5 DEF ClusterInv
<1> QED BY <1>8, <1>9, <1>10 DEF ParentOnly

\* A child comes online, with a thread that is idle.
LEMMA ChildOnlineKeepsCluster ==
    ASSUME PoolInv, LimiterInv, ClusterInv, ~halted, NEW w \in Worker, ChildOnline(w)
    PROVE  ClusterInv'
<1> USE DEF Up
<1>1. /\ Sends /\ WorkerOnline(w)
      /\ threads' = [threads EXCEPT ![w] = 1]
      /\ ready' = [ready EXCEPT ![w] = 1]
      /\ UNCHANGED <<waiting, taken, answered>>
  BY DEF ChildOnline
<1>2. /\ life[w] = "starting" /\ life' = [life EXCEPT ![w] = "up"]
      /\ UNCHANGED <<active, running, status>>
  BY <1>1 DEF WorkerOnline, promises
<1>3. PoolInv'
  BY <1>1, WorkerOnlineKeepsInv
<1>4. SentTo = {}
  BY <1>2 DEF SentTo
<1>5. sent' \in [Worker -> Seq(Assignment)] /\ \A v \in Worker : sent'[v] = sent[v]
  BY <1>1, <1>3, <1>4, SendsTyped DEF Sends, ClusterInv, ChildTypes
<1>6. /\ life \in [Worker -> Life] /\ active[w] = NoAssignment
  BY <1>2 DEF PoolInv, Books, Typed, Born
<1>7. ChildTypes'
  BY <1>1, <1>5 DEF ClusterInv, ChildTypes
<1>8. ChildInv(w)'
  BY <1>1, <1>2, <1>5, <1>6 DEF ClusterInv, ChildTypes, ChildInv, Unused, OneThread, Vacant
<1>9. ASSUME NEW v \in Worker, v # w PROVE ChildInv(v)'
  <2>1. /\ ChildInv(v) /\ life'[v] = life[v] /\ threads'[v] = threads[v]
        /\ ready'[v] = ready[v]
    BY <1>1, <1>2, <1>6, <1>9 DEF ClusterInv, ChildTypes
  <2> QED BY <1>1, <1>2, <1>5, <2>1 
          DEF ChildInv, Unused, OneThread, Vacant, Busy, NothingGivenUp
<1> QED BY <1>7, <1>8, <1>9 DEF ClusterInv

\* The parent reads an answer, and gives the child, or another, what waits.
LEMMA ReadsKeepsCluster ==
    ASSUME PoolInv, LimiterInv, ClusterInv, ~halted, NEW w \in Worker, Reads(w)
    PROVE  ClusterInv'
<1> USE DEF Up
<1>1. /\ Reply(w) /\ Sends
      /\ UNCHANGED <<waiting, threads, ready, taken, life>>
  BY DEF Reads, Reply, workers
<1>2. PICK c \in answered[w] \ running'[w] : answered' = [answered EXCEPT ![w] = @ \ {c}]
  BY DEF Reads
<1>3. PICK b \in running[w] : DeactivateWorker(w, b, [running EXCEPT ![w] = @ \ {b}])
  BY <1>1 DEF Reply
<1>4. PoolInv' /\ ProcessShared
  BY <1>1, SharedHandlerKeepsInv DEF SharedHandler, Sends, ProcessShared
<1>5. NothingGivenUp' => NothingGivenUp
  BY <1>4, GivenUpStays DEF ProcessNext, ProcessStep
<1>6. /\ sent' \in [Worker -> Seq(Assignment)]
      /\ \A v \in Worker : sent'[v] =
            IF v \in SentTo /\ life'[v] = "up" THEN Append(sent[v], active'[v]) ELSE sent[v]
  BY <1>1, <1>4, SendsTyped DEF Sends, ClusterInv, ChildTypes
<1>7. ChildTypes'
  BY <1>1, <1>2, <1>6 DEF ClusterInv, ChildTypes
<1>8. /\ Books(idle, active, pending, status, issued, life)
      /\ active \in [Worker -> Assignment \cup {NoAssignment}]
      /\ running \in [Worker -> SUBSET Assignment]
  BY DEF PoolInv, Books, Typed, Answers
<1>9. life[w] \notin {"unborn", "starting"}
  BY <1>3 DEF ClusterInv, ChildInv, Unused
<1> DEFINE run == [running EXCEPT ![w] = @ \ {b}]
           act == [active EXCEPT ![w] = NoAssignment]
           idl == Append(idle, w)
<1>10. /\ run \in [Worker -> SUBSET Assignment] /\ run[w] = running[w] \ {b}
       /\ \A v \in Worker : v # w => run[v] = running[v]
  BY <1>8
<1>11. CASE active[w] = NoAssignment
  <2>1. running' = run /\ UNCHANGED <<active, status>>
    BY <1>3, <1>11 DEF DeactivateWorker, promises
  <2> HIDE DEF run
  <2>2. SentTo = {}
    BY <2>1 DEF SentTo
  <2>3. ChildInv(w)'
    <3>1. ~(Up(w) /\ NothingGivenUp)
      BY <1>3, <1>11 DEF ClusterInv, ChildInv, OneThread, Vacant, Busy
    <3> QED BY <1>1, <1>5, <1>9, <3>1 DEF ClusterInv, ChildInv, Unused
  <2>4. ASSUME NEW v \in Worker, v # w PROVE ChildInv(v)'
    <3>1. Kept(v) /\ answered'[v] = answered[v]
      BY <1>2, <1>10, <2>1, <2>4 DEF Kept, ClusterInv, ChildTypes
    <3> QED BY <1>1, <1>5, <1>6, <3>1, GivenKeepsChild DEF ClusterInv
  <2> QED BY <1>7, <2>3, <2>4 DEF ClusterInv
<1>12. CASE active[w] # NoAssignment
  <2>1. Activate(idl, act, pending, run)
    BY <1>3, <1>12 DEF DeactivateWorker, Deactivate
  <2>2. /\ act \in [Worker -> Assignment \cup {NoAssignment}] /\ act[w] = NoAssignment
        /\ \A v \in Worker : v # w => act[v] = active[v]
    BY <1>8
  <2>3. idl \in Seq(Worker) /\ Range(idl) = Range(idle) \cup {w} /\ Range(idle) \subseteq Worker
    BY <1>8, AppendProperties, RangeAppend, LenProperties DEF Books, Typed, Range
  <2> HIDE DEF idl, act, run
  <2>4. Typed(idl, act, pending, status, issued, life) /\ Free(idl, act)
    BY <1>8, <2>2, <2>3 DEF Books, Typed, Free
  <2>5. \A v \in Worker :
           \/ active'[v] = act[v] /\ running'[v] = run[v]
           \/ GivenOn(v, act, run) /\ active'[v] \in Range(pending)
    BY <1>10, <2>1, <2>4, ActivateGives
  <2>6. ASSUME NEW v \in Worker, v # w PROVE ChildInv(v)'
    <3>1. answered'[v] = answered[v]
      BY <1>2, <2>6 DEF ClusterInv, ChildTypes
    <3>2. Kept(v) \/ GivenOn(v, active, running)
      BY <1>10, <2>2, <2>5, <2>6 DEF Kept, GivenOn
    <3> QED BY <1>1, <1>5, <1>6, <3>1, <3>2, GivenKeepsChild DEF ClusterInv
  <2>7. ChildInv(w)'
    <3>1. ASSUME Up(w)', NothingGivenUp' PROVE OneThread(w)'
      <4>1. Up(w) /\ OneThread(w)
        BY <1>1, <1>5, <3>1 DEF ClusterInv, ChildInv
      <4>2. Busy(w) /\ b = active[w] /\ run[w] = {}
        BY <1>10, <1>12, <4>1 DEF OneThread, Vacant, Busy
      <4>3. /\ sent[w] = <<>> /\ taken[w] = {} /\ ready[w] = 1 /\ answered'[w] = {}
        BY <1>2, <4>2 DEF Busy, ClusterInv, ChildTypes
      <4>4. CASE active'[w] = NoAssignment /\ running'[w] = {}
        <5>1. sent'[w] = <<>>
          BY <1>6, <4>3, <4>4 DEF SentTo
        <5> QED BY <1>1, <4>1, <4>3, <4>4, <5>1 DEF OneThread, Vacant
      <4>5. CASE GivenOn(w, act, run) /\ active'[w] \in Range(pending)
        <5>1. active[w] \notin Range(pending)
          BY <1>8 DEF Books, Apart
        <5>2. w \in SentTo /\ active'[w] # NoAssignment
          BY <4>5, <5>1 DEF SentTo, GivenOn, Assignment, NoAssignment
        <5>3. sent'[w] = <<active'[w]>> /\ running'[w] = {active'[w]}
          BY <1>6, <3>1, <4>2, <4>3, <4>5, <5>2 DEF GivenOn
        <5> QED BY <1>1, <4>1, <4>3, <5>2, <5>3 DEF OneThread, Busy
      <4> QED BY <2>2, <2>5, <4>2, <4>4, <4>5
    <3>2. life'[w] = life[w] /\ threads'[w] = threads[w] /\ ChildInv(w)
      BY <1>1 DEF ClusterInv
    <3> QED BY <1>5, <1>9, <3>1, <3>2 DEF ChildInv, Unused
  <2> QED BY <1>7, <2>6, <2>7 DEF ClusterInv
<1> QED BY <1>11, <1>12

\* A step of a child alone leaves the others as they are.
LEMMA OthersKept ==
    ASSUME ClusterInv, NEW w \in Worker, ChildTypes', ChildInv(w)', UNCHANGED vars,
           \A v \in Worker \ {w} :
               /\ sent'[v] = sent[v] /\ waiting'[v] = waiting[v] /\ threads'[v] = threads[v]
               /\ ready'[v] = ready[v] /\ taken'[v] = taken[v] /\ answered'[v] = answered[v]
    PROVE  ClusterInv'
<1>1. UNCHANGED <<life, active, running, status>>
  BY DEF vars, queues, promises, workers
<1>2. \A v \in Worker \ {w} : ChildInv(v)'
  BY <1>1 DEF ClusterInv, ChildInv, Unused, OneThread, Vacant, Busy, NothingGivenUp, Up
<1> QED BY <1>2 DEF ClusterInv

\* A child reads what it is sent, which its thread takes if it is idle.
LEMMA ChildReadsKeepsCluster ==
    ASSUME ClusterInv, NEW w \in Worker, ChildReads(w) PROVE ClusterInv'
<1> USE DEF Up
<1> DEFINE a == Head(sent[w])
           q == Append(waiting[w], a)
<1>1. /\ Up(w) /\ sent[w] # <<>> /\ UNCHANGED vars /\ UNCHANGED answered
      /\ sent' = [sent EXCEPT ![w] = Tail(@)]
      /\ Dispatch(w, q, ready[w])
      /\ threads' = [threads EXCEPT ![w] =
                        IF ready[w] = 0 /\ @ < ThreadLimit THEN @ + 1 ELSE @]
  BY DEF ChildReads
<1>2. ChildTypes /\ ChildInv(w)
  BY DEF ClusterInv
<1>3. a \in Assignment /\ Tail(sent[w]) \in Seq(Assignment)
  BY <1>1, <1>2, HeadTailProperties DEF ChildTypes
<1>4. q \in Seq(Assignment) /\ q # <<>>
  <2>1. waiting[w] \in Seq(Assignment)
    BY <1>2 DEF ChildTypes
  <2> HIDE DEF a
  <2> QED BY <1>3, <2>1, AppendProperties
<1>5. Head(q) \in Assignment /\ Tail(q) \in Seq(Assignment)
  BY <1>4, HeadTailProperties
<1> HIDE DEF q, a
<1>6. ChildTypes'
  <2>1. sent' \in [Worker -> Seq(Assignment)] /\ threads' \in [Worker -> Nat]
    BY <1>1, <1>2, <1>3 DEF ChildTypes
  <2>2. /\ waiting' \in [Worker -> Seq(Assignment)] /\ ready' \in [Worker -> Nat]
        /\ taken' \in [Worker -> SUBSET Assignment]
    <3>1. CASE ready[w] > 0
      <4>1. /\ taken' = [taken EXCEPT ![w] = @ \cup {Head(q)}]
            /\ ready' = [ready EXCEPT ![w] = ready[w] - 1]
            /\ waiting' = [waiting EXCEPT ![w] = Tail(q)]
        BY <1>1, <1>4, <3>1 DEF Dispatch
      <4>2. ready[w] - 1 \in Nat
        BY <1>2, <3>1 DEF ChildTypes
      <4> QED BY <1>2, <1>5, <4>1, <4>2 DEF ChildTypes
    <3>2. CASE ~(ready[w] > 0)
      <4>1. /\ taken' = taken
            /\ ready' = [ready EXCEPT ![w] = ready[w]]
            /\ waiting' = [waiting EXCEPT ![w] = q]
        BY <1>1, <3>2 DEF Dispatch
      <4> QED BY <1>2, <1>4, <4>1 DEF ChildTypes
    <3> QED BY <3>1, <3>2
  <2> QED BY <1>1, <1>2, <2>1, <2>2 DEF ChildTypes
<1>7. ChildInv(w)'
  <2>1. UNCHANGED <<life, active, running, status>>
    BY <1>1 DEF vars, queues, promises, workers
  <2>2. ASSUME NothingGivenUp PROVE OneThread(w)'
    <3>1. OneThread(w) /\ Busy(w) /\ sent[w] = <<active[w]>>
      BY <1>1, <1>2, <2>2 DEF ChildInv, OneThread, Vacant, Busy
    <3>2. taken[w] = {} /\ answered[w] = {} /\ ready[w] = 1
      BY <3>1 DEF Busy
    <3>3. q = <<active[w]>>
      BY <3>1 DEF q, a, OneThread
    <3>4. Head(q) = active[w] /\ Tail(q) = <<>>
      BY <3>3
    <3>5. taken'[w] = {active[w]} /\ ready'[w] = 0 /\ waiting'[w] = <<>>
      <4>1. /\ taken' = [taken EXCEPT ![w] = @ \cup {Head(q)}]
            /\ ready' = [ready EXCEPT ![w] = ready[w] - 1]
            /\ waiting' = [waiting EXCEPT ![w] = Tail(q)]
        BY <1>1, <1>4, <3>2 DEF Dispatch
      <4> QED BY <1>2, <3>2, <3>4, <4>1 DEF ChildTypes
    <3>6. sent'[w] = <<>> /\ threads'[w] = 1
      BY <1>1, <1>2, <3>1, <3>2 DEF ChildTypes, OneThread
    <3> QED BY <1>1, <2>1, <3>1, <3>2, <3>5, <3>6 DEF OneThread, Busy
  <2> QED BY <1>1, <1>2, <2>1, <2>2 DEF ChildInv, Unused, NothingGivenUp
<1> QED BY <1>1, <1>2, <1>6, <1>7, OthersKept DEF ChildTypes, Dispatch

\* A thread comes online: not the first, which is idle or has what is taken.
LEMMA ThreadOnlineKeepsCluster ==
    ASSUME ClusterInv, NEW w \in Worker, ThreadOnline(w) PROVE ClusterInv'
<1> USE DEF Up
<1>1. /\ Up(w) /\ ready[w] + Cardinality(taken[w]) < threads[w]
      /\ ready' = [ready EXCEPT ![w] = @ + 1]
      /\ UNCHANGED vars /\ UNCHANGED <<sent, waiting, threads, taken, answered>>
  BY DEF ThreadOnline
<1>2. ChildTypes /\ ChildInv(w)
  BY DEF ClusterInv
<1>3. ChildTypes'
  BY <1>1, <1>2 DEF ChildTypes
<1>4. ~NothingGivenUp
  <2> SUFFICES ASSUME NothingGivenUp PROVE FALSE
    OBVIOUS
  <2>1. OneThread(w)
    BY <1>1, <1>2 DEF ChildInv
  <2>2. Cardinality({}) = 0 /\ Cardinality({active[w]}) = 1
    BY FS_EmptySet, FS_Singleton
  <2>3. ready[w] + Cardinality(taken[w]) = 1
    <3>1. \/ ready[w] = 1 /\ taken[w] = {}
          \/ ready[w] = 0 /\ taken[w] = {active[w]}
      BY <2>1 DEF OneThread, Vacant, Busy
    <3>2. taken[w] = {} => Cardinality(taken[w]) = 0
      BY <2>2
    <3>3. taken[w] = {active[w]} => Cardinality(taken[w]) = 1
      BY <2>2
    <3> QED BY <3>1, <3>2, <3>3
  <2> QED BY <1>1, <2>1, <2>3 DEF OneThread
<1>5. UNCHANGED <<life, running, status>>
  BY <1>1 DEF vars, queues, promises, workers
<1>6. ChildInv(w)'
  BY <1>1, <1>2, <1>4, <1>5 DEF ChildInv, Unused, NothingGivenUp
<1> QED BY <1>1, <1>2, <1>3, <1>6, OthersKept DEF ChildTypes

\* A thread answers: it is idle then, as nothing waits.
LEMMA ThreadAnswersKeepsCluster ==
    ASSUME ClusterInv, NEW w \in Worker, ThreadAnswers(w) PROVE ClusterInv'
<1> USE DEF Up
<1>1. PICK a \in taken[w] :
         /\ answered' = [answered EXCEPT ![w] = @ \cup {a}]
         /\ LET left == [taken EXCEPT ![w] = @ \ {a}] IN
               IF waiting[w] = <<>>
               THEN /\ taken' = left
                    /\ ready' = [ready EXCEPT ![w] = @ + 1]
                    /\ UNCHANGED waiting
               ELSE /\ taken' = [left EXCEPT ![w] = @ \cup {Head(waiting[w])}]
                    /\ waiting' = [waiting EXCEPT ![w] = Tail(@)]
                    /\ UNCHANGED ready
  BY DEF ThreadAnswers
<1>2. Up(w) /\ UNCHANGED vars /\ UNCHANGED <<sent, threads>>
  BY DEF ThreadAnswers
<1>3. ChildTypes /\ ChildInv(w)
  BY DEF ClusterInv
<1>4. ChildTypes'
  <2>1. waiting[w] # <<>> => Head(waiting[w]) \in Assignment /\ Tail(waiting[w]) \in Seq(Assignment)
    BY <1>3, HeadTailProperties DEF ChildTypes
  <2>2. a \in Assignment /\ answered' \in [Worker -> SUBSET Assignment]
    BY <1>1, <1>3 DEF ChildTypes
  <2> DEFINE left == [taken EXCEPT ![w] = @ \ {a}]
  <2>3. left \in [Worker -> SUBSET Assignment]
    BY <1>3 DEF ChildTypes
  <2>4. CASE waiting[w] = <<>>
    <3>1. taken' = left /\ ready' = [ready EXCEPT ![w] = @ + 1] /\ UNCHANGED waiting
      BY <1>1, <2>4
    <3> HIDE DEF left
    <3> QED BY <1>2, <1>3, <2>2, <2>3, <3>1 DEF ChildTypes
  <2>5. CASE waiting[w] # <<>>
    <3>1. /\ taken' = [left EXCEPT ![w] = @ \cup {Head(waiting[w])}]
          /\ waiting' = [waiting EXCEPT ![w] = Tail(@)]
          /\ UNCHANGED ready
      BY <1>1, <2>5
    <3> HIDE DEF left
    <3> QED BY <1>2, <1>3, <2>1, <2>2, <2>3, <2>5, <3>1 DEF ChildTypes
  <2> QED BY <2>4, <2>5
<1>5. ChildInv(w)'
  <2>1. UNCHANGED <<life, active, running, status>>
    BY <1>2 DEF vars, queues, promises, workers
  <2>2. ASSUME NothingGivenUp PROVE OneThread(w)'
    <3>1. OneThread(w) /\ Busy(w) /\ taken[w] = {active[w]} /\ a = active[w]
      BY <1>1, <1>2, <1>3, <2>2 DEF ChildInv, OneThread, Vacant, Busy
    <3>2. sent[w] = <<>> /\ answered[w] = {} /\ ready[w] = 0 /\ waiting[w] = <<>>
      BY <3>1 DEF Busy, OneThread
    <3>3. taken'[w] = {} /\ ready'[w] = 1 /\ answered'[w] = {active[w]} /\ waiting'[w] = <<>>
      BY <1>1, <1>3, <3>1, <3>2 DEF ChildTypes
    <3> QED BY <1>2, <2>1, <3>1, <3>2, <3>3 DEF OneThread, Busy
  <2> QED BY <1>2, <1>3, <2>1, <2>2 DEF ChildInv, Unused, NothingGivenUp
<1> QED BY <1>1, <1>2, <1>3, <1>4, <1>5, OthersKept DEF ChildTypes

\* A child ends and another is created.  What it had is rejected, and another child
\* may be given what waits.
LEMMA ChildEndsKeepsCluster ==
    ASSUME PoolInv, LimiterInv, ClusterInv, ~halted, NEW w \in Worker, ChildEnds(w)
    PROVE  ClusterInv'
<1> USE DEF Up
<1>1. /\ ProcessExit(w)
      /\ SendsBehind([sent EXCEPT ![w] = <<>>])
      /\ answered' = [answered EXCEPT ![w] = running'[w]]
      /\ waiting' = [waiting EXCEPT ![w] = <<>>]
      /\ threads' = [threads EXCEPT ![w] = 0]
      /\ ready' = [ready EXCEPT ![w] = 0]
      /\ taken' = [taken EXCEPT ![w] = {}]
  BY DEF ChildEnds, ChildGone
<1>2. PICK late \in SUBSET running[w] :
         DeactivateWorkerWithError(w, "WORKER_EXIT", [running EXCEPT ![w] = late])
  BY <1>1 DEF ProcessExit
<1>3. PICK n \in Worker :
         /\ life[n] = "unborn"
         /\ life' = [life EXCEPT ![w] = "dead", ![n] = "starting"]
  BY <1>1 DEF ProcessExit, ExitAndRespawn
<1>4. PoolInv' /\ ProcessNext
  BY <1>1, ProcessExitKeepsInv DEF ProcessNext, ProcessStep
<1>5. NothingGivenUp' => NothingGivenUp
  BY <1>4, GivenUpStays
<1>6. /\ Books(idle, active, pending, status, issued, life)
      /\ active \in [Worker -> Assignment \cup {NoAssignment}]
      /\ running \in [Worker -> SUBSET Assignment] /\ running' \in [Worker -> SUBSET Assignment]
      /\ life \in [Worker -> Life] /\ life[w] \in Live
  BY <1>1, <1>4 DEF PoolInv, Books, Typed, Answers, ProcessExit
<1>7. /\ life'[w] = "dead"
      /\ \A v \in Worker \ {w} : \/ life'[v] = life[v]
                                 \/ life[v] = "unborn" /\ life'[v] = "starting"
  BY <1>3, <1>6 DEF Live
<1> DEFINE unread == [sent EXCEPT ![w] = <<>>]
<1>8. unread \in [Worker -> Seq(Assignment)] /\ \A v \in Worker \ {w} : unread[v] = sent[v]
  BY DEF ClusterInv, ChildTypes
<1> HIDE DEF unread
<1>9. /\ sent' \in [Worker -> Seq(Assignment)]
      /\ \A v \in Worker \ {w} : sent'[v] =
            IF v \in SentTo /\ life'[v] = "up" THEN Append(sent[v], active'[v]) ELSE sent[v]
  BY <1>1, <1>4, <1>8, SendsTyped DEF unread
<1>10. ChildTypes'
  <2>1. ChildTypes /\ running'[w] \in SUBSET Assignment
    BY <1>6 DEF ClusterInv
  <2>2. waiting' \in [Worker -> Seq(Assignment)]
    BY <1>1, <2>1 DEF ChildTypes
  <2>3. threads' \in [Worker -> Nat] /\ ready' \in [Worker -> Nat]
    BY <1>1, <2>1 DEF ChildTypes
  <2>4. taken' \in [Worker -> SUBSET Assignment] /\ answered' \in [Worker -> SUBSET Assignment]
    BY <1>1, <2>1 DEF ChildTypes
  <2> QED BY <1>9, <2>2, <2>3, <2>4 DEF ChildTypes
<1>11. ChildInv(w)'
  BY <1>1, <1>7 DEF ClusterInv, ChildTypes, ChildInv, Unused
<1>12. ASSUME NEW v \in Worker \ {w} PROVE Kept(v) \/ GivenOn(v, active, running)
  <2> DEFINE run == [running EXCEPT ![w] = late]
             act == [active EXCEPT ![w] = NoAssignment]
             idl == Append(idle, w)
  <2>1. run \in [Worker -> SUBSET Assignment] /\ run[v] = running[v]
    BY <1>6
  <2>2. CASE active[w] = NoAssignment
    BY <1>2, <2>1, <2>2 DEF DeactivateWorkerWithError, Kept
  <2>3. CASE active[w] # NoAssignment
    <3>1. Activate(idl, act, pending, run)
      BY <1>2, <2>3 DEF DeactivateWorkerWithError, Deactivate
    <3>2. /\ act \in [Worker -> Assignment \cup {NoAssignment}] /\ act[w] = NoAssignment
          /\ \A u \in Worker : u # w => act[u] = active[u]
      BY <1>6
    <3>3. idl \in Seq(Worker) /\ Range(idl) = Range(idle) \cup {w} /\ Range(idle) \subseteq Worker
      <4>1. idle \in Seq(Worker)
        BY <1>6 DEF Books, Typed
      <4> QED BY <4>1, AppendProperties, RangeAppend, LenProperties DEF Range
    <3> HIDE DEF idl, act, run
    <3>4. Typed(idl, act, pending, status, issued, life) /\ Free(idl, act)
      BY <1>6, <3>2, <3>3 DEF Books, Typed, Free
    <3>5. \/ active'[v] = act[v] /\ running'[v] = run[v]
          \/ GivenOn(v, act, run)
      BY <2>1, <3>1, <3>4, ActivateGives
    <3> QED BY <2>1, <3>2, <3>5 DEF Kept, GivenOn
  <2> QED BY <2>2, <2>3
<1>13. ASSUME NEW v \in Worker \ {w} PROVE ChildInv(v)'
  <2>1. /\ waiting'[v] = waiting[v] /\ threads'[v] = threads[v] /\ ready'[v] = ready[v]
        /\ taken'[v] = taken[v] /\ answered'[v] = answered[v]
    BY <1>1 DEF ClusterInv, ChildTypes
  <2> QED BY <1>5, <1>7, <1>9, <1>12, <2>1, GivenKeepsChild DEF ClusterInv
<1> QED BY <1>10, <1>11, <1>13 DEF ClusterInv

\* A child ends with code 0: what it had is gone, and nothing else changes.
LEMMA ChildExitsZeroKeepsCluster ==
    ASSUME PoolInv, LimiterInv, ClusterInv, NEW w \in Worker, ChildExitsZero(w)
    PROVE  ClusterInv'
<1> USE DEF Up
<1>1. /\ ProcessExitZero(w)
      /\ sent' = [sent EXCEPT ![w] = <<>>]
      /\ answered' = [answered EXCEPT ![w] = running'[w]]
      /\ waiting' = [waiting EXCEPT ![w] = <<>>]
      /\ threads' = [threads EXCEPT ![w] = 0]
      /\ ready' = [ready EXCEPT ![w] = 0]
      /\ taken' = [taken EXCEPT ![w] = {}]
  BY DEF ChildExitsZero, ChildGone
<1>2. PICK late \in SUBSET running[w] : running' = [running EXCEPT ![w] = late]
  BY <1>1 DEF ProcessExitZero
<1>3. /\ life' = [life EXCEPT ![w] = "dead"]
      /\ UNCHANGED <<active, status>>
  BY <1>1 DEF ProcessExitZero, promises
<1>4. life \in [Worker -> Life] /\ running \in [Worker -> SUBSET Assignment]
  BY DEF PoolInv, Books, Typed, Answers
<1>5. running'[w] = late /\ late \in SUBSET Assignment
  BY <1>2, <1>4
<1>6. ChildTypes'
  <2>1. ChildTypes
    BY DEF ClusterInv
  <2> QED BY <1>1, <1>5, <2>1 DEF ChildTypes
<1>7. ChildInv(w)'
  BY <1>1, <1>3, <1>4 DEF ClusterInv, ChildTypes, ChildInv, Unused
<1>8. ASSUME NEW v \in Worker \ {w} PROVE ChildInv(v)'
  <2>1. /\ ChildInv(v) /\ life'[v] = life[v] /\ running'[v] = running[v]
        /\ sent'[v] = sent[v] /\ waiting'[v] = waiting[v] /\ threads'[v] = threads[v]
        /\ ready'[v] = ready[v] /\ taken'[v] = taken[v] /\ answered'[v] = answered[v]
    BY <1>1, <1>2, <1>3, <1>4 DEF ClusterInv, ChildTypes
  <2> QED BY <1>3, <2>1 DEF ChildInv, Unused, OneThread, Vacant, Busy, NothingGivenUp
<1> QED BY <1>6, <1>7, <1>8 DEF ClusterInv

\* The parent ends, or its initial period: no child is given anything.
LEMMA QuietKeepsCluster ==
    ASSUME PoolInv, ClusterInv, InitPeriodOver \/ ParentEnds PROVE ClusterInv'
<1> USE DEF Up
<1>1. UNCHANGED children /\ UNCHANGED <<active, running, status>>
  BY DEF InitPeriodOver, ParentEnds, InitPeriodEnds, HostEnds, ProcessExitFatal, ForkFails,
         queues, promises
<1>2. life' = life \/ \E w \in Worker : life[w] \in Live /\ life' = [life EXCEPT ![w] = "dead"]
  BY DEF InitPeriodOver, ParentEnds, InitPeriodEnds, HostEnds, ProcessExitFatal, ForkFails,
         workers, Live
<1>3. ASSUME NEW v \in Worker PROVE ChildInv(v)'
  <2>1. life'[v] = life[v] \/ life'[v] = "dead"
    BY <1>2 DEF PoolInv, Books, Typed
  <2>2. NothingGivenUp => threads[v] <= 1
    BY DEF ClusterInv, ChildInv, OneThread
  <2> QED BY <1>1, <2>1, <2>2
          DEF ClusterInv, ChildInv, Unused, OneThread, Vacant, Busy, NothingGivenUp, children
<1> QED BY <1>1, <1>3 DEF ClusterInv, ChildTypes, children

\* Every step of the cluster keeps what holds of its children.
LEMMA ClusterStepKeepsInv ==
    ASSUME PoolInv, LimiterInv, ClusterInv, [ClusterNext]_clusterVars PROVE ClusterInv'
<1>1. CASE UNCHANGED clusterVars
  BY <1>1 DEF clusterVars, children, vars, queues, promises, workers, ClusterInv, ChildTypes,
              ChildInv, Unused, OneThread, Vacant, Busy, NothingGivenUp, Up
<1> QED BY <1>1, ParentOnlyKeepsCluster, ChildOnlineKeepsCluster, ReadsKeepsCluster,
           ChildReadsKeepsCluster, ThreadOnlineKeepsCluster, ThreadAnswersKeepsCluster,
           ChildEndsKeepsCluster, ChildExitsZeroKeepsCluster, QuietKeepsCluster
        DEF ClusterNext, ThreadFails, ThreadTimeout

\* What each child has, and its one thread, for any number of children, threads and
\* assignments (Cluster.ts:16-38, adapter.process.ts:14-20, AWorkerPool.ts:93-126).
THEOREM ClusterInvariant == ClusterSpec => []ClusterInv
<1>1. ClusterInit => ClusterInv
  BY DEF ClusterInit, Init, ClusterInv, ChildTypes, ChildInv, Unused, Up
<1>2. ClusterInv /\ PoolInv /\ LimiterInv /\ [ClusterNext]_clusterVars => ClusterInv'
  BY ClusterStepKeepsInv
<1> QED BY <1>1, <1>2, ClusterIsProcessPool, ProcessPoolInvariant, PTL DEF ClusterSpec

\* However many threads a child may have, it creates a second one only after the
\* parent has given up an assignment (Cluster.ts:16-38, adapter.process.ts:14-16).
THEOREM ClusterSecondThreadAfterTimeout == ClusterSpec => []SecondThreadAfterTimeout
<1>1. ClusterInv => SecondThreadAfterTimeout
  <2> SUFFICES ASSUME ClusterInv, NothingGivenUp, NEW w \in Worker PROVE ~(threads[w] > 1)
    BY DEF SecondThreadAfterTimeout, NothingGivenUp
  <2>1. threads[w] \in Nat
    BY DEF ClusterInv, ChildTypes
  <2>2. threads[w] = 1 \/ threads[w] <= 1
    BY DEF ClusterInv, ChildInv, OneThread
  <2> QED BY <2>1, <2>2
<1> QED BY <1>1, ClusterInvariant, PTL

\* A child that no assignment was given up for answers what it is given and nothing
\* else (adapter.process.ts:14-16, AWorkerPool.ts:194-203).
THEOREM ClusterOneAtATime == ClusterSpec => []OneAtATime
<1>1. ClusterInv => OneAtATime
  BY DEF ClusterInv, ChildInv, OneThread, Vacant, Busy, NothingGivenUp, OneAtATime
<1> QED BY <1>1, ClusterInvariant, PTL

=============================================================================
