-------------------------- MODULE DeploymentProofs --------------------------
(***************************************************************************)
(* What a hook leaves that no other one overlaps, for any number of hooks, *)
(* workers, files and commits.                                             *)
(*                                                                         *)
(* The inductive invariant says that nobody else is in the way of such a   *)
(* hook, and in each of its phases what the disk holds of it.  That the    *)
(* numbers it chose were free, whatever is left behind, needs that there   *)
(* is one, since all that are taken have been chosen by some hook.         *)
(***************************************************************************)
EXTENDS Deployment, FiniteSetTheorems, WellFoundedInduction, TLAPS

Phase == Handled \cup {"new", "refused", "lost", "crashed", "deployed"}
Early == {"new", "hooked"}
Unnumbered == Early \cup {"downloading"}

JobType == [
    phase : Phase, worker : Worker \cup {"none"}, commit : Nat, content : Nat,
    tar : Index, dir : Index, left : SUBSET File,
    rejected : BOOLEAN, orphaned : BOOLEAN, overlapped : BOOLEAN, failed : BOOLEAN ]

\* The range of each variable.
Typed ==
    /\ head \in 1 .. MaxHead
    /\ tars \in [Index -> Nat]
    /\ tops \in [1 .. MaxHead -> SUBSET File]
    /\ dirs \in [Index -> [File -> Nat]]
    /\ site \in [File -> Nat]
    /\ job \in [Job -> JobType]

\* Nothing on disk is of a commit that is to come.
Known ==
    /\ \A i \in Index : \A f \in File : dirs[i][f] <= head
    /\ \A f \in File : site[f] <= head

\* A hook has a commit from when its archive is served on, and nothing is said of it
\* before.
HasCommit(j) ==
    /\ job[j].commit <= head
    /\ job[j].phase \in Early => job[j].commit = 0 /\ ~job[j].rejected /\ ~job[j].failed
    /\ job[j].phase \in UnderWay => job[j].commit # 0

\* The numbers that are taken were chosen by hooks.
Chosen ==
    \A i \in Index :
        /\ tars[i] # 0 => \E k \in Job : job[k].phase \notin Unnumbered /\ job[k].tar = i
        /\ dirs[i] # Absent => \E k \in Job : job[k].phase \notin Unnumbered /\ job[k].dir = i

\* The hooks that are under way, with no other.
Alone(j) == job[j].phase \in UnderWay /\ ~job[j].overlapped
NobodyElse(j) == Alone(j) => \A k \in Job \ {j} : job[k].phase \notin UnderWay

\* The temporary directory of j has all of its commit.
Complete(j) ==
    /\ dirs[job[j].dir] = [f \in File |-> job[j].commit]
    /\ tops[job[j].commit] = {}

\* What there is of a hook that is alone.
Unextracted(j) == dirs[job[j].dir] = Absent /\ ~job[j].rejected /\ ~job[j].failed

Progress(j) ==
    /\ job[j].phase = "downloading" => ~job[j].rejected /\ ~job[j].failed
    /\ job[j].phase \in {"chosen", "extracting", "unpacking"} => Unextracted(j)
    /\ job[j].phase \in {"extracting", "unpacking"} => tars[job[j].tar] = job[j].commit
    /\ job[j].phase = "unpacking" =>
          job[j].content = job[j].commit /\ File \ job[j].left \subseteq tops[job[j].commit]
    /\ job[j].phase = "settled" =>
          \/ job[j].failed /\ dirs[job[j].dir] = Absent
          \/ ~job[j].rejected /\ Complete(j)
    /\ job[j].phase = "copying" =>
          /\ ~job[j].rejected
          /\ Complete(j)
          /\ tars[job[j].tar] = 0
          /\ \A f \in File \ job[j].left : Whitelisted(f) => site[f] = job[j].commit

Advances(j) == Alone(j) => Progress(j) /\ \A f \in File : site[f] <= job[j].commit

CrashedFor(j) == job[j].phase = "crashed" => job[j].overlapped \/ job[j].failed

\* The inductive invariant.
DeploymentInv ==
    /\ Typed
    /\ Known
    /\ Chosen
    /\ \A j \in Job : HasCommit(j) /\ NobodyElse(j) /\ Advances(j) /\ CrashedFor(j)

-----------------------------------------------------------------------------
(* The numbers.                                                            *)

\* A set of natural numbers has a least member.
LEMMA LeastNatural ==
    ASSUME NEW T \in SUBSET Nat, T # {}
    PROVE  \E m \in T : \A n \in T : m <= n
<1> DEFINE R == OpToRel(<, Nat)
<1>1. IsWellFoundedOn(R, Nat)
  BY NatLessThanWellFounded
<1>2. R = {ss \in Nat \X Nat : ss[1] < ss[2]}
  BY DEF OpToRel
<1> HIDE DEF R
<1>3. PICK m \in T : \A n \in T : ~(<<n, m>> \in R)
  BY <1>1, WFMin
<1>4. ASSUME NEW n \in T PROVE m <= n
  <2>1. m \in Nat /\ n \in Nat /\ <<n, m>> \in Nat \X Nat
    OBVIOUS
  <2>2. ~(n < m)
    BY <1>2, <1>3, <2>1
  <2> QED BY <2>1, <2>2
<1> QED BY <1>4

\* There are more numbers than hooks, so one is free if each that is taken is
\* that of a hook.
LEMMA HiddenIndexIsFree ==
    ASSUME NEW taken \in SUBSET Index, NEW own \in [Job -> Index],
           \A i \in taken : \E k \in Job : own[k] = i
    PROVE  HiddenIndex(taken) \in Index \ taken
<1>1. /\ IsFiniteSet(Job) /\ Cardinality(Job) \in Nat
      /\ IsFiniteSet(Index) /\ Cardinality(Index) = Cardinality(Job) + 1
      /\ Index \subseteq Nat
  <2>1. IsFiniteSet(Job)
    BY DeploymentAssumption
  <2>2. Cardinality(Job) \in Nat
    BY <2>1, FS_CardinalityType
  <2>3. 0 \in Int /\ Cardinality(Job) \in Int /\ ~(0 > Cardinality(Job))
    BY <2>2
  <2>4. IsFiniteSet(Index) /\ Cardinality(Index) = Cardinality(Job) - 0 + 1
    BY <2>3, FS_Interval DEF Index
  <2> QED BY <2>1, <2>2, <2>4 DEF Index
<1>2. Index \ taken # {}
  <2> SUFFICES ASSUME Index \subseteq taken PROVE FALSE
    OBVIOUS
  <2> DEFINE owner == [i \in Index |-> CHOOSE k \in Job : own[k] = i]
  <2>1. \A i \in Index : owner[i] \in Job /\ own[owner[i]] = i
    OBVIOUS
  <2>2. owner \in [Index -> Job]
    BY <2>1
  <2> HIDE DEF owner
  <2>3. owner \in Injection(Index, Job)
    BY <2>1, <2>2 DEF Injection, IsInjective
  <2>4. Cardinality(Index) <= Cardinality(Job)
    BY <1>1, <2>3, FS_Injection
  <2> QED BY <1>1, <2>4
<1>3. \E m \in Index \ taken : \A n \in Index \ taken : m <= n
  BY <1>1, <1>2, LeastNatural
<1> QED BY <1>3 DEF HiddenIndex, Min

-----------------------------------------------------------------------------
(* The steps.                                                              *)

\* The head is a natural number.
LEMMA HeadTyped == Typed => head \in Nat \ {0} /\ MaxHead \in Nat
<1>1. MaxHead \in Nat
  BY DeploymentAssumption
<1> QED BY <1>1 DEF Typed

\* No hook has been accepted in the beginning.
LEMMA InitEstablishesInv == Init => DeploymentInv
<1> SUFFICES ASSUME Init PROVE DeploymentInv
  OBVIOUS
<1>1. Cardinality(Job) \in Nat /\ 0 \in Index
  BY DeploymentAssumption, FS_CardinalityType DEF Index
<1>2. NewJob \in JobType
  BY <1>1 DEF NewJob, JobType, Phase
<1>3. Typed
  BY <1>1, <1>2, DeploymentAssumption DEF Init, Typed, Absent
<1>4. Known /\ Chosen
  BY DEF Init, Known, Chosen, Absent
<1>5. \A j \in Job :
         job[j].phase = "new" /\ job[j].commit = 0 /\ ~job[j].rejected /\ ~job[j].failed
  BY DEF Init, NewJob
<1>6. head = 1
  BY DEF Init
<1> QED BY <1>3, <1>4, <1>5, <1>6 DEF DeploymentInv, HasCommit, NobodyElse, Alone, Advances, CrashedFor,
           UnderWay, Synchronous, Early, Unnumbered

\* What is left of a hook is of the type.
LEMMA AbandonedTyped ==
    ASSUME NEW k \in Job, job[k] \in JobType
    PROVE  /\ Abandoned(k) \in JobType
           /\ Abandoned(k).phase = job[k].phase \/ Abandoned(k).phase = "lost"
           /\ Abandoned(k).commit = job[k].commit /\ Abandoned(k).content = job[k].content
           /\ Abandoned(k).tar = job[k].tar /\ Abandoned(k).dir = job[k].dir
           /\ Abandoned(k).left = job[k].left /\ Abandoned(k).rejected = job[k].rejected
           /\ Abandoned(k).overlapped = job[k].overlapped /\ Abandoned(k).failed = job[k].failed
  BY DEF Abandoned, JobType, Phase

\* A step of a hook that is under way: others that are alone are not.
LEMMA UnderWayStepKeepsInv ==
    ASSUME DeploymentInv, Typed', NEW j \in Job, job[j].phase \in UnderWay,
           UNCHANGED head,
           \A k \in Job \ {j} : job'[k] = job[k] \/ job'[k] = Abandoned(k),
           job'[j].commit = job[j].commit, job'[j].overlapped = job[j].overlapped,
           \/ job'[j].tar = job[j].tar /\ job'[j].dir = job[j].dir
           \/ job[j].phase \in Unnumbered,
           job'[j].phase \notin Unnumbered,
           \A i \in Index \ {job'[j].tar} : tars'[i] = tars[i],
           \A i \in Index \ {job'[j].dir} : dirs'[i] = dirs[i],
           Known', Advances(j)', CrashedFor(j)'
    PROVE  DeploymentInv'
<1> USE DEF UnderWay, Synchronous, Early, Unnumbered
<1>1. Typed /\ HasCommit(j) /\ NobodyElse(j)
  BY DEF DeploymentInv
<1>2. ASSUME NEW k \in Job, k # j
      PROVE  /\ job'[k].commit = job[k].commit /\ job'[k].tar = job[k].tar
             /\ job'[k].dir = job[k].dir /\ job'[k].overlapped = job[k].overlapped
             /\ job'[k].failed = job[k].failed /\ job'[k].rejected = job[k].rejected
             /\ job'[k].phase = job[k].phase \/ job'[k].phase = "lost"
  <2>1. job[k] \in JobType
    BY <1>1 DEF Typed
  <2>2. CASE job'[k] = job[k]
    BY <2>2
  <2>3. CASE job'[k] = Abandoned(k)
    BY <2>1, <2>3, AbandonedTyped
  <2> QED BY <1>2, <2>2, <2>3
<1>3. Chosen'
  <2> SUFFICES ASSUME NEW i \in Index
               PROVE  /\ tars'[i] # 0 =>
                            \E k \in Job : job'[k].phase \notin Unnumbered /\ job'[k].tar = i
                      /\ dirs'[i] # Absent =>
                            \E k \in Job : job'[k].phase \notin Unnumbered /\ job'[k].dir = i
    BY DEF Chosen, Absent
  <2>1. Chosen
    BY DEF DeploymentInv
  <2>2. tars'[i] # 0 => tars[i] # 0 \/ i = job'[j].tar
    OBVIOUS
  <2>3. dirs'[i] # Absent => dirs[i] # Absent \/ i = job'[j].dir
    OBVIOUS
  <2> QED BY <1>2, <2>1, <2>2, <2>3 DEF Chosen
<1>4. HasCommit(j)' /\ NobodyElse(j)'
  BY <1>1, <1>2 DEF HasCommit, NobodyElse, Alone
<1>5. ASSUME NEW k \in Job, k # j
      PROVE  HasCommit(k)' /\ NobodyElse(k)' /\ Advances(k)' /\ CrashedFor(k)'
  <2>1. HasCommit(k) /\ NobodyElse(k) /\ CrashedFor(k)
    BY DEF DeploymentInv
  <2>2. HasCommit(k)' /\ CrashedFor(k)'
    BY <1>2, <1>5, <2>1 DEF HasCommit, CrashedFor
  <2>3. ~Alone(k)'
    BY <1>2, <1>5, <2>1 DEF NobodyElse, Alone
  <2> QED BY <2>2, <2>3 DEF NobodyElse, Advances
<1> QED BY <1>3, <1>4, <1>5 DEF DeploymentInv

\* A step that changes no files, and after which no more hooks are under way.
LEMMA OutsideStepKeepsInv ==
    ASSUME DeploymentInv, Typed',
           UNCHANGED <<tars, tops, dirs, site>>, head <= head',
           \A k \in Job :
               /\ job'[k].commit = job[k].commit
               /\ job'[k].tar = job[k].tar /\ job'[k].dir = job[k].dir
               /\ job'[k].overlapped = job[k].overlapped
               /\ job'[k].failed = job[k].failed
               /\ \/ job'[k].phase = job[k].phase /\ job'[k].content = job[k].content
                     /\ job'[k].left = job[k].left /\ job'[k].rejected = job[k].rejected
                  \/ job'[k].phase \in {"lost", "refused"}
                  \/ job[k].phase \in Early /\ job'[k].phase \in Early
                     /\ job'[k].rejected = job[k].rejected
    PROVE  DeploymentInv'
<1> USE DEF UnderWay, Synchronous, Early, Unnumbered
<1>1. Typed
  BY DEF DeploymentInv
<1>2. Known'
  BY <1>1, HeadTyped DEF DeploymentInv, Known, Typed
<1>3. Chosen'
  BY DEF DeploymentInv, Chosen, Absent
<1>4. ASSUME NEW k \in Job
      PROVE  HasCommit(k)' /\ NobodyElse(k)' /\ Advances(k)' /\ CrashedFor(k)'
  <2>1. HasCommit(k) /\ NobodyElse(k) /\ Advances(k) /\ CrashedFor(k)
    BY DEF DeploymentInv
  <2>2. HasCommit(k)'
    <3>1. job[k].commit \in Nat /\ head' \in Nat /\ head \in Nat
      BY <1>1, HeadTyped DEF Typed, JobType
    <3> QED BY <2>1, <3>1 DEF HasCommit
  <2>3. NobodyElse(k)' /\ CrashedFor(k)'
    BY <2>1 DEF NobodyElse, CrashedFor, Alone
  <2>4. Alone(k)' => Progress(k) /\ job'[k].phase = job[k].phase
    BY <2>1 DEF Advances, Alone
  <2>5. Alone(k)' => Progress(k)'
    BY <2>4 DEF Progress, Unextracted, Complete, Absent
  <2>6. Advances(k)'
    BY <2>1, <2>4, <2>5 DEF Advances, Alone
  <2> QED BY <2>2, <2>3, <2>6
<1> QED BY <1>2, <1>3, <1>4 DEF DeploymentInv

\* A commit is pushed.
LEMMA PushKeepsInv == ASSUME DeploymentInv, Push PROVE DeploymentInv'
<1>1. head' = head + 1 /\ head < MaxHead /\ UNCHANGED <<tars, tops, dirs, site, job>>
  BY DEF Push
<1>2. Typed' /\ head <= head'
  BY <1>1, HeadTyped DEF DeploymentInv, Typed
<1> QED BY <1>1, <1>2, OutsideStepKeepsInv

\* A process is killed.
LEMMA KilledKeepsInv == ASSUME DeploymentInv, NEW w \in Worker, Killed(w) PROVE DeploymentInv'
<1>1. /\ job' = [k \in Job |-> IF job[k].worker = w THEN Abandoned(k) ELSE job[k]]
      /\ UNCHANGED <<head, tars, tops, dirs, site>>
  BY DEF Killed
<1>2. Typed /\ \A k \in Job : job[k] \in JobType
  BY DEF DeploymentInv, Typed
<1>3. Typed'
  <2>1. job' \in [Job -> JobType]
    BY <1>1, <1>2, AbandonedTyped
  <2> QED BY <1>1, <1>2, <2>1 DEF Typed
<1>4. head <= head'
  BY <1>1, <1>2, HeadTyped
<1> QED BY <1>1, <1>2, <1>3, <1>4, AbandonedTyped, OutsideStepKeepsInv

\* A hook is given to a worker.
LEMMA HookKeepsInv == ASSUME DeploymentInv, NEW j \in Job, Hook(j) PROVE DeploymentInv'
<1>1. job[j].phase = "new" /\ UNCHANGED <<head, tars, tops, dirs, site>>
  BY DEF Hook
<1>2. PICK w \in Worker : job' = [job EXCEPT ![j].phase = "hooked", ![j].worker = w]
  BY DEF Hook
<1> DEFINE mine == [job[j] EXCEPT !.phase = "hooked", !.worker = w]
<1>3. Typed /\ job \in [Job -> JobType]
  BY DEF DeploymentInv, Typed
<1>4. /\ mine \in JobType
      /\ mine.phase = "hooked" /\ mine.commit = job[j].commit /\ mine.tar = job[j].tar
      /\ mine.dir = job[j].dir /\ mine.overlapped = job[j].overlapped
      /\ mine.failed = job[j].failed /\ mine.rejected = job[j].rejected
  BY <1>3 DEF JobType, Phase, Handled
<1>5. job' = [job EXCEPT ![j] = mine]
  BY <1>2, <1>3
<1> HIDE DEF mine
<1>6. Typed' /\ head <= head'
  BY <1>1, <1>3, <1>4, <1>5, HeadTyped DEF Typed
<1>7. job'[j] = mine /\ \A k \in Job \ {j} : job'[k] = job[k]
  BY <1>3, <1>5
<1> QED BY <1>1, <1>4, <1>6, <1>7, OutsideStepKeepsInv DEF Early

\* A hook is refused.
LEMMA RequestFailsKeepsInv ==
    ASSUME DeploymentInv, NEW j \in Job, RequestFails(j) PROVE DeploymentInv'
<1>1. /\ UNCHANGED <<head, tars, tops, dirs, site>>
      /\ job' = [job EXCEPT ![j].phase = "refused"]
  BY DEF RequestFails, Called
<1>2. Typed /\ job \in [Job -> JobType]
  BY DEF DeploymentInv, Typed
<1> DEFINE mine == [job[j] EXCEPT !.phase = "refused"]
<1>3. /\ mine \in JobType
      /\ mine.phase = "refused" /\ mine.commit = job[j].commit /\ mine.tar = job[j].tar
      /\ mine.dir = job[j].dir /\ mine.overlapped = job[j].overlapped
      /\ mine.failed = job[j].failed /\ mine.rejected = job[j].rejected
  BY <1>2 DEF JobType, Phase
<1>4. job' = [job EXCEPT ![j] = mine]
  BY <1>1, <1>2
<1> HIDE DEF mine
<1>5. Typed' /\ head <= head'
  <2>1. job' \in [Job -> JobType]
    BY <1>2, <1>3, <1>4
  <2> QED BY <1>1, <1>2, <2>1, HeadTyped DEF Typed
<1>6. job'[j] = mine /\ \A k \in Job \ {j} : job'[k] = job[k]
  BY <1>2, <1>4
<1> QED BY <1>1, <1>3, <1>5, <1>6, OutsideStepKeepsInv

\* The archive is served: the hook overlaps those under way from now on.
LEMMA ServedKeepsInv == ASSUME DeploymentInv, NEW j \in Job, Served(j) PROVE DeploymentInv'
<1> USE DEF UnderWay, Synchronous, Early, Unnumbered
<1> DEFINE others == \E q \in Job : job[q].phase \in UnderWay
           mine == [job[j] EXCEPT !.phase = "downloading", !.commit = head, !.overlapped = others]
<1>1. /\ job[j].phase = "hooked"
      /\ UNCHANGED <<head, tars, tops, dirs, site>>
      /\ job' = [k \in Job |->
            IF k = j THEN mine
            ELSE IF job[k].phase \in UnderWay THEN [job[k] EXCEPT !.overlapped = TRUE]
            ELSE job[k]]
  BY DEF Served, Begins
<1>2. Typed /\ Known /\ Chosen /\ \A k \in Job : job[k] \in JobType
  BY DEF DeploymentInv, Typed
<1>3. others \in BOOLEAN /\ head \in Nat /\ head # 0 /\ head \in 1 .. MaxHead
  BY <1>2, DeploymentAssumption DEF Typed
<1> HIDE DEF others
<1>4. /\ mine \in JobType
      /\ mine.phase = "downloading" /\ mine.commit = head
      /\ mine.overlapped = others /\ mine.rejected = job[j].rejected /\ mine.failed = job[j].failed
  BY <1>2, <1>3 DEF JobType, Phase, Handled
<1> HIDE DEF mine
<1>5. Typed'
  <2>1. \A k \in Job : [job[k] EXCEPT !.overlapped = TRUE] \in JobType
    BY <1>2 DEF JobType
  <2>2. job' \in [Job -> JobType]
    BY <1>1, <1>2, <1>4, <2>1
  <2> QED BY <1>1, <1>2, <2>2 DEF Typed
<1>6. /\ job'[j] = mine
      /\ \A k \in Job \ {j} :
            /\ job'[k].phase = job[k].phase /\ job'[k].commit = job[k].commit
            /\ job'[k].tar = job[k].tar /\ job'[k].dir = job[k].dir
            /\ job'[k].failed = job[k].failed /\ job'[k].rejected = job[k].rejected
            /\ job[k].overlapped => job'[k].overlapped
            /\ job[k].phase \in UnderWay => job'[k].overlapped
  BY <1>1, <1>2 DEF JobType
<1>7. Known'
  BY <1>1, <1>2 DEF Known
<1>8. Chosen'
  <2> SUFFICES ASSUME NEW i \in Index
               PROVE  /\ tars[i] # 0 =>
                            \E k \in Job : job'[k].phase \notin Unnumbered /\ job'[k].tar = i
                      /\ dirs[i] # Absent =>
                            \E k \in Job : job'[k].phase \notin Unnumbered /\ job'[k].dir = i
    BY <1>1 DEF Chosen, Absent
  <2> QED BY <1>1, <1>2, <1>6 DEF Chosen
<1>9. ASSUME NEW k \in Job, k # j
      PROVE  HasCommit(k)' /\ NobodyElse(k)' /\ Advances(k)' /\ CrashedFor(k)'
  <2>1. HasCommit(k) /\ NobodyElse(k) /\ CrashedFor(k)
    BY DEF DeploymentInv
  <2>2. HasCommit(k)' /\ CrashedFor(k)'
    BY <1>1, <1>6, <1>9, <2>1 DEF HasCommit, CrashedFor
  <2>3. ~Alone(k)'
    BY <1>6, <1>9 DEF Alone
  <2> QED BY <2>2, <2>3 DEF NobodyElse, Advances
<1>10. HasCommit(j)' /\ CrashedFor(j)'
  BY <1>1, <1>3, <1>4, <1>6 DEF HasCommit, CrashedFor
<1>11. NobodyElse(j)'
  BY <1>4, <1>6 DEF NobodyElse, Alone, others
<1>12. Advances(j)'
  <2>1. ~job[j].rejected /\ ~job[j].failed
    BY <1>1 DEF DeploymentInv, HasCommit
  <2>2. Progress(j)'
    BY <1>4, <1>6, <2>1 DEF Progress
  <2>3. \A f \in File : site'[f] <= job'[j].commit
    BY <1>1, <1>2, <1>4, <1>6 DEF Known
  <2> QED BY <2>2, <2>3 DEF Advances
<1> QED BY <1>5, <1>7, <1>8, <1>9, <1>10, <1>11, <1>12 DEF DeploymentInv

\* A step of a hook that is under way and goes on.
LEMMA OwnStepKeepsInv ==
    ASSUME DeploymentInv, NEW j \in Job, job[j].phase \in UnderWay,
           NEW mine \in JobType, job' = [job EXCEPT ![j] = mine],
           mine.commit = job[j].commit, mine.overlapped = job[j].overlapped,
           \/ mine.tar = job[j].tar /\ mine.dir = job[j].dir
           \/ job[j].phase \in Unnumbered,
           mine.phase \notin Unnumbered \cup {"crashed"},
           UNCHANGED head,
           tars' \in [Index -> Nat], tops' \in [1 .. MaxHead -> SUBSET File],
           dirs' \in [Index -> [File -> Nat]], site' \in [File -> Nat],
           \A i \in Index \ {mine.tar} : tars'[i] = tars[i],
           \A i \in Index \ {mine.dir} : dirs'[i] = dirs[i],
           Known', job'[j] = mine => Advances(j)'
    PROVE  DeploymentInv'
<1>1. job \in [Job -> JobType] /\ Typed
  BY DEF DeploymentInv, Typed
<1>2. job'[j] = mine /\ \A k \in Job \ {j} : job'[k] = job[k]
  BY <1>1
<1>3. Typed'
  <2>1. job' \in [Job -> JobType]
    BY <1>1
  <2> QED BY <1>1, <2>1 DEF Typed
<1>4. CrashedFor(j)'
  BY <1>2 DEF CrashedFor
<1> QED BY <1>2, <1>3, <1>4, UnderWayStepKeepsInv

\* The archive is there, and the numbers that the hook chooses are free.
LEMMA DownloadedKeepsInv ==
    ASSUME DeploymentInv, NEW j \in Job, Downloaded(j) PROVE DeploymentInv'
<1> DEFINE tar == HiddenIndex({i \in Index : tars[i] # 0})
           dir == HiddenIndex({i \in Index : dirs[i] # Absent})
           mine == [job[j] EXCEPT !.phase = "chosen", !.tar = tar, !.dir = dir]
<1>1. /\ job[j].phase = "downloading"
      /\ UNCHANGED <<head, tars, tops, dirs, site>>
      /\ job' = [job EXCEPT ![j].phase = "chosen", ![j].tar = tar, ![j].dir = dir]
  BY DEF Downloaded, Called
<1>2. /\ Typed /\ Known /\ Chosen /\ \A k \in Job : job[k] \in JobType
      /\ Advances(j) /\ job[j].phase \in UnderWay \cap Unnumbered
  BY <1>1 DEF DeploymentInv, Typed, UnderWay, Unnumbered
<1>3. /\ tar \in Index
      /\ dir \in Index /\ dirs[dir] = Absent
  <2> DEFINE tarOf == [k \in Job |-> job[k].tar]
             dirOf == [k \in Job |-> job[k].dir]
  <2>1. tarOf \in [Job -> Index] /\ dirOf \in [Job -> Index]
    BY <1>2 DEF JobType
  <2>2. /\ \A i \in {i \in Index : tars[i] # 0} : \E k \in Job : tarOf[k] = i
        /\ \A i \in {i \in Index : dirs[i] # Absent} : \E k \in Job : dirOf[k] = i
    BY <1>2 DEF Chosen
  <2> HIDE DEF tarOf, dirOf
  <2>3. tar \in Index \ {i \in Index : tars[i] # 0}
    BY <2>1, <2>2, HiddenIndexIsFree
  <2>4. dir \in Index \ {i \in Index : dirs[i] # Absent}
    BY <2>1, <2>2, HiddenIndexIsFree
  <2> QED BY <2>3, <2>4
<1> HIDE DEF tar, dir
<1>4. /\ mine \in JobType
      /\ mine.phase = "chosen" /\ mine.commit = job[j].commit /\ mine.tar = tar /\ mine.dir = dir
      /\ mine.overlapped = job[j].overlapped /\ mine.rejected = job[j].rejected
      /\ mine.failed = job[j].failed
  BY <1>2, <1>3 DEF JobType, Phase, Handled, UnderWay, Synchronous
<1>5. job' = [job EXCEPT ![j] = mine]
  BY <1>1, <1>2 DEF Typed
<1> HIDE DEF mine
<1>6. Known'
  BY <1>1, <1>2 DEF Known
<1>7. job'[j] = mine => Advances(j)'
  <2> SUFFICES ASSUME job'[j] = mine, Alone(j)
               PROVE  Progress(j)' /\ \A g \in File : site'[g] <= job'[j].commit
    BY <1>2, <1>4 DEF Advances, Alone
  <2>1. /\ ~job[j].rejected /\ ~job[j].failed
        /\ \A g \in File : site[g] <= job[j].commit
    BY <1>1, <1>2 DEF Advances, Progress
  <2> QED BY <1>1, <1>3, <1>4, <2>1 DEF Progress, Unextracted, Absent
<1> QED BY <1>1, <1>2, <1>4, <1>5, <1>6, <1>7, OwnStepKeepsInv DEF Typed, Early, Unnumbered

\* A hook that ends its worker, for a reason.
LEMMA EndsWorkerKeepsInv ==
    ASSUME DeploymentInv, NEW j \in Job, job[j].phase \in UnderWay,
           NEW failed \in BOOLEAN, EndsWorker(j, failed),
           job[j].overlapped \/ job[j].failed \/ failed,
           UNCHANGED head,
           tars' \in [Index -> Nat], tops' \in [1 .. MaxHead -> SUBSET File],
           dirs' \in [Index -> [File -> Nat]], site' \in [File -> Nat],
           \A i \in Index \ {job[j].tar} : tars'[i] = tars[i],
           \A i \in Index \ {job[j].dir} : dirs'[i] = dirs[i],
           Known'
    PROVE  DeploymentInv'
<1> DEFINE fails == job[j].failed \/ failed
           mine == [job[j] EXCEPT !.phase = "crashed", !.failed = fails]
<1>1. Typed /\ \A k \in Job : job[k] \in JobType
  BY DEF DeploymentInv, Typed
<1>2. /\ mine \in JobType
      /\ mine.phase = "crashed" /\ mine.commit = job[j].commit /\ mine.tar = job[j].tar
      /\ mine.dir = job[j].dir /\ mine.overlapped = job[j].overlapped
      /\ mine.overlapped \/ mine.failed
  <2>1. fails \in BOOLEAN
    OBVIOUS
  <2>2. job[j].overlapped \/ fails
    OBVIOUS
  <2> HIDE DEF fails
  <2> QED BY <1>1, <2>1, <2>2 DEF JobType, Phase
<1>3. job' = [k \in Job |->
         IF k = j THEN mine
         ELSE IF job[k].worker = job[j].worker THEN Abandoned(k)
         ELSE job[k]]
  BY DEF EndsWorker
<1> HIDE DEF mine
<1>4. Typed'
  <2>1. job' \in [Job -> JobType]
    BY <1>1, <1>2, <1>3, AbandonedTyped
  <2> QED BY <1>1, <2>1 DEF Typed
<1>5. /\ job'[j] = mine
      /\ \A k \in Job \ {j} : job'[k] = job[k] \/ job'[k] = Abandoned(k)
  BY <1>3
<1>6. Advances(j)' /\ CrashedFor(j)' /\ job'[j].phase \notin Unnumbered
  BY <1>2, <1>5 DEF Advances, Alone, CrashedFor, UnderWay, Synchronous, Early, Unnumbered
<1> QED BY <1>2, <1>4, <1>5, <1>6, UnderWayStepKeepsInv

\* The archive is written, or is not: nothing is in the way of the extraction.
LEMMA StartsKeepsInv ==
    ASSUME DeploymentInv, NEW j \in Job, Starts(j) PROVE DeploymentInv'
<1> DEFINE written == [tars EXCEPT ![job[j].tar] = job[j].commit]
<1>1. /\ job[j].phase = "chosen"
      /\ tars' \in {tars, written}
      /\ UNCHANGED <<head, tops, dirs, site>>
  BY DEF Starts
<1>2. /\ Typed /\ job[j] \in JobType
      /\ Known /\ Advances(j) /\ job[j].phase \in UnderWay
  BY <1>1 DEF DeploymentInv, Typed, UnderWay, Synchronous
<1>3. Alone(j) => Unextracted(j) /\ \A f \in File : site[f] <= job[j].commit
  BY <1>1, <1>2 DEF Advances, Progress
<1>4. Known'
  BY <1>1, <1>2 DEF Known
<1>5. /\ tars' \in [Index -> Nat]
      /\ tars' = written => tars'[job[j].tar] = job[j].commit
      /\ \A i \in Index \ {job[j].tar} : tars'[i] = tars[i]
  BY <1>1, <1>2 DEF Typed, JobType
<1>6. CASE /\ dirs[job[j].dir] = Absent /\ job' = [job EXCEPT ![j].phase = "extracting"]
           /\ tars' = written
  <2> DEFINE mine == [job[j] EXCEPT !.phase = "extracting"]
  <2>1. /\ mine \in JobType
        /\ mine.phase = "extracting" /\ mine.commit = job[j].commit /\ mine.tar = job[j].tar
        /\ mine.dir = job[j].dir /\ mine.overlapped = job[j].overlapped
        /\ mine.failed = job[j].failed /\ mine.rejected = job[j].rejected
    BY <1>2 DEF JobType, Phase, Handled, UnderWay
  <2>2. job' = [job EXCEPT ![j] = mine]
    BY <1>2, <1>6 DEF Typed
  <2> HIDE DEF mine
  <2>3. job'[j] = mine => Advances(j)'
    BY <1>1, <1>2, <1>3, <1>5, <1>6, <2>1
       DEF Advances, Alone, Progress, Unextracted, Absent
  <2> QED BY <1>1, <1>2, <1>4, <1>5, <2>1, <2>2, <2>3, OwnStepKeepsInv DEF Typed, Early, Unnumbered
<1>7. CASE job' = [job EXCEPT ![j].phase = "settled", ![j].rejected = TRUE,
                              ![j].failed = dirs[job[j].dir] = Absent]
  <2> DEFINE free == dirs[job[j].dir] = Absent
             mine == [job[j] EXCEPT !.phase = "settled", !.rejected = TRUE, !.failed = free]
  <2>1. free \in BOOLEAN
    OBVIOUS
  <2> HIDE DEF free
  <2>2. /\ mine \in JobType
        /\ mine.phase = "settled" /\ mine.commit = job[j].commit /\ mine.tar = job[j].tar
        /\ mine.dir = job[j].dir /\ mine.overlapped = job[j].overlapped
        /\ mine.failed = free
    BY <1>2, <2>1 DEF JobType, Phase, Handled, UnderWay, Synchronous
  <2>3. job' = [job EXCEPT ![j] = mine]
    BY <1>2, <1>7 DEF Typed, free
  <2> HIDE DEF mine
  <2>4. job'[j] = mine => Advances(j)'
    BY <1>1, <1>2, <1>3, <2>2 DEF Advances, Alone, Progress, Unextracted, Absent, free
  <2> QED BY <1>1, <1>2, <1>4, <1>5, <2>2, <2>3, <2>4, OwnStepKeepsInv DEF Typed, Early, Unnumbered
<1>8. CASE job' = [job EXCEPT ![j].phase = "refused"]
  <2> DEFINE mine == [job[j] EXCEPT !.phase = "refused"]
  <2>1. /\ mine \in JobType
        /\ mine.phase = "refused" /\ mine.commit = job[j].commit /\ mine.tar = job[j].tar
        /\ mine.dir = job[j].dir /\ mine.overlapped = job[j].overlapped
    BY <1>2 DEF JobType, Phase
  <2>2. job' = [job EXCEPT ![j] = mine]
    BY <1>2, <1>8 DEF Typed
  <2> HIDE DEF mine
  <2>3. job'[j] = mine => Advances(j)'
    BY <2>1 DEF Advances, Alone, UnderWay, Synchronous
  <2> QED BY <1>1, <1>2, <1>4, <1>5, <2>1, <2>2, <2>3, OwnStepKeepsInv
             DEF Typed, Early, Unnumbered
<1> QED BY <1>6, <1>7, <1>8 DEF Starts, Extracts

\* tar opens the archive of that name: alone, its own.
LEMMA OpensKeepsInv == ASSUME DeploymentInv, NEW j \in Job, Opens(j) PROVE DeploymentInv'
<1> DEFINE content == tars[job[j].tar]
           mine == [job[j] EXCEPT !.phase = "unpacking", !.content = content, !.left = File]
<1>1. /\ job[j].phase = "extracting"
      /\ job' = [job EXCEPT ![j].phase = "unpacking", ![j].content = content, ![j].left = File]
      /\ UNCHANGED <<head, tars, tops, dirs, site>>
  BY DEF Opens
<1>2. /\ Typed /\ job[j] \in JobType
      /\ Known /\ Advances(j) /\ job[j].phase \in UnderWay
  BY <1>1 DEF DeploymentInv, Typed, UnderWay, Synchronous
<1>3. content \in Nat
  BY <1>2 DEF Typed, JobType
<1>4. Alone(j) =>
         Unextracted(j) /\ content = job[j].commit /\ \A f \in File : site[f] <= job[j].commit
  BY <1>1, <1>2 DEF Advances, Progress
<1> HIDE DEF content
<1>5. /\ mine \in JobType
      /\ mine.phase = "unpacking" /\ mine.commit = job[j].commit /\ mine.tar = job[j].tar
      /\ mine.dir = job[j].dir /\ mine.overlapped = job[j].overlapped
      /\ mine.failed = job[j].failed /\ mine.rejected = job[j].rejected
      /\ mine.content = content /\ mine.left = File
  BY <1>2, <1>3 DEF JobType, Phase, Handled, UnderWay
<1>6. job' = [job EXCEPT ![j] = mine]
  BY <1>1, <1>2 DEF Typed
<1> HIDE DEF mine
<1>7. Known'
  BY <1>1, <1>2 DEF Known
<1>8. job'[j] = mine => Advances(j)'
  <2> SUFFICES ASSUME job'[j] = mine, Alone(j)
               PROVE  Progress(j)' /\ \A g \in File : site'[g] <= job'[j].commit
    BY <1>2, <1>5 DEF Advances, Alone
  <2>1. tars'[mine.tar] = job[j].commit /\ dirs'[mine.dir] = Absent
    BY <1>1, <1>4, <1>5 DEF content, Unextracted
  <2> QED BY <1>1, <1>4, <1>5, <2>1 DEF Progress, Unextracted, Absent
<1> QED BY <1>1, <1>2, <1>5, <1>6, <1>7, <1>8, OwnStepKeepsInv DEF Typed, Early, Unnumbered

\* A file is unpacked: alone, into the directory of the hook's commit.
LEMMA UnpacksKeepsInv == ASSUME DeploymentInv, NEW j \in Job, Unpacks(j) PROVE DeploymentInv'
<1>1. job[j].phase = "unpacking" /\ UNCHANGED <<head, tars, dirs, site>>
  BY DEF Unpacks
<1>2. PICK f \in job[j].left :
         /\ tops' = [tops EXCEPT ![job[j].content] = @ \cup {f}]
         /\ job' = [job EXCEPT ![j].left = @ \ {f}]
  BY DEF Unpacks
<1> DEFINE mine == [job[j] EXCEPT !.left = @ \ {f}]
<1>3. /\ Typed /\ job[j] \in JobType
      /\ Known /\ HasCommit(j) /\ Advances(j) /\ job[j].phase \in UnderWay
  BY <1>1 DEF DeploymentInv, Typed, UnderWay, Synchronous
<1>4. /\ mine \in JobType
      /\ mine.phase = "unpacking" /\ mine.commit = job[j].commit /\ mine.tar = job[j].tar
      /\ mine.dir = job[j].dir /\ mine.overlapped = job[j].overlapped
      /\ mine.failed = job[j].failed /\ mine.rejected = job[j].rejected
      /\ mine.content = job[j].content /\ mine.left = job[j].left \ {f}
  BY <1>1, <1>3 DEF JobType
<1>5. job' = [job EXCEPT ![j] = mine]
  BY <1>2, <1>3 DEF Typed
<1> HIDE DEF mine
<1>6. f \in File
  BY <1>2, <1>3 DEF JobType
<1>7. tops' \in [1 .. MaxHead -> SUBSET File]
  BY <1>2, <1>3, <1>6 DEF Typed
<1>8. Known'
  BY <1>1, <1>3 DEF Known
<1>9. job'[j] = mine => Advances(j)'
  <2> SUFFICES ASSUME job'[j] = mine, Alone(j)
               PROVE  Progress(j)' /\ \A g \in File : site'[g] <= job'[j].commit
    BY <1>1, <1>4 DEF Advances, Alone
  <2>1. /\ Unextracted(j) /\ tars[job[j].tar] = job[j].commit
        /\ job[j].content = job[j].commit /\ File \ job[j].left \subseteq tops[job[j].commit]
        /\ \A g \in File : site[g] <= job[j].commit
    BY <1>1, <1>3 DEF Advances, Progress
  <2>2. job[j].commit \in 1 .. MaxHead
    BY <1>3, HeadTyped DEF HasCommit, Typed, JobType
  <2>3. tops'[job[j].commit] = tops[job[j].commit] \cup {f}
    BY <1>2, <1>3, <2>1, <2>2 DEF Typed
  <2> QED BY <1>1, <1>4, <2>1, <2>3 DEF Progress, Unextracted, Absent
<1> QED BY <1>1, <1>3, <1>4, <1>5, <1>7, <1>8, <1>9, OwnStepKeepsInv DEF Typed, Early, Unnumbered

\* tar has ended, and what it unpacked is given the name: alone, all of the commit.
LEMMA ExtractedKeepsInv == ASSUME DeploymentInv, NEW j \in Job, Extracted(j) PROVE DeploymentInv'
<1> DEFINE c == job[j].commit
           unpacked == [f \in File |-> IF f \in tops[c] THEN c ELSE 0]
           mine == [job[j] EXCEPT !.phase = "settled"]
<1>1. /\ job[j].phase = "unpacking" /\ job[j].left = {}
      /\ job' = [job EXCEPT ![j].phase = "settled"]
      /\ UNCHANGED <<head, tars, site>>
      /\ IF Renamable(j)
         THEN /\ dirs' = [dirs EXCEPT ![job[j].dir] = unpacked]
              /\ tops' = [tops EXCEPT ![c] = {}]
         ELSE UNCHANGED <<tops, dirs>>
  BY DEF Extracted, Called
<1>2. /\ Typed /\ job[j] \in JobType
      /\ Known /\ HasCommit(j) /\ Advances(j) /\ job[j].phase \in UnderWay
  BY <1>1 DEF DeploymentInv, Typed, UnderWay, Synchronous
<1>3. /\ mine \in JobType
      /\ mine.phase = "settled" /\ mine.commit = c /\ mine.tar = job[j].tar
      /\ mine.dir = job[j].dir /\ mine.overlapped = job[j].overlapped
      /\ mine.failed = job[j].failed /\ mine.rejected = job[j].rejected
  BY <1>2 DEF JobType, Phase, Handled, UnderWay, Synchronous
<1>4. job' = [job EXCEPT ![j] = mine]
  BY <1>1, <1>2 DEF Typed
<1>5. c \in 1 .. MaxHead /\ c \in Nat /\ c <= head /\ head \in Nat /\ c # 0
      /\ job[j].dir \in Index
  BY <1>2, HeadTyped DEF HasCommit, Typed, JobType
<1>6. unpacked \in [File -> Nat] /\ \A f \in File : unpacked[f] <= head
  BY <1>5
<1> HIDE DEF mine, unpacked, c
<1>7. /\ tops' \in [1 .. MaxHead -> SUBSET File]
      /\ dirs' \in [Index -> [File -> Nat]]
      /\ \A i \in Index \ {job[j].dir} : dirs'[i] = dirs[i]
  BY <1>1, <1>2, <1>6 DEF Typed
<1>8. Known'
  <2>1. \A i \in Index : dirs'[i] = dirs[i] \/ dirs'[i] = unpacked
    BY <1>1, <1>2, <1>5 DEF Typed
  <2> QED BY <1>1, <1>2, <1>6, <2>1 DEF Known
<1>9. job'[j] = mine => Advances(j)'
  <2> SUFFICES ASSUME job'[j] = mine, Alone(j)
               PROVE  Progress(j)' /\ \A g \in File : site'[g] <= job'[j].commit
    BY <1>2, <1>3 DEF Advances, Alone
  <2>1. /\ Unextracted(j)
        /\ File \subseteq tops[c]
        /\ \A g \in File : site[g] <= c
    BY <1>1, <1>2 DEF Advances, Progress, c
  <2>2. Renamable(j)
    BY <2>1, DeploymentAssumption DEF Renamable, Unextracted, c
  <2>3. unpacked = [f \in File |-> c]
    BY <2>1 DEF unpacked
  <2>4. dirs'[job[j].dir] = [f \in File |-> c] /\ tops'[c] = {}
    BY <1>1, <1>2, <1>5, <2>2, <2>3 DEF Typed
  <2>5. Complete(j)' /\ ~mine.rejected
    BY <1>3, <2>1, <2>4 DEF Complete, Unextracted
  <2> QED BY <1>1, <1>3, <2>1, <2>5 DEF Progress
<1>10. /\ mine.commit = job[j].commit /\ mine.phase \notin Unnumbered \cup {"crashed"}
       /\ \A i \in Index \ {mine.dir} : dirs'[i] = dirs[i]
       /\ \A i \in Index \ {mine.tar} : tars'[i] = tars[i]
       /\ tars' \in [Index -> Nat] /\ site' \in [File -> Nat] /\ UNCHANGED head
  BY <1>1, <1>2, <1>3, <1>7 DEF c, Unnumbered, Early, Typed
<1> QED BY <1>2, <1>3, <1>4, <1>7, <1>8, <1>9, <1>10, OwnStepKeepsInv

\* tar fails, for which the hook has failed.
LEMMA ExtractionFailsKeepsInv ==
    ASSUME DeploymentInv, NEW j \in Job, ExtractionFails(j) PROVE DeploymentInv'
<1> DEFINE mine == [job[j] EXCEPT !.phase = "settled", !.rejected = TRUE, !.failed = TRUE]
<1>1. /\ job[j].phase \in {"extracting", "unpacking"}
      /\ job' = [job EXCEPT ![j].phase = "settled", ![j].rejected = TRUE, ![j].failed = TRUE]
      /\ UNCHANGED <<head, tars, tops, dirs, site>>
  BY DEF ExtractionFails
<1>2. /\ Typed /\ job[j] \in JobType
      /\ Known /\ Advances(j) /\ job[j].phase \in UnderWay
  BY <1>1 DEF DeploymentInv, Typed, UnderWay, Synchronous
<1>3. /\ mine \in JobType
      /\ mine.phase = "settled" /\ mine.commit = job[j].commit /\ mine.tar = job[j].tar
      /\ mine.dir = job[j].dir /\ mine.overlapped = job[j].overlapped
      /\ mine.failed = TRUE
  BY <1>2 DEF JobType, Phase, Handled, UnderWay, Synchronous
<1>4. job' = [job EXCEPT ![j] = mine]
  BY <1>1, <1>2 DEF Typed
<1> HIDE DEF mine
<1>5. Known'
  BY <1>1, <1>2 DEF Known
<1>6. job'[j] = mine => Advances(j)'
  BY <1>1, <1>2, <1>3 DEF Advances, Alone, Progress, Unextracted, Absent
<1> QED BY <1>1, <1>2, <1>3, <1>4, <1>5, <1>6, OwnStepKeepsInv DEF Typed, Early, Unnumbered

\* The tar process of a hook that is lost ends.
LEMMA OrphanEndsKeepsInv ==
    ASSUME DeploymentInv, NEW j \in Job, OrphanEnds(j) PROVE DeploymentInv'
<1> DEFINE mine == [job[j] EXCEPT !.phase = "lost"]
<1>1. /\ job[j].phase \in {"extracting", "unpacking"}
      /\ job' = [job EXCEPT ![j].phase = "lost"]
      /\ UNCHANGED <<head, tars, tops, dirs, site>>
  BY DEF OrphanEnds
<1>2. /\ Typed /\ job[j] \in JobType /\ Known /\ job[j].phase \in UnderWay
  BY <1>1 DEF DeploymentInv, Typed, UnderWay, Synchronous
<1>3. /\ mine \in JobType
      /\ mine.phase = "lost" /\ mine.commit = job[j].commit /\ mine.tar = job[j].tar
      /\ mine.dir = job[j].dir /\ mine.overlapped = job[j].overlapped
  BY <1>2 DEF JobType, Phase
<1>4. job' = [job EXCEPT ![j] = mine]
  BY <1>1, <1>2 DEF Typed
<1> HIDE DEF mine
<1>5. Known'
  BY <1>1, <1>2 DEF Known
<1>6. job'[j] = mine => Advances(j)'
  BY <1>3 DEF Advances, Alone, UnderWay, Synchronous
<1> QED BY <1>1, <1>2, <1>3, <1>4, <1>5, <1>6, OwnStepKeepsInv DEF Typed, Early, Unnumbered

\* The archive is removed and the directory listed: alone, it is there unless the
\* extraction failed.
LEMMA ListsKeepsInv == ASSUME DeploymentInv, NEW j \in Job, Lists(j) PROVE DeploymentInv'
<1>1. /\ job[j].phase = "settled" /\ tars' \in {tars, [tars EXCEPT ![job[j].tar] = 0]}
      /\ UNCHANGED <<head, tops, dirs, site>>
  BY DEF Lists
<1>2. /\ Typed /\ job[j] \in JobType
      /\ Known /\ HasCommit(j) /\ Advances(j) /\ job[j].phase \in UnderWay
  BY <1>1 DEF DeploymentInv, Typed, UnderWay, Synchronous
<1>3. /\ tars' \in [Index -> Nat]
      /\ tars' = [tars EXCEPT ![job[j].tar] = 0] => tars'[job[j].tar] = 0
      /\ \A i \in Index \ {job[j].tar} : tars'[i] = tars[i]
  <2>1. job[j].tar \in Index /\ tars \in [Index -> Nat]
    BY <1>2 DEF Typed, JobType
  <2>2. CASE tars' = tars
    BY <2>1, <2>2
  <2>3. CASE tars' = [tars EXCEPT ![job[j].tar] = 0]
    BY <2>1, <2>3
  <2> QED BY <1>1, <2>2, <2>3
<1>4. Known'
  BY <1>1, <1>2 DEF Known
<1>5. Alone(j) => \/ job[j].failed /\ dirs[job[j].dir] = Absent
                  \/ ~job[j].rejected /\ Complete(j)
  BY <1>1, <1>2 DEF Advances, Progress
<1>6. Complete(j) => dirs[job[j].dir] # Absent
  <2>1. PICK f \in File : TRUE
    BY DeploymentAssumption
  <2>2. job[j].commit # 0
    BY <1>2 DEF HasCommit
  <2>3. [g \in File |-> job[j].commit][f] # [g \in File |-> 0][f]
    BY <2>2
  <2> QED BY <2>3 DEF Complete, Absent
<1>7. CASE dirs[job[j].dir] = Absent /\ EndsWorker(j, FALSE)
  <2>1. job[j].overlapped \/ job[j].failed
    BY <1>2, <1>5, <1>6, <1>7 DEF Alone
  <2> QED BY <1>1, <1>2, <1>3, <1>4, <1>7, <2>1, EndsWorkerKeepsInv DEF Typed
<1>8. CASE dirs[job[j].dir] # Absent /\ ~EndsWorker(j, TRUE)
  <2> DEFINE left == {f \in File : dirs[job[j].dir][f] # 0 /\ Whitelisted(f)}
             mine == [job[j] EXCEPT !.phase = "copying", !.left = left]
  <2>1. /\ job' = [job EXCEPT ![j].phase = "copying", ![j].left = left]
        /\ tars' = [tars EXCEPT ![job[j].tar] = 0]
    BY <1>8 DEF Lists
  <2>2. /\ mine \in JobType
        /\ mine.phase = "copying" /\ mine.commit = job[j].commit /\ mine.tar = job[j].tar
        /\ mine.dir = job[j].dir /\ mine.overlapped = job[j].overlapped
        /\ mine.rejected = job[j].rejected /\ mine.left = left
    BY <1>2 DEF JobType, Phase, Handled, UnderWay, Synchronous
  <2>3. job' = [job EXCEPT ![j] = mine]
    BY <1>2, <2>1 DEF Typed
  <2>4. Complete(j) => \A f \in File \ left : ~Whitelisted(f)
    BY <1>2 DEF Complete, HasCommit
  <2> HIDE DEF mine, left
  <2>5. job'[j] = mine => Advances(j)'
    <3> SUFFICES ASSUME job'[j] = mine, Alone(j)
                 PROVE  Progress(j)' /\ \A g \in File : site'[g] <= job'[j].commit
      BY <1>2, <2>2 DEF Advances, Alone
    <3>1. /\ ~job[j].rejected /\ Complete(j)
          /\ \A g \in File : site[g] <= job[j].commit
      BY <1>2, <1>5, <1>8 DEF Advances
    <3>2. Complete(j)' /\ tars'[mine.tar] = 0
      BY <1>1, <1>3, <2>1, <2>2, <3>1 DEF Complete
    <3> QED BY <1>1, <2>2, <2>4, <3>1, <3>2 DEF Progress
  <2> QED BY <1>1, <1>2, <1>3, <1>4, <2>2, <2>3, <2>5, OwnStepKeepsInv DEF Typed, Early, Unnumbered
<1>9. CASE EndsWorker(j, TRUE)
  BY <1>1, <1>2, <1>3, <1>4, <1>9, EndsWorkerKeepsInv DEF Typed
<1> QED BY <1>7, <1>8, <1>9 DEF Lists

\* A file is copied: alone, it is there and of the commit of the hook.
LEMMA CopiesKeepsInv == ASSUME DeploymentInv, NEW j \in Job, Copies(j) PROVE DeploymentInv'
<1>1. job[j].phase = "copying" /\ UNCHANGED <<head, tars, tops, dirs>>
  BY DEF Copies
<1>2. PICK f \in job[j].left :
         \/ dirs[job[j].dir][f] = 0 /\ EndsWorker(j, FALSE) /\ UNCHANGED site
         \/ /\ site' = [site EXCEPT ![f] = dirs[job[j].dir][f]]
            /\ job' = [job EXCEPT ![j].left = @ \ {f}]
         \/ site' \in {site, [site EXCEPT ![f] = 0]} /\ EndsWorker(j, TRUE)
  BY DEF Copies
<1>3. /\ Typed /\ job[j] \in JobType
      /\ Known /\ HasCommit(j) /\ Advances(j) /\ job[j].phase \in UnderWay
  BY <1>1 DEF DeploymentInv, Typed, UnderWay, Synchronous
<1>4. f \in File /\ job[j].dir \in Index
  BY <1>2, <1>3 DEF JobType
<1>5. Alone(j) => /\ ~job[j].rejected /\ Complete(j) /\ tars[job[j].tar] = 0
                  /\ \A g \in File \ job[j].left : Whitelisted(g) => site[g] = job[j].commit
                  /\ \A g \in File : site[g] <= job[j].commit
  BY <1>1, <1>3 DEF Advances, Progress
<1>6. Complete(j) => dirs[job[j].dir][f] = job[j].commit /\ job[j].commit # 0
  BY <1>3, <1>4 DEF Complete, HasCommit
<1>7. CASE dirs[job[j].dir][f] = 0 /\ EndsWorker(j, FALSE) /\ UNCHANGED site
  <2>1. job[j].overlapped \/ job[j].failed
    BY <1>3, <1>5, <1>6, <1>7 DEF Alone
  <2>2. Known'
    BY <1>1, <1>3, <1>7 DEF Known
  <2> QED BY <1>1, <1>3, <1>7, <2>1, <2>2, EndsWorkerKeepsInv DEF Typed
<1>8. CASE /\ site' = [site EXCEPT ![f] = dirs[job[j].dir][f]]
           /\ job' = [job EXCEPT ![j].left = @ \ {f}]
  <2> DEFINE mine == [job[j] EXCEPT !.left = @ \ {f}]
  <2>1. /\ mine \in JobType
        /\ mine.phase = "copying" /\ mine.commit = job[j].commit /\ mine.tar = job[j].tar
        /\ mine.dir = job[j].dir /\ mine.overlapped = job[j].overlapped
        /\ mine.rejected = job[j].rejected /\ mine.left = job[j].left \ {f}
    BY <1>1, <1>3 DEF JobType
  <2>2. job' = [job EXCEPT ![j] = mine]
    BY <1>3, <1>8 DEF Typed
  <2> HIDE DEF mine
  <2>3. /\ site' \in [File -> Nat]
        /\ \A g \in File : site'[g] = IF g = f THEN dirs[job[j].dir][f] ELSE site[g]
    BY <1>3, <1>4, <1>8 DEF Typed
  <2>4. Known'
    BY <1>1, <1>3, <1>4, <2>3 DEF Known
  <2>5. job'[j] = mine => Advances(j)'
    <3> SUFFICES ASSUME job'[j] = mine, Alone(j)
                 PROVE  Progress(j)' /\ \A g \in File : site'[g] <= job'[j].commit
      BY <1>3, <2>1 DEF Advances, Alone
    <3>1. job[j].commit \in Nat
      BY <1>3 DEF JobType
    <3>2. /\ \A g \in File : site'[g] <= job[j].commit
          /\ \A g \in File \ mine.left : Whitelisted(g) => site'[g] = job[j].commit
      BY <1>5, <1>6, <2>1, <2>3, <3>1
    <3>3. Complete(j)' /\ tars'[mine.tar] = 0
      BY <1>1, <1>5, <2>1 DEF Complete
    <3> QED BY <1>5, <2>1, <3>2, <3>3 DEF Progress
  <2> QED BY <1>1, <1>3, <2>1, <2>2, <2>3, <2>4, <2>5, OwnStepKeepsInv DEF Typed, Early, Unnumbered
<1>9. CASE site' \in {site, [site EXCEPT ![f] = 0]} /\ EndsWorker(j, TRUE)
  <2>1. /\ site' \in [File -> Nat]
        /\ \A g \in File : site'[g] = site[g] \/ site'[g] = 0
    <3>1. CASE site' = site
      BY <1>3, <3>1 DEF Typed
    <3>2. CASE site' = [site EXCEPT ![f] = 0]
      BY <1>3, <1>4, <3>2 DEF Typed
    <3> QED BY <1>9, <3>1, <3>2
  <2>2. Known'
    BY <1>1, <1>3, <2>1, HeadTyped DEF Known
  <2> QED BY <1>1, <1>3, <1>9, <2>1, <2>2, EndsWorkerKeepsInv DEF Typed
<1> QED BY <1>2, <1>7, <1>8, <1>9

\* The directory is removed: alone, the extraction was not rejected.
LEMMA RemovesKeepsInv == ASSUME DeploymentInv, NEW j \in Job, Removes(j) PROVE DeploymentInv'
<1>1. /\ job[j].phase = "copying"
      /\ UNCHANGED <<head, tars, tops, site>>
  BY DEF Removes
<1>2. /\ Typed /\ job[j] \in JobType
      /\ Known /\ Advances(j) /\ job[j].phase \in UnderWay
  BY <1>1 DEF DeploymentInv, Typed, UnderWay, Synchronous
<1>3. PICK left \in {Absent} \cup {Part(dirs[job[j].dir], part) : part \in SUBSET File} :
         dirs' = [dirs EXCEPT ![job[j].dir] = left]
  <2>1. CASE dirs' = [dirs EXCEPT ![job[j].dir] = Absent]
    BY <2>1
  <2>2. ASSUME NEW part \in SUBSET File,
               dirs' = [dirs EXCEPT ![job[j].dir] = Part(@, part)]
        PROVE  \E left \in {Part(dirs[job[j].dir], p) : p \in SUBSET File} :
                  dirs' = [dirs EXCEPT ![job[j].dir] = left]
    BY <2>2
  <2> QED BY <2>1, <2>2 DEF Removes
<1>4. /\ dirs' \in [Index -> [File -> Nat]]
      /\ \A i \in Index \ {job[j].dir} : dirs'[i] = dirs[i]
      /\ Known'
  <2>1. left \in [File -> Nat] /\ \A f \in File : left[f] <= head
    BY <1>2, <1>3, HeadTyped DEF Typed, JobType, Known, Absent, Part
  <2>2. /\ dirs' \in [Index -> [File -> Nat]]
        /\ \A i \in Index \ {job[j].dir} : dirs'[i] = dirs[i]
        /\ \A i \in Index : dirs'[i] = dirs[i] \/ dirs'[i] = left
    BY <1>2, <1>3, <2>1 DEF Typed, JobType
  <2> QED BY <1>1, <1>2, <2>1, <2>2 DEF Known
<1>5. CASE job[j].rejected /\ EndsWorker(j, FALSE)
  <2>1. job[j].overlapped \/ job[j].failed
    BY <1>1, <1>2, <1>5 DEF Advances, Progress, Alone
  <2> QED BY <1>1, <1>2, <1>4, <1>5, <2>1, EndsWorkerKeepsInv DEF Typed
<1>6. CASE job' = [job EXCEPT ![j].phase = "deployed"]
  <2> DEFINE mine == [job[j] EXCEPT !.phase = "deployed"]
  <2>1. /\ mine \in JobType
        /\ mine.phase = "deployed" /\ mine.commit = job[j].commit /\ mine.tar = job[j].tar
        /\ mine.dir = job[j].dir /\ mine.overlapped = job[j].overlapped
    BY <1>2 DEF JobType, Phase
  <2>2. job' = [job EXCEPT ![j] = mine]
    BY <1>2, <1>6 DEF Typed
  <2> HIDE DEF mine
  <2>3. job'[j] = mine => Advances(j)'
    BY <2>1 DEF Advances, Alone, UnderWay, Synchronous
  <2> QED BY <1>1, <1>2, <1>4, <2>1, <2>2, <2>3, OwnStepKeepsInv DEF Typed, Early, Unnumbered
<1>7. CASE EndsWorker(j, TRUE)
  BY <1>1, <1>2, <1>4, <1>7, EndsWorkerKeepsInv DEF Typed
<1> QED BY <1>5, <1>6, <1>7 DEF Removes

\* Every step keeps the inductive invariant.
LEMMA StepKeepsInv == ASSUME DeploymentInv, [Next]_vars PROVE DeploymentInv'
<1>1. CASE Push
  BY <1>1, PushKeepsInv
<1>2. CASE \E w \in Worker : Killed(w)
  BY <1>2, KilledKeepsInv
<1>3. ASSUME NEW j \in Job,
             \/ Hook(j) \/ RequestFails(j) \/ Served(j) \/ Downloaded(j) \/ Starts(j) \/ Opens(j)
             \/ Unpacks(j) \/ Extracted(j) \/ ExtractionFails(j) \/ OrphanEnds(j)
             \/ Lists(j) \/ Copies(j) \/ Removes(j)
      PROVE  DeploymentInv'
  BY <1>3, HookKeepsInv, RequestFailsKeepsInv, ServedKeepsInv, DownloadedKeepsInv, StartsKeepsInv,
     OpensKeepsInv, UnpacksKeepsInv, ExtractedKeepsInv, ExtractionFailsKeepsInv,
     OrphanEndsKeepsInv, ListsKeepsInv, CopiesKeepsInv, RemovesKeepsInv
<1>4. CASE UNCHANGED vars
  <2>1. UNCHANGED <<head, tars, tops, dirs, site, job>>
    BY <1>4 DEF vars
  <2>2. Typed' /\ head <= head'
    BY <2>1, HeadTyped DEF DeploymentInv, Typed
  <2> QED BY <2>1, <2>2, OutsideStepKeepsInv
<1> QED BY <1>1, <1>2, <1>3, <1>4 DEF Next

-----------------------------------------------------------------------------
(* The theorems.                                                           *)

\* The inductive invariant holds of every state, for any number of hooks, workers,
\* files and commits (POSTHandlerContext.ts:181-286, Tar.ts:13-51).
THEOREM DeploymentInvariant == Spec => []DeploymentInv
<1>1. Init => DeploymentInv
  BY InitEstablishesInv
<1>2. DeploymentInv /\ [Next]_vars => DeploymentInv'
  BY StepKeepsInv
<1> QED BY <1>1, <1>2, PTL DEF Spec

\* A hook ends its worker only if its extraction or the disk failed or another one
\* overlapped it, whatever is left behind (POSTHandlerContext.ts:211-236, 268-286).
THEOREM DeploymentCrashOnlyByOverlapOrFailure == Spec => []CrashOnlyByOverlapOrFailure
<1>1. DeploymentInv => CrashOnlyByOverlapOrFailure
  BY DEF DeploymentInv, CrashedFor, CrashOnlyByOverlapOrFailure
<1> QED BY <1>1, DeploymentInvariant, PTL

\* A hook is deployed only by the removal of its directory.
LEMMA DeployedByRemoves ==
    ASSUME DeploymentInv, [Next]_vars, NEW k \in Job,
           job[k].phase # "deployed", job'[k].phase = "deployed"
    PROVE  Removes(k) /\ ~job[k].rejected /\ dirs' = [dirs EXCEPT ![job[k].dir] = Absent]
<1>1. job \in [Job -> JobType] /\ \A i \in Job : job[i] \in JobType
  BY DEF DeploymentInv, Typed
<1>2. ASSUME NEW j \in Job, NEW failed \in BOOLEAN, EndsWorker(j, failed) PROVE FALSE
  <2> DEFINE crashed == [job[k] EXCEPT !.phase = "crashed", !.failed = @ \/ failed]
  <2>1. job'[k] = crashed \/ job'[k] = Abandoned(k) \/ job'[k] = job[k]
    BY <1>2 DEF EndsWorker
  <2>2. crashed.phase # "deployed"
    BY <1>1 DEF JobType
  <2> HIDE DEF crashed
  <2> QED BY <1>1, <2>1, <2>2, AbandonedTyped
<1>3. ASSUME NEW j \in Job, Hook(j) \/ RequestFails(j) \/ OrphanEnds(j) PROVE FALSE
  BY <1>1, <1>3 DEF Hook, RequestFails, OrphanEnds, JobType
<1>4. ASSUME NEW j \in Job, Served(j) \/ Downloaded(j) PROVE FALSE
  <2>1. ASSUME Served(j)
        PROVE  /\ k = j => job'[k].phase = "downloading"
               /\ k # j => job'[k].phase = job[k].phase
    BY <1>1, <2>1 DEF Served, Begins, JobType
  <2>2. ASSUME NEW tar, NEW dir,
               job' = [job EXCEPT ![j].phase = "chosen", ![j].tar = tar, ![j].dir = dir]
        PROVE  FALSE
    BY <1>1, <2>2 DEF JobType
  <2> QED BY <1>4, <2>1, <2>2 DEF Downloaded
<1>5. ASSUME NEW j \in Job, Starts(j) \/ ExtractionFails(j) PROVE FALSE
  <2>1. CASE job' = [job EXCEPT ![j].phase = "extracting"]
    BY <1>1, <2>1 DEF JobType
  <2>2. ASSUME NEW failed,
               job' = [job EXCEPT ![j].phase = "settled", ![j].rejected = TRUE,
                                  ![j].failed = failed]
        PROVE  FALSE
    BY <1>1, <2>2 DEF JobType
  <2>3. CASE job' = [job EXCEPT ![j].phase = "refused"]
    BY <1>1, <2>3 DEF JobType
  <2> QED BY <1>5, <2>1, <2>2, <2>3 DEF Starts, Extracts, ExtractionFails
<1>6. ASSUME NEW j \in Job, Opens(j) \/ Unpacks(j) \/ Extracted(j) PROVE FALSE
  <2>1. ASSUME NEW content,
               job' = [job EXCEPT ![j].phase = "unpacking", ![j].content = content,
                                  ![j].left = File]
        PROVE  FALSE
    BY <1>1, <2>1 DEF JobType
  <2>2. ASSUME NEW f, job' = [job EXCEPT ![j].left = @ \ {f}] PROVE FALSE
    BY <1>1, <2>2 DEF JobType
  <2>3. CASE job' = [job EXCEPT ![j].phase = "settled"]
    BY <1>1, <2>3 DEF JobType
  <2> QED BY <1>6, <2>1, <2>2, <2>3 DEF Opens, Unpacks, Extracted
<1>7. ASSUME NEW j \in Job, Lists(j) \/ Copies(j) PROVE FALSE
  <2>1. ASSUME NEW left,
               job' = [job EXCEPT ![j].phase = "copying", ![j].left = left]
        PROVE  FALSE
    BY <1>1, <2>1 DEF JobType
  <2>2. ASSUME NEW f, job' = [job EXCEPT ![j].left = @ \ {f}] PROVE FALSE
    BY <1>1, <2>2 DEF JobType
  <2> QED BY <1>2, <1>7, <2>1, <2>2 DEF Lists, Copies
<1>8. ASSUME NEW j \in Job, Removes(j)
      PROVE  k = j /\ ~job[j].rejected /\ dirs' = [dirs EXCEPT ![job[j].dir] = Absent]
  <2>1. /\ ~job[j].rejected /\ job' = [job EXCEPT ![j].phase = "deployed"]
        /\ dirs' = [dirs EXCEPT ![job[j].dir] = Absent]
    BY <1>2, <1>8 DEF Removes
  <2> QED BY <1>1, <2>1
<1>9. ASSUME NEW w \in Worker, Killed(w) PROVE FALSE
  <2>1. job'[k] = job[k] \/ job'[k] = Abandoned(k)
    BY <1>9 DEF Killed
  <2> QED BY <1>1, <2>1, AbandonedTyped
<1> QED BY <1>3, <1>4, <1>5, <1>6, <1>7, <1>8, <1>9 DEF Next, Push, vars

\* A hook that no other one overlaps deploys all of its commit and leaves nothing
\* (POSTHandlerContext.ts:211-286, Tar.ts:13-51).
THEOREM DeploymentSoloDeploys == Spec => SoloDeploys
<1>1. DeploymentInv /\ [Next]_vars =>
        \A j \in Job :
          /\ job[j].phase # "deployed" /\ job'[j].phase = "deployed"
          /\ ~job[j].overlapped
          => /\ \A f \in File : Whitelisted(f) => site'[f] = job[j].commit
             /\ tars'[job[j].tar] = 0
             /\ dirs'[job[j].dir] = Absent
             /\ tops'[job[j].commit] = {}
  <2> SUFFICES ASSUME DeploymentInv, [Next]_vars, NEW j \in Job,
                      job[j].phase # "deployed", job'[j].phase = "deployed",
                      ~job[j].overlapped
               PROVE  /\ \A f \in File : Whitelisted(f) => site'[f] = job[j].commit
                      /\ tars'[job[j].tar] = 0
                      /\ dirs'[job[j].dir] = Absent
                      /\ tops'[job[j].commit] = {}
    OBVIOUS
  <2>1. Removes(j) /\ dirs' = [dirs EXCEPT ![job[j].dir] = Absent]
    BY DeployedByRemoves
  <2>2. /\ job[j].phase = "copying" /\ job[j].left = {}
        /\ UNCHANGED <<tars, tops, site>>
    BY <2>1 DEF Removes
  <2>3. Advances(j) /\ Typed /\ job[j] \in JobType
    BY DEF DeploymentInv, Typed
  <2>4. Progress(j)
    BY <2>2, <2>3 DEF Advances, Alone, UnderWay, Synchronous
  <2>5. dirs'[job[j].dir] = Absent
    BY <2>1, <2>3 DEF Typed, JobType
  <2> QED BY <2>2, <2>4, <2>5 DEF Progress, Complete
<1> QED BY <1>1, DeploymentInvariant, PTL DEF Spec, SoloDeploys

\* A file is put back to an earlier commit only by a hook that another one overlaps,
\* from the time its archive was made on (POSTHandlerContext.ts:181-229).
THEOREM DeploymentBackOnlyByOverlap == Spec => BackOnlyByOverlap
<1>1. DeploymentInv /\ [Next]_vars =>
        \A f \in File : site'[f] # 0 /\ site'[f] < site[f] =>
          \E j \in Job : job[j].phase = "copying" /\ job[j].overlapped
  <2> SUFFICES ASSUME DeploymentInv, [Next]_vars, NEW f \in File,
                      site'[f] # 0, site'[f] < site[f]
               PROVE  \E j \in Job : job[j].phase = "copying" /\ job[j].overlapped
    OBVIOUS
  <2>1. site[f] \in Nat
    BY DEF DeploymentInv, Typed
  <2>2. site' # site
    BY <2>1
  <2>3. PICK j \in Job : Copies(j)
    BY <2>2 DEF Next, Push, Killed, Hook, RequestFails, Served, Downloaded, Starts, Opens, Unpacks,
                Extracted, ExtractionFails, OrphanEnds, Lists, Removes, vars
  <2>4. job[j].phase = "copying" /\ Typed /\ job[j] \in JobType /\ Advances(j)
    BY <2>3 DEF Copies, DeploymentInv, Typed
  <2>5. PICK g \in job[j].left :
           \/ site' = [site EXCEPT ![g] = dirs[job[j].dir][g]]
           \/ site' = [site EXCEPT ![g] = 0]
    BY <2>2, <2>3 DEF Copies
  <2>6. f = g /\ site'[f] = dirs[job[j].dir][f]
    BY <2>1, <2>4, <2>5 DEF Typed
  <2>7. ~Alone(j)
    <3> SUFFICES ASSUME Alone(j) PROVE FALSE
      OBVIOUS
    <3>1. Complete(j) /\ site[f] <= job[j].commit /\ job[j].commit \in Nat
      BY <2>4 DEF Advances, Progress, JobType
    <3>2. site'[f] = job[j].commit
      BY <2>6, <3>1 DEF Complete
    <3> QED BY <2>1, <3>1, <3>2
  <2>8. job[j].overlapped
    BY <2>4, <2>7 DEF Alone, UnderWay, Synchronous
  <2> QED BY <2>4, <2>8
<1> QED BY <1>1, DeploymentInvariant, PTL DEF Spec, BackOnlyByOverlap

=============================================================================
