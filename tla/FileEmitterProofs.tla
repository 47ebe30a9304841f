-------------------------- MODULE FileEmitterProofs --------------------------
(***************************************************************************)
(* What an emission leaves in the public directory, for any number of      *)
(* emissions, files and builds.                                            *)
(*                                                                         *)
(* The inductive invariant says, of an emission that is under way, what of *)
(* its files is there already: exactly what it wrote, and directories that *)
(* it needs, if none overlaps it, and at least that, in some version, if   *)
(* none was started after it.                                              *)
(***************************************************************************)
EXTENDS FileEmitter, SequenceTheorems, FiniteSetTheorems, TLAPS

Distinct(s) == \A i, j \in 1 .. Len(s) : s[i] = s[j] => i = j
Phase == {"idle", "building", "rendering", "writing", "emitted", "rejected"}

\* The range of each variable.
Typed ==
    /\ disk \in [File -> Nat]
    /\ phase \in [Emission -> Phase]
    /\ publicFiles \in [Emission -> [File -> Nat]]
    /\ left \in [Emission -> Seq(File)]
    /\ overlapped \subseteq Emission
    /\ followed \subseteq overlapped

\* An emission has its own files to write, each once; when it is writing, one at
\* least.
LeftToWrite(e) ==
    /\ phase[e] \in {"rendering", "writing"} =>
          Distinct(left[e]) /\ Range(left[e]) \subseteq Rendered(publicFiles[e])
    /\ phase[e] = "writing" => left[e] # <<>>

\* What it has written, in the end all that it renders.
Written(e) ==
    IF phase[e] = "building" THEN {} ELSE Rendered(publicFiles[e]) \ Range(left[e])

\* The directories that it needs.
Needed(e) ==
    IF phase[e] = "building" THEN {}
    ELSE UNION {Above(f) : f \in Rendered(publicFiles[e])}

\* Alone it finds there what it has written and nothing else.
AloneExact(e) ==
    e \in UnderWay \ overlapped =>
        /\ disk = [f \in File |-> IF f \in Written(e) THEN publicFiles[e][f] ELSE 0]
        /\ parents \subseteq Needed(e)

\* Unless another one was started after it, what it has written is there, and the
\* directory that it made last.
LastKeeps(e) ==
    e \in UnderWay \ followed =>
        /\ \A f \in Written(e) : disk[f] # 0
        /\ phase[e] = "writing" => Front(Head(left[e])) \in parents

RejectedFor(e) ==
    phase[e] = "rejected" => e \in failed \cup overlapped \/ ~Consistent(publicFiles[e])

\* Two that are under way overlap.
Overlapping == \A d, e \in UnderWay : d # e => e \in overlapped

EmissionInv(e) == LeftToWrite(e) /\ AloneExact(e) /\ LastKeeps(e) /\ RejectedFor(e)

\* The inductive invariant.
EmitterInv == Typed /\ Overlapping /\ \A e \in Emission : EmissionInv(e)

-----------------------------------------------------------------------------
(* Sequences.                                                              *)

\* SetToSeq lists every member of a finite set, once.
LEMMA SetToSeqLists ==
    ASSUME NEW S, IsFiniteSet(S)
    PROVE  /\ SetToSeq(S) \in Seq(S)
           /\ Range(SetToSeq(S)) = S
           /\ Distinct(SetToSeq(S))
<1> DEFINE n == Cardinality(S)
           s == SetToSeq(S)
<1>1. n \in Nat /\ ExistsBijection(1 .. n, S)
  BY FS_CardinalityType
<1>2. \E f \in [1 .. n -> S] : IsInjective(f)
  BY <1>1 DEF ExistsBijection, Bijection, Injection, IsInjective
<1>3. s \in [1 .. n -> S] /\ IsInjective(s)
  BY <1>2 DEF SetToSeq
<1>4. IsFiniteSet(1 .. n) /\ Cardinality(1 .. n) = n
  BY <1>1, FS_Interval
<1> HIDE DEF s, n
<1>5. s \in Seq(S) /\ DOMAIN s = 1 .. n /\ Len(s) = n
  BY <1>1, <1>3
<1>6. s \in Injection(1 .. n, S)
  BY <1>3 DEF Injection
<1>7. s \in Surjection(1 .. n, S)
  BY <1>4, <1>6, FS_Injection DEF n
<1>8. Range(s) = S
  BY <1>5, <1>7 DEF Surjection, Range
<1>9. Distinct(s)
  BY <1>3, <1>5 DEF Distinct, IsInjective
<1> QED BY <1>5, <1>8, <1>9 DEF s

\* The tail of a sequence without repetitions is one, and lacks the head.
LEMMA DistinctTail ==
    ASSUME NEW S, NEW s \in Seq(S), s # <<>>, Distinct(s)
    PROVE  /\ Head(s) \in Range(s)
           /\ Tail(s) \in Seq(S)
           /\ Distinct(Tail(s))
           /\ Range(Tail(s)) = Range(s) \ {Head(s)}
<1>1. /\ Tail(s) \in Seq(S)
      /\ Len(Tail(s)) = Len(s) - 1
      /\ \A i \in 1 .. Len(Tail(s)) : Tail(s)[i] = s[i + 1]
  BY HeadTailProperties
<1>2. /\ Len(s) \in Nat \ {0}
      /\ DOMAIN s = 1 .. Len(s)
      /\ DOMAIN Tail(s) = 1 .. (Len(s) - 1)
      /\ Head(s) = s[1]
  BY <1>1, LenProperties, EmptySeq
<1>3. \A i, j \in 1 .. (Len(s) - 1) : s[i + 1] = s[j + 1] => i = j
  <2>1. \A i, j \in 1 .. (Len(s) - 1) : s[i + 1] = s[j + 1] => i + 1 = j + 1
    BY <1>2 DEF Distinct
  <2> QED BY <2>1, <1>2
<1>4. \A i \in 1 .. (Len(s) - 1) : s[i + 1] # s[1]
  BY <1>2 DEF Distinct
<1>5. ASSUME NEW x \in Range(Tail(s)) PROVE x \in Range(s) \ {Head(s)}
  <2>1. PICK i \in 1 .. (Len(s) - 1) : x = Tail(s)[i]
    BY <1>2, <1>5 DEF Range
  <2>2. i + 1 \in 1 .. Len(s) /\ x = s[i + 1] /\ x # s[1]
    BY <1>1, <1>2, <1>4, <2>1
  <2> QED BY <1>2, <2>2 DEF Range
<1>6. ASSUME NEW x \in Range(s), x # Head(s) PROVE x \in Range(Tail(s))
  <2>1. PICK i \in 1 .. Len(s) : x = s[i]
    BY <1>2, <1>6 DEF Range
  <2>2. i - 1 \in 1 .. (Len(s) - 1) /\ x = Tail(s)[i - 1]
    BY <1>1, <1>2, <1>6, <2>1
  <2> QED BY <1>2, <2>2 DEF Range
<1>7. Head(s) \in Range(s)
  BY <1>2 DEF Range
<1>8. Distinct(Tail(s))
  BY <1>1, <1>2, <1>3 DEF Distinct
<1> QED BY <1>1, <1>5, <1>6, <1>7, <1>8

-----------------------------------------------------------------------------
(* The steps.                                                              *)

\* The directory of a file is one that it is in.
LEMMA FrontIsAbove == ASSUME NEW f \in File PROVE Front(f) \in Above(f)
<1>1. f \in Seq(STRING) /\ f # <<>>
  BY FileEmitterAssumption
<1>2. Len(f) \in Nat \ {0}
  BY <1>1, LenProperties, EmptySeq
<1>3. Len(f) - 1 \in 0 .. Len(f) - 1
  BY <1>2
<1> QED BY <1>3 DEF Front, Above

\* Nothing is emitted in the beginning.
LEMMA InitEstablishesInv == Init => EmitterInv
<1> SUFFICES ASSUME Init PROVE EmitterInv
  OBVIOUS
<1>1. Typed
  BY DEF Init, Typed, Phase, Nothing
<1>2. \A e \in Emission : phase[e] = "idle"
  BY DEF Init
<1> QED BY <1>1, <1>2 DEF EmitterInv, EmissionInv, Overlapping, UnderWay, LeftToWrite, AloneExact,
                          LastKeeps, RejectedFor

\* An emission is started: from then on it overlaps those under way, which it
\* follows, so that nothing is said of them any more.
LEMMA StartsOverlaps ==
    ASSUME EmitterInv, NEW e \in Emission, Starts(e), NEW next \in {"building", "rejected"},
           phase' = [phase EXCEPT ![e] = next],
           disk' \in [File -> Nat], UNCHANGED <<publicFiles, left>>,
           failed \subseteq failed',
           next = "building" => disk' = Nothing /\ parents' = {},
           next = "rejected" => e \in failed' \/ UnderWay # {}
    PROVE  EmitterInv'
<1>1. /\ phase[e] = "idle"
      /\ overlapped' = IF UnderWay = {} THEN overlapped ELSE overlapped \cup UnderWay \cup {e}
      /\ followed' = followed \cup UnderWay
  BY DEF Starts
<1>2. Typed /\ Overlapping
  BY DEF EmitterInv
<1>3. /\ UnderWay' = IF next = "building" THEN UnderWay \cup {e} ELSE UnderWay
      /\ e \notin UnderWay /\ UnderWay \subseteq Emission
  BY <1>1, <1>2 DEF UnderWay, Typed
<1>4. Typed'
  BY <1>1, <1>2, <1>3 DEF Typed, Phase
<1>5. Overlapping'
  BY <1>1, <1>2, <1>3 DEF Overlapping
<1>6. /\ UnderWay' \ overlapped' \subseteq {e} /\ UnderWay' \ followed' \subseteq {e}
      /\ e \in UnderWay' => next = "building"
  BY <1>1, <1>3
<1>7. ASSUME NEW d \in Emission PROVE EmissionInv(d)'
  <2>1. phase'[d] = IF d = e THEN next ELSE phase[d]
    BY <1>1, <1>2 DEF Typed
  <2>2. LeftToWrite(d)'
    BY <1>1, <2>1 DEF EmitterInv, EmissionInv, LeftToWrite, Rendered
  <2>3. RejectedFor(d)'
    BY <1>1, <2>1 DEF EmitterInv, EmissionInv, RejectedFor, Consistent, Rendered
  <2>4. AloneExact(d)'
    BY <1>1, <1>6, <2>1 DEF AloneExact, Written, Nothing
  <2>5. LastKeeps(d)'
    BY <1>1, <1>6, <2>1 DEF LastKeeps, Written
  <2> QED BY <2>2, <2>3, <2>4, <2>5 DEF EmissionInv
<1> QED BY <1>4, <1>5, <1>7 DEF EmitterInv

\* The directory is removed, and the emission has written as little as there is.
LEMMA EmitKeepsInv == ASSUME EmitterInv, NEW e \in Emission, Emit(e) PROVE EmitterInv'
<1>1. /\ Starts(e) /\ phase' = [phase EXCEPT ![e] = "building"]
      /\ disk' = Nothing /\ parents' = {} /\ UNCHANGED <<publicFiles, left, failed>>
  BY DEF Emit
<1>2. Nothing \in [File -> Nat]
  BY DEF Nothing
<1> QED BY <1>1, <1>2, StartsOverlaps

\* The removal fails, for the disk or for an emission that is under way.
LEMMA RemovalFailsKeepsInv ==
    ASSUME EmitterInv, NEW e \in Emission, RemovalFails(e) PROVE EmitterInv'
<1>1. /\ Starts(e) /\ phase' = [phase EXCEPT ![e] = "rejected"]
      /\ UNCHANGED <<publicFiles, left>>
      /\ failed \subseteq failed'
      /\ e \in failed' \/ UnderWay # {}
  BY DEF RemovalFails, Rejects
<1>2. disk \in [File -> Nat]
  BY DEF EmitterInv, Typed
<1>3. disk' \in [File -> Nat]
  BY <1>2 DEF RemovalFails
<1> QED BY <1>1, <1>3, StartsOverlaps

\* A step of an emission under way keeps what is said of the others: they are not
\* alone, and no file or directory is removed.
LEMMA OwnStepKeepsInv ==
    ASSUME EmitterInv, Typed', NEW e \in UnderWay,
           parents \subseteq parents', \A f \in File : disk[f] # 0 => disk'[f] # 0,
           UNCHANGED <<overlapped, followed>>, failed \subseteq failed',
           \A d \in Emission \ {e} :
               phase'[d] = phase[d] /\ publicFiles'[d] = publicFiles[d] /\ left'[d] = left[d],
           EmissionInv(e)'
    PROVE  EmitterInv'
<1>1. UnderWay' \subseteq UnderWay /\ e \in Emission
  BY DEF UnderWay
<1>2. Overlapping'
  BY <1>1 DEF EmitterInv, Overlapping
<1>3. ASSUME NEW d \in Emission, d # e PROVE EmissionInv(d)'
  <2>1. LeftToWrite(d) /\ LastKeeps(d) /\ RejectedFor(d)
    BY DEF EmitterInv, EmissionInv
  <2>2. Written(d)' = Written(d) /\ Written(d) \subseteq File /\ (d \in UnderWay' => d \in UnderWay)
    BY <1>1, <1>3 DEF Written, Rendered
  <2>3. LeftToWrite(d)'
    BY <1>3, <2>1 DEF LeftToWrite, Rendered
  <2>4. RejectedFor(d)'
    BY <1>3, <2>1 DEF RejectedFor, Consistent, Rendered
  <2>5. AloneExact(d)'
    BY <1>3, <2>2 DEF AloneExact, EmitterInv, Overlapping
  <2>6. LastKeeps(d)'
    BY <1>3, <2>1, <2>2 DEF LastKeeps
  <2> QED BY <2>3, <2>4, <2>5, <2>6 DEF EmissionInv
<1> QED BY <1>2, <1>3 DEF EmitterInv

\* An emission is rejected, for a reason.
LEMMA RejectionKeepsInv ==
    ASSUME EmitterInv, NEW e \in UnderWay, Rejects(e),
           parents \subseteq parents', disk' \in [File -> Nat],
           \A f \in File : disk[f] # 0 => disk'[f] # 0,
           UNCHANGED <<publicFiles, left, overlapped, followed>>, failed \subseteq failed',
           e \in failed' \cup overlapped \/ ~Consistent(publicFiles[e])
    PROVE  EmitterInv'
<1>1. Typed /\ e \in Emission
  BY DEF EmitterInv, UnderWay
<1>2. phase'[e] = "rejected" /\ \A d \in Emission \ {e} : phase'[d] = phase[d]
  BY <1>1 DEF Typed, Rejects
<1>3. Typed'
  BY <1>1 DEF Typed, Phase, Rejects
<1>4. RejectedFor(e)'
  BY DEF RejectedFor, Consistent, Rendered
<1>5. EmissionInv(e)'
  BY <1>2, <1>4 DEF EmissionInv, LeftToWrite, AloneExact, LastKeeps, UnderWay
<1> QED BY <1>2, <1>3, <1>5, OwnStepKeepsInv

\* The build has answered: all that it renders is left to be written.
LEMMA BuiltKeepsInv == ASSUME EmitterInv, NEW e \in Emission, Built(e) PROVE EmitterInv'
<1>1. PICK built \in Builds : Answered(e, built)
  BY DEF Built
<1>2. /\ phase[e] = "building"
      /\ phase' = [phase EXCEPT ![e] = "rendering"]
      /\ publicFiles' = [publicFiles EXCEPT ![e] = built]
      /\ left' = [left EXCEPT ![e] = SetToSeq(Rendered(built))]
      /\ UNCHANGED <<disk, parents, overlapped, followed, failed>>
  BY <1>1 DEF Built, Answered, public, overlaps
<1>3. Typed /\ AloneExact(e) /\ e \in UnderWay
  BY <1>2 DEF EmitterInv, EmissionInv, UnderWay
<1>4. built \in [File -> Nat]
  BY FileEmitterAssumption
<1>5. Rendered(built) \subseteq File /\ IsFiniteSet(Rendered(built))
  BY FileEmitterAssumption, FS_Subset DEF Rendered
<1>6. /\ SetToSeq(Rendered(built)) \in Seq(Rendered(built))
      /\ Range(SetToSeq(Rendered(built))) = Rendered(built)
      /\ Distinct(SetToSeq(Rendered(built)))
  BY <1>5, SetToSeqLists
<1>7. SetToSeq(Rendered(built)) \in Seq(File)
  BY <1>5, <1>6
<1>8. Typed'
  BY <1>2, <1>3, <1>4, <1>7 DEF Typed, Phase
<1>9. /\ phase'[e] = "rendering" /\ publicFiles'[e] = built
      /\ left'[e] = SetToSeq(Rendered(built))
      /\ \A d \in Emission \ {e} :
            phase'[d] = phase[d] /\ publicFiles'[d] = publicFiles[d] /\ left'[d] = left[d]
  BY <1>2, <1>3 DEF Typed
<1>10. Written(e)' = {} /\ Written(e) = {} /\ Needed(e) = {}
  BY <1>2, <1>6, <1>9 DEF Written, Needed, Rendered
<1>11. AloneExact(e)'
  BY <1>2, <1>3, <1>10 DEF AloneExact
<1>12. LeftToWrite(e)' /\ RejectedFor(e)' /\ LastKeeps(e)'
  BY <1>6, <1>9, <1>10 DEF LeftToWrite, RejectedFor, LastKeeps, Rendered
<1> QED BY <1>2, <1>3, <1>8, <1>9, <1>11, <1>12, OwnStepKeepsInv DEF EmissionInv

\* The build fails, for which the emission is.
LEMMA BuildFailsKeepsInv == ASSUME EmitterInv, NEW e \in Emission, BuildFails(e) PROVE EmitterInv'
<1>1. /\ e \in UnderWay /\ Rejects(e) /\ failed' = failed \cup {e}
      /\ UNCHANGED <<disk, parents, publicFiles, left, overlapped, followed>>
  BY DEF BuildFails, public, overlaps, UnderWay
<1>2. disk' \in [File -> Nat]
  BY <1>1 DEF EmitterInv, Typed
<1> QED BY <1>1, <1>2, RejectionKeepsInv

\* The directory of the next file is made, or what is in the way is of another
\* emission or of the same build.
LEMMA MakesDirectoryKeepsInv ==
    ASSUME EmitterInv, NEW e \in Emission, MakesDirectory(e) PROVE EmitterInv'
<1> DEFINE f == Head(left[e])
<1>1. /\ phase[e] = "rendering" /\ left[e] # <<>>
      /\ UNCHANGED <<disk, publicFiles, left, overlapped, followed>>
  BY DEF MakesDirectory, overlaps
<1>2. /\ Typed /\ LeftToWrite(e) /\ AloneExact(e) /\ LastKeeps(e)
      /\ e \in UnderWay /\ disk' \in [File -> Nat]
  BY <1>1 DEF EmitterInv, EmissionInv, UnderWay, Typed
<1>3. f \in Rendered(publicFiles[e]) /\ f \in File
  <2>1. f \in Range(left[e])
    BY <1>1, <1>2, DistinctTail DEF Typed, LeftToWrite
  <2> QED BY <1>1, <1>2, <2>1 DEF LeftToWrite, Rendered
<1>4. CASE /\ parents' = parents \cup Above(f) /\ UNCHANGED failed
           /\ phase' = [phase EXCEPT ![e] = "writing"]
  <2>1. Typed'
    BY <1>1, <1>2, <1>4 DEF Typed, Phase
  <2>2. phase'[e] = "writing" /\ \A d \in Emission \ {e} : phase'[d] = phase[d]
    BY <1>2, <1>4 DEF Typed
  <2>3. Written(e)' = Written(e) /\ Needed(e)' = Needed(e)
    BY <1>1, <2>2 DEF Written, Needed, Rendered
  <2>4. Above(f) \subseteq Needed(e)
    BY <1>1, <1>3 DEF Needed
  <2> HIDE DEF f
  <2>5. AloneExact(e)'
    BY <1>1, <1>2, <1>4, <2>3, <2>4 DEF AloneExact
  <2>6. f = Head(left'[e]) /\ Front(f) \in parents'
    BY <1>1, <1>3, <1>4, FrontIsAbove DEF f
  <2>7. LastKeeps(e)'
    BY <1>1, <1>2, <2>3, <2>6 DEF LastKeeps
  <2>8. LeftToWrite(e)' /\ RejectedFor(e)'
    BY <1>1, <1>2, <2>2 DEF LeftToWrite, RejectedFor, Rendered
  <2> QED BY <1>1, <1>2, <1>4, <2>1, <2>2, <2>5, <2>7, <2>8, OwnStepKeepsInv DEF EmissionInv
<1>5. CASE (\E g \in File \cap Above(f) : disk[g] # 0) /\ Rejects(e) /\ UNCHANGED <<parents, failed>>
  <2>1. PICK g \in File \cap Above(f) : disk[g] # 0
    BY <1>5
  <2>2. e \in overlapped \/ ~Consistent(publicFiles[e])
    <3> SUFFICES ASSUME e \notin overlapped PROVE ~Consistent(publicFiles[e])
      OBVIOUS
    <3>1. g \in Rendered(publicFiles[e])
      BY <1>1, <1>2, <2>1 DEF AloneExact, Written
    <3> QED BY <1>3, <2>1, <3>1 DEF Consistent
  <2> QED BY <1>1, <1>2, <1>5, <2>2, RejectionKeepsInv
<1>6. CASE parents \subseteq parents' /\ Rejects(e) /\ failed' = failed \cup {e}
  BY <1>1, <1>2, <1>6, RejectionKeepsInv
<1> QED BY <1>4, <1>5, <1>6 DEF MakesDirectory

\* A file is written: of the others, none is alone then, and the files of none get
\* lost.  If it cannot be written, it is for another emission or for the same build.
LEMMA WritesKeepsInv == ASSUME EmitterInv, NEW e \in Emission, Writes(e) PROVE EmitterInv'
<1> DEFINE f == Head(left[e])
           writable == Front(f) \in parents /\ f \notin parents
<1>1. /\ phase[e] = "writing"
      /\ UNCHANGED <<parents, publicFiles, overlapped, followed>>
  BY DEF Writes, overlaps
<1>2. /\ Typed /\ LeftToWrite(e) /\ AloneExact(e) /\ LastKeeps(e)
      /\ e \in UnderWay
  BY <1>1 DEF EmitterInv, EmissionInv, UnderWay
<1>3. /\ left[e] \in Seq(File) /\ left[e] # <<>> /\ Distinct(left[e])
      /\ Range(left[e]) \subseteq Rendered(publicFiles[e])
  BY <1>1, <1>2 DEF Typed, LeftToWrite
<1>4. /\ f \in Range(left[e])
      /\ Tail(left[e]) \in Seq(File)
      /\ Distinct(Tail(left[e]))
      /\ Range(Tail(left[e])) = Range(left[e]) \ {f}
  BY <1>3, DistinctTail
<1>5. f \in Rendered(publicFiles[e]) /\ f \in File /\ publicFiles[e][f] # 0
  BY <1>3, <1>4 DEF Rendered
<1>6. CASE ~writable /\ Rejects(e) /\ UNCHANGED <<disk, left, failed>>
  <2>1. e \in overlapped \/ ~Consistent(publicFiles[e])
    <3>1. CASE Front(f) \notin parents
      BY <1>1, <1>2, <3>1 DEF LastKeeps, Typed
    <3>2. CASE f \in parents /\ e \notin overlapped
      <4>1. PICK g \in Rendered(publicFiles[e]) : f \in Above(g)
        BY <1>1, <1>2, <3>2 DEF AloneExact, Needed
      <4> QED BY <1>5, <4>1 DEF Consistent
    <3> QED BY <1>6, <3>1, <3>2
  <2>2. disk' \in [File -> Nat]
    BY <1>2, <1>6 DEF Typed
  <2> QED BY <1>1, <1>2, <1>6, <2>1, <2>2, RejectionKeepsInv
<1>7. CASE /\ disk' \in {disk, [disk EXCEPT ![f] = Torn]} /\ Rejects(e)
           /\ failed' = failed \cup {e} /\ UNCHANGED left
  <2>1. disk' \in [File -> Nat] /\ \A g \in File : disk[g] # 0 => disk'[g] # 0
    <3>1. CASE disk' = disk
      BY <1>2, <3>1 DEF Typed
    <3>2. CASE disk' = [disk EXCEPT ![f] = Torn]
      BY <1>2, <1>5, <3>2 DEF Typed, Torn
    <3> QED BY <1>7, <3>1, <3>2
  <2> QED BY <1>1, <1>2, <1>7, <2>1, RejectionKeepsInv
<1>8. CASE /\ disk' = [disk EXCEPT ![f] = publicFiles[e][f]]
           /\ left' = [left EXCEPT ![e] = Tail(left[e])]
           /\ phase' = [phase EXCEPT ![e] = "rendering"] /\ UNCHANGED failed
  <2> HIDE DEF f
  <2>1. Typed'
    BY <1>1, <1>2, <1>4, <1>5, <1>8 DEF Typed, Phase
  <2>2. /\ phase'[e] = "rendering" /\ left'[e] = Tail(left[e])
        /\ \A d \in Emission \ {e} : phase'[d] = phase[d] /\ left'[d] = left[d]
        /\ \A g \in File : disk'[g] = IF g = f THEN publicFiles[e][f] ELSE disk[g]
        /\ DOMAIN disk' = File
    BY <1>2, <1>8 DEF Typed
  <2>3. /\ Written(e)' = Written(e) \cup {f} /\ Needed(e)' = Needed(e)
        /\ Written(e) \subseteq File
    BY <1>1, <1>3, <1>4, <1>5, <2>2 DEF Written, Needed, Rendered
  <2>4. AloneExact(e)'
    <3> SUFFICES ASSUME e \notin overlapped
                 PROVE  /\ disk' = [g \in File |-> IF g \in Written(e)' THEN publicFiles[e][g] ELSE 0]
                        /\ parents \subseteq Needed(e)'
      BY <1>1 DEF AloneExact
    <3>1. /\ disk = [g \in File |-> IF g \in Written(e) THEN publicFiles[e][g] ELSE 0]
          /\ parents \subseteq Needed(e)
      BY <1>2 DEF AloneExact
    <3> QED BY <1>2, <1>5, <1>8, <2>3, <3>1 DEF Typed
  <2>5. LastKeeps(e)'
    BY <1>1, <1>2, <1>5, <2>2, <2>3 DEF LastKeeps
  <2>6. LeftToWrite(e)' /\ RejectedFor(e)'
    BY <1>1, <1>3, <1>4, <2>2 DEF LeftToWrite, RejectedFor, Rendered
  <2> QED BY <1>1, <1>2, <1>5, <1>8, <2>1, <2>2, <2>4, <2>5, <2>6, OwnStepKeepsInv DEF EmissionInv
<1> QED BY <1>6, <1>7, <1>8 DEF Writes

\* An emission ends.
LEMMA EmittedKeepsInv == ASSUME EmitterInv, NEW e \in Emission, Emitted(e) PROVE EmitterInv'
<1>1. /\ e \in UnderWay
      /\ phase' = [phase EXCEPT ![e] = "emitted"]
      /\ UNCHANGED <<disk, parents, publicFiles, left, overlapped, followed, failed>>
  BY DEF Emitted, public, overlaps, UnderWay
<1>2. Typed
  BY DEF EmitterInv
<1>3. Typed'
  BY <1>1, <1>2 DEF Typed, Phase
<1>4. phase'[e] = "emitted" /\ \A d \in Emission \ {e} : phase'[d] = phase[d]
  BY <1>1, <1>2 DEF Typed
<1>5. EmissionInv(e)'
  BY <1>4 DEF EmissionInv, LeftToWrite, AloneExact, LastKeeps, RejectedFor, UnderWay
<1> QED BY <1>1, <1>3, <1>4, <1>5, OwnStepKeepsInv

\* Every step keeps the invariant.
LEMMA StepKeepsInv == ASSUME EmitterInv, [Next]_vars PROVE EmitterInv'
<1>1. CASE Next
  BY <1>1, EmitKeepsInv, RemovalFailsKeepsInv, BuiltKeepsInv, BuildFailsKeepsInv,
     MakesDirectoryKeepsInv, WritesKeepsInv, EmittedKeepsInv DEF Next
<1>2. CASE UNCHANGED vars
  <2>1. UNCHANGED <<disk, parents, phase, publicFiles, left, overlapped, followed, failed>>
    BY <1>2 DEF vars, public, emissions, overlaps
  <2> QED BY <2>1 DEF EmitterInv, EmissionInv, Typed, Overlapping, UnderWay, LeftToWrite,
                      AloneExact, LastKeeps, RejectedFor, Written, Needed, Rendered, Consistent
<1> QED BY <1>1, <1>2

\* What an emission that is started writes is what the invariant says
\* (FileEmitter.ts:51-103, Directory.ts:34-43).
THEOREM EmitterInvariant == Spec => []EmitterInv
<1> QED BY InitEstablishesInv, StepKeepsInv, PTL DEF Spec

\* An emission fails for its own build, the disk or one that overlaps it: never for
\* what is left of those that were over before it (FileEmitter.ts:51-71, 90-103).
THEOREM EmitterFailsForOverlapOnly == Spec => []FailsForOverlapOnly
<1>1. EmitterInv => FailsForOverlapOnly
  BY DEF EmitterInv, EmissionInv, FailsForOverlapOnly, RejectedFor
<1> QED BY <1>1, EmitterInvariant, PTL

\* All is written in the end.
LEMMA EmittedHasWritten ==
    ASSUME EmitterInv, [Next]_vars, NEW e \in Emission, phase[e] = "rendering",
           phase'[e] = "emitted"
    PROVE  e \in UnderWay /\ Written(e) = Rendered(publicFiles[e])
<1>1. DOMAIN phase = Emission
  BY DEF EmitterInv, Typed
<1>2. left[e] = <<>>
  BY <1>1 DEF Next, vars, emissions, Emit, RemovalFails, Rejects, Built, Answered,
                 BuildFails, MakesDirectory, Writes, Emitted
<1>3. Range(left[e]) = {}
  BY <1>2 DEF Range
<1> QED BY <1>3 DEF UnderWay, Written

\* An emission that none overlapped leaves exactly what was built for it
\* (FileEmitter.ts:73-103, Directory.ts:34-43).
THEOREM EmitterSoloIsExact == Spec => SoloIsExact
<1>1. EmitterInv /\ [Next]_vars =>
         [\A e \in Emission :
             phase[e] = "rendering" /\ phase'[e] = "emitted" /\ e \notin overlapped =>
                disk = [f \in File |-> IF Depth[f] <= 1 THEN publicFiles[e][f] ELSE 0]]_vars
  <2> SUFFICES ASSUME EmitterInv, [Next]_vars, NEW e \in Emission,
                      phase[e] = "rendering", phase'[e] = "emitted", e \notin overlapped
               PROVE  disk = [f \in File |-> IF Depth[f] <= 1 THEN publicFiles[e][f] ELSE 0]
    OBVIOUS
  <2>1. disk = [f \in File |-> IF f \in Rendered(publicFiles[e]) THEN publicFiles[e][f] ELSE 0]
    BY EmittedHasWritten DEF EmitterInv, EmissionInv, AloneExact
  <2> QED BY <2>1 DEF Rendered
<1> QED BY <1>1, EmitterInvariant, PTL DEF Spec, SoloIsExact

\* An emission that none was started after leaves all of its files there
\* (FileEmitter.ts:90-103).
THEOREM EmitterLastIsComplete == Spec => LastIsComplete
<1>1. EmitterInv /\ [Next]_vars =>
         [\A e \in Emission :
             phase[e] = "rendering" /\ phase'[e] = "emitted" /\ e \notin followed =>
                \A f \in Rendered(publicFiles[e]) : disk[f] # 0]_vars
  <2> SUFFICES ASSUME EmitterInv, [Next]_vars, NEW e \in Emission,
                      phase[e] = "rendering", phase'[e] = "emitted", e \notin followed
               PROVE  \A f \in Rendered(publicFiles[e]) : disk[f] # 0
    OBVIOUS
  <2> QED BY EmittedHasWritten DEF EmitterInv, EmissionInv, LastKeeps
<1> QED BY <1>1, EmitterInvariant, PTL DEF Spec, LastIsComplete
=============================================================================
