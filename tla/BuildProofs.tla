---------------------------- MODULE BuildProofs ----------------------------
(***************************************************************************)
(* The properties of the build package: what a plugin answers from memory, *)
(* for any number of files and callers, and which plugin a path is asked   *)
(* of, for any number of plugins, paths and calls.                         *)
(***************************************************************************)
EXTENDS MCBuild, TLAPS

(* What a plugin answers from memory.                                      *)

\* An application holds what it has read from then to the end, and awaits a
\* result only once it has read everything.
ReadsHeld ==
    /\ \A c \in Caller : phase[c] \in {"idle", "importing"} => seen[c] = NoResult
    /\ \A c \in Caller : phase[c] = "building" => \A f \in File : seen[c][f] # Unread

\* What was read of a file that is not raced is its current version.
ReadsCurrent ==
    \A f \in File \ raced : \A c \in Caller :
        seen[c][f] # Unread => seen[c][f] = version[f]

\* What the timestamp says is applied is in the result, or will be.
AppliedIsCurrent ==
    \A f \in File \ raced :
        mtime[f] # Never /\ lastApplyTimestamp > mtime[f] =>
            lastApplyResult[f] = version[f] \/ Building

AppliedHasResult ==
    lastApplyTimestamp # Never =>
        (\A f \in File : lastApplyResult[f] # Unread) \/ Building

PresentHasTime == \A f \in File : version[f] # Absent => mtime[f] # Never

\* The inductive invariant.
PluginInv ==
    /\ TypeOK
    /\ ReadsHeld
    /\ ReadsCurrent
    /\ AppliedIsCurrent
    /\ AppliedHasResult
    /\ PresentHasTime

\* The initial memory is empty, and no application has begun.
LEMMA InitPlugin == Init => PluginInv
<1> SUFFICES ASSUME Init PROVE PluginInv
    OBVIOUS
<1>1. version \in [File -> {0, 1}]
    BY DEF Init, Absent
<1>2. /\ mtime = [f \in File |-> IF version[f] = 0 THEN -1 ELSE 0]
      /\ lastApplyTimestamp = -1
    BY DEF Init, Absent, Never
<1>3. /\ version \in [File -> Nat]
      /\ mtime \in [File -> Nat \cup {-1}]
      /\ \A f \in File : mtime[f] <= 0 /\ mtime[f] >= -1
      /\ \A f \in File : version[f] # 0 => mtime[f] # -1
    BY <1>1, <1>2, SMT
<1>4. TypeOK
    <2>1. NoResult \in [File -> Nat \cup {Unread}]
        BY DEF NoResult
    <2>2. /\ lastApplyResult \in [File -> Nat \cup {Unread}]
          /\ seen \in [Caller -> [File -> Nat \cup {Unread}]]
          /\ phase \in [Caller -> Phase]
        BY <2>1 DEF Init, Phase
    <2>3. now = 0 /\ edits = 0 /\ raced \subseteq File /\ ended \in BOOLEAN
        BY DEF Init
    <2> QED
        BY <1>2, <1>3, <2>2, <2>3, SMT DEF TypeOK, Never
<1>5. ReadsHeld /\ ReadsCurrent
    BY SMT DEF Init, ReadsHeld, ReadsCurrent, NoResult
<1>6. AppliedIsCurrent
    <2>1. \A f \in File : ~(lastApplyTimestamp > mtime[f])
        <3> TAKE f \in File
        <3>1. mtime[f] \in Int /\ mtime[f] >= -1
            BY <1>3
        <3> QED
            BY <1>2, <3>1, SMT
    <2> QED
        BY <2>1 DEF AppliedIsCurrent
<1>7. AppliedHasResult
    BY DEF Init, AppliedHasResult
<1>8. PresentHasTime
    BY <1>3 DEF PresentHasTime, Absent, Never
<1> QED
    BY <1>4, <1>5, <1>6, <1>7, <1>8 DEF PluginInv

\* A modification is raced, or later than any timestamp.
LEMMA ModifyKeeps ==
    ASSUME PluginInv, NEW f \in File, Modify(f) \/ Remove(f)
    PROVE  PluginInv'
<1>1. TypeOK'
    BY SMT DEF PluginInv, TypeOK, Modify, Remove, Edits, memory, callers, Never,
               Unread, Absent
<1>2. ReadsHeld' /\ AppliedHasResult' /\ PresentHasTime'
    BY SMT DEF PluginInv, TypeOK, ReadsHeld, AppliedHasResult, PresentHasTime,
               Building, Modify, Remove, Edits, memory, callers, Never, Unread,
               Absent, NoResult
<1>3. raced' = IF \E c \in Caller : seen[c][f] # Unread
               THEN raced \cup {f} ELSE raced \ {f}
    BY DEF Modify, Remove, Edits
<1>4. \A g \in File \ raced' : g # f => g \notin raced
    BY <1>3
<1>5. f \notin raced' => \A c \in Caller : seen[c][f] = Unread
    BY <1>3
<1>6. \A g \in File : g # f => version'[g] = version[g] /\ mtime'[g] = mtime[g]
    BY DEF PluginInv, TypeOK, Modify, Remove
<1>7. UNCHANGED <<memory, callers>>
    BY DEF Modify, Remove, Edits
<1>8. ReadsCurrent'
    BY <1>4, <1>5, <1>6, <1>7 DEF PluginInv, ReadsCurrent, callers
<1>9. mtime'[f] = now \/ mtime'[f] = Never
    BY DEF PluginInv, TypeOK, Modify, Remove
<1>10. ~(mtime'[f] # Never /\ lastApplyTimestamp' > mtime'[f])
    BY <1>7, <1>9, SMT DEF PluginInv, TypeOK, memory, Never
<1>11. AppliedIsCurrent'
    BY <1>4, <1>6, <1>7, <1>10 DEF PluginInv, AppliedIsCurrent, Building, memory, callers
<1> QED
    BY <1>1, <1>2, <1>8, <1>11 DEF PluginInv

\* The steps that change neither files nor memory.
LEMMA QuietKeeps ==
    ASSUME PluginInv,
           \/ Tick
           \/ \E c \in Caller : ApplyFromMemory(c) \/ Fails(c)
           \/ UNCHANGED vars
    PROVE  PluginInv'
<1>1. UNCHANGED <<files, memory, callers>>
    BY DEF Tick, ApplyFromMemory, Fails, vars
<1>2. (now' = now \/ now' = now + 1) /\ ended' \in BOOLEAN
    BY DEF Tick, ApplyFromMemory, Fails, vars, PluginInv, TypeOK
<1>3. TypeOK'
    BY <1>1, <1>2, SMT DEF PluginInv, TypeOK, files, memory, callers, Never
<1>4. ReadsHeld' /\ ReadsCurrent'
    BY <1>1 DEF PluginInv, ReadsHeld, ReadsCurrent, files, callers
<1>5. AppliedIsCurrent' /\ AppliedHasResult' /\ PresentHasTime'
    BY <1>1 DEF PluginInv, AppliedIsCurrent, AppliedHasResult, PresentHasTime,
                Building, files, memory, callers
<1> QED
    BY <1>3, <1>4, <1>5 DEF PluginInv

\* The steps of an application up to its call.
LEMMA ReadingKeeps ==
    ASSUME PluginInv, NEW c \in Caller,
           ApplyAnew(c) \/ Imports(c) \/ \E f \in File : Reads(c, f)
    PROVE  PluginInv'
<1>1. UNCHANGED <<now, files, memory, ended>>
    BY DEF ApplyAnew, Imports, Reads
<1>2. phase' \in [Caller -> Phase] /\ seen' \in [Caller -> [File -> Nat \cup {Unread}]]
    BY SMT DEF PluginInv, TypeOK, Phase, ApplyAnew, Imports, Reads, callers, Unread
<1>3. TypeOK'
    BY <1>1, <1>2 DEF PluginInv, TypeOK, files, memory
<1>4. \A d \in Caller : phase[d] = "building" <=> phase'[d] = "building"
    BY SMT DEF PluginInv, TypeOK, Phase, ApplyAnew, Imports, Reads, callers
<1>5. ReadsHeld'
    BY SMT DEF PluginInv, TypeOK, Phase, ReadsHeld, ApplyAnew, Imports, Reads,
               callers, NoResult, Unread
<1>6. ReadsCurrent'
    BY SMT DEF PluginInv, TypeOK, ReadsCurrent, ApplyAnew, Imports, Reads, callers,
               files, Unread
<1>7. AppliedIsCurrent' /\ AppliedHasResult' /\ PresentHasTime'
    BY <1>1, <1>4 DEF PluginInv, AppliedIsCurrent, AppliedHasResult, PresentHasTime,
                      Building, files, memory
<1> QED
    BY <1>3, <1>5, <1>6, <1>7 DEF PluginInv

\* The build function is called with everything read.
LEMMA CalledKeeps ==
    ASSUME PluginInv, NEW c \in Caller, Called(c)
    PROVE  PluginInv'
<1>1. TypeOK' /\ ReadsHeld' /\ PresentHasTime'
    BY SMT DEF PluginInv, TypeOK, Phase, ReadsHeld, PresentHasTime, Called, Stores,
               files, NoResult, Unread, Never
<1>2. ReadsCurrent'
    BY SMT DEF PluginInv, TypeOK, ReadsCurrent, Called, Stores, files, NoResult, Unread
<1>3. CASE Stores(c)
    <2>1. lastApplyResult' = seen[c]
        BY <1>3 DEF Stores
    <2>2. \A f \in File : seen[c][f] # Unread
        BY DEF Called
    <2>3. \A f \in File \ raced : seen[c][f] = version[f]
        BY <2>2 DEF PluginInv, ReadsCurrent
    <2> QED
        BY <1>1, <1>2, <2>1, <2>2, <2>3
        DEF PluginInv, AppliedIsCurrent, AppliedHasResult, Called, files
<1>4. CASE phase' = [phase EXCEPT ![c] = "building"]
    <2>1. phase'[c] = "building"
        BY <1>4 DEF PluginInv, TypeOK
    <2> QED
        BY <1>1, <1>2, <2>1 DEF PluginInv, AppliedIsCurrent, AppliedHasResult, Building
<1> QED
    BY <1>3, <1>4 DEF Called

\* The result that was awaited is stored.
LEMMA BuiltKeeps ==
    ASSUME PluginInv, NEW c \in Caller, Built(c)
    PROVE  PluginInv'
<1>1. TypeOK' /\ ReadsHeld' /\ PresentHasTime'
    BY SMT DEF PluginInv, TypeOK, Phase, ReadsHeld, PresentHasTime, Built, Stores,
               files, NoResult, Unread, Never
<1>2. ReadsCurrent'
    BY SMT DEF PluginInv, TypeOK, ReadsCurrent, Built, Stores, files, NoResult, Unread
<1>3. lastApplyResult' = seen[c] /\ \A f \in File : seen[c][f] # Unread
    BY DEF PluginInv, ReadsHeld, Built, Stores
<1>4. \A f \in File \ raced : seen[c][f] = version[f]
    BY <1>3 DEF PluginInv, ReadsCurrent
<1> QED
    BY <1>1, <1>2, <1>3, <1>4
    DEF PluginInv, AppliedIsCurrent, AppliedHasResult, Built, files

\* Every step keeps the invariant.
LEMMA NextPlugin == PluginInv /\ [Next]_vars => PluginInv'
<1> SUFFICES ASSUME PluginInv, [Next]_vars PROVE PluginInv'
    OBVIOUS
<1>1. CASE UNCHANGED vars \/ Tick
    BY <1>1, QuietKeeps
<1>2. CASE \E f \in File : Modify(f) \/ Remove(f)
    BY <1>2, ModifyKeeps
<1>3. ASSUME NEW c \in Caller, ApplyFromMemory(c) \/ Fails(c)
      PROVE  PluginInv'
    BY <1>3, QuietKeeps
<1>4. ASSUME NEW c \in Caller,
             ApplyAnew(c) \/ Imports(c) \/ \E f \in File : Reads(c, f)
      PROVE  PluginInv'
    BY <1>4, ReadingKeeps
<1>5. ASSUME NEW c \in Caller, Called(c) PROVE PluginInv'
    BY <1>5, CalledKeeps
<1>6. ASSUME NEW c \in Caller, Built(c) PROVE PluginInv'
    BY <1>6, BuiltKeeps
<1> QED
    BY <1>1, <1>2, <1>3, <1>4, <1>5, <1>6 DEF Next

\* The invariant holds of every behaviour of the plugin.
THEOREM PluginInvariant == Spec => []PluginInv
BY InitPlugin, NextPlugin, PTL DEF Spec

\* The memory of a plugin has its type, and no time of it lies in the future
\* (Plugin.ts:161-188).
THEOREM TypeCorrect == Spec => []TypeOK
<1>1. PluginInv => TypeOK
    BY DEF PluginInv
<1> QED
    BY <1>1, PluginInvariant, PTL

\* In development what apply answers from memory is current, races apart
\* (Plugin.ts:179-184, 194-207).
THEOREM MemoryIsFresh == Spec => []FreshUnlessRaced
<1>1. PluginInv => FreshUnlessRaced
    <2> SUFFICES ASSUME PluginInv, Dev, FromMemory, ~Building,
                        NEW f \in File \ raced, mtime[f] # Never
                 PROVE  lastApplyResult[f] = version[f]
        BY DEF FreshUnlessRaced
    <2>1. ~(lastApplyTimestamp <= mtime[f])
        BY DEF FromMemory, Outdated
    <2>2. lastApplyTimestamp > mtime[f]
        BY <2>1, SMT DEF PluginInv, TypeOK, Never
    <2> QED
        BY <2>2 DEF PluginInv, AppliedIsCurrent
<1> QED
    BY <1>1, PluginInvariant, PTL

\* apply answers with nothing only while the first result is awaited
\* (Plugin.ts:179-184, 207).
THEOREM NothingIsTemporary == Spec => []NothingOnlyWhileBuilding
<1>1. PluginInv => NothingOnlyWhileBuilding
    <2> SUFFICES ASSUME PluginInv, NEW f \in File, version[f] # Absent,
                        FromMemory, lastApplyResult = NoResult
                 PROVE  Building
        BY DEF NothingOnlyWhileBuilding
    <2>1. ~(lastApplyTimestamp <= mtime[f]) /\ mtime[f] # Never
        BY DEF FromMemory, Outdated, PluginInv, PresentHasTime
    <2>2. lastApplyTimestamp # Never
        BY <2>1, SMT DEF PluginInv, TypeOK, Never
    <2>3. lastApplyResult[f] = Unread
        BY DEF NoResult
    <2> QED
        BY <2>2, <2>3 DEF PluginInv, AppliedHasResult
<1> QED
    BY <1>1, PluginInvariant, PTL

-----------------------------------------------------------------------------
(* The map of the paths.                                                   *)

\* The range of each variable of Build.
BuildTyped ==
    /\ dirs \subseteq PluginDir
    /\ builds \in [PluginDir -> SUBSET Path]
    /\ changes \in 0 .. MaxChanges
    /\ plugins \subseteq Builds!Object
    /\ outpathMap \in [Path -> Builds!Object \cup {None}]
    /\ scan \in [Builds!Object -> {"never", "outdated", "current"}]
    /\ remembered \in [Builds!Object -> SUBSET Path]
    /\ DOMAIN phase = Caller /\ DOMAIN asked = Caller
    /\ stage \in [Caller -> [Builds!Object -> {"none", "reading", "building", "ready"}]]
    /\ made \in [Caller -> [Builds!Object -> SUBSET Path]]
    /\ related \in [Caller -> Builds!Object \cup {None}]
    /\ answer \in [Caller -> Builds!Object \cup {None}]
    /\ unnoticed \subseteq Builds!Object
    /\ steady \in [Caller -> SUBSET PluginDir]
    /\ excused \in [Caller -> SUBSET Builds!Object]

\* What an object that saw each change remembers is what its plugin builds, once
\* no result is awaited; and so is what an application of it will answer.
MemoryKept(o) ==
    o \notin unnoticed /\ scan[o] = "current" /\ ~Builds!Awaited(o) =>
        remembered[o] = builds[o[1]]
ReadKept(o) ==
    o \notin unnoticed =>
        \A c \in Caller :
            stage[c][o] \in {"reading", "building"} => made[c][o] = builds[o[1]]
MemoryInv == \A o \in Builds!Object : MemoryKept(o) /\ ReadKept(o)

\* The plugins that are steady build the path now.
SteadyBuilds(c) ==
    phase[c] # "idle" =>
        asked[c] \in Path /\ \A p \in steady[c] : p \in PluginDir /\ asked[c] \in builds[p]

\* They answer with it if they are not excused.
SteadyMade(c) ==
    \A o \in Builds!Object :
        o[1] \in steady[c] /\ o \notin excused[c] /\ stage[c][o] # "none" =>
            asked[c] \in made[c][o]

\* Until one of them enters it each is awaited.
SteadyAwaited(c) ==
    phase[c] = "retrieving" /\ outpathMap[asked[c]] = None =>
        \A p \in steady[c] : \E o \in Builds!Object :
            o[1] = p /\ (o \in excused[c] \/ stage[c][o] # "none")

\* Then the object that the map names is asked, and nothing else is.
OnlyRelated(c) ==
    /\ phase[c] \in {"idle", "answered"} => \A o \in Builds!Object : stage[c][o] = "none"
    /\ phase[c] \in {"idle", "retrieving"} => related[c] = None
    /\ phase[c] = "applying" =>
          /\ related[c] \in Builds!Object
          /\ \A o \in Builds!Object \ {related[c]} : stage[c][o] = "none"

\* What c is answered with.
LostToAnother(c) ==
    phase[c] = "answered" /\ answer[c] = None /\ steady[c] # {} =>
        \/ related[c] # None /\ (related[c][1] \notin steady[c] \/ related[c] \in excused[c])
        \/ related[c] = None /\ steady[c] \subseteq {o[1] : o \in excused[c]}

BuildCall(c) ==
    /\ SteadyBuilds(c)
    /\ SteadyMade(c)
    /\ SteadyAwaited(c)
    /\ OnlyRelated(c)
    /\ LostToAnother(c)

\* The inductive invariant.
BuildInv == BuildTyped /\ MemoryInv /\ \A c \in Caller : BuildCall(c)

\* The variables that the invariant is about.
buildVars == <<dirs, builds, changes, plugins, outpathMap, scan, remembered, phase, asked,
               stage, made, related, answer, unnoticed, steady, excused>>

LEMMA QuietKeepsBuild == ASSUME BuildInv, UNCHANGED buildVars PROVE BuildInv'
<1>1. BuildTyped'
  BY DEF BuildInv, BuildTyped, buildVars
<1>2. MemoryInv'
  BY DEF BuildInv, MemoryInv, MemoryKept, ReadKept, Builds!Awaited, buildVars
<1>3. \A c \in Caller : BuildCall(c)'
  BY DEF BuildInv, BuildCall, SteadyBuilds, SteadyMade, SteadyAwaited, OnlyRelated,
         LostToAnother, buildVars
<1> QED BY <1>1, <1>2, <1>3 DEF BuildInv

\* Nothing is asked for in the beginning.
LEMMA InitBuild == Builds!Init => BuildInv
<1> SUFFICES ASSUME Builds!Init PROVE BuildInv
  OBVIOUS
<1>1. BuildTyped
  <2>1. stage \in [Caller -> [Builds!Object -> {"none", "reading", "building", "ready"}]]
    BY DEF Builds!Init
  <2>2. made \in [Caller -> [Builds!Object -> SUBSET Path]]
    BY DEF Builds!Init
  <2> QED BY <2>1, <2>2, BuildAssumption DEF Builds!Init, BuildTyped
<1>2. MemoryInv
  BY DEF Builds!Init, MemoryInv, MemoryKept, ReadKept
<1>3. ASSUME NEW c \in Caller PROVE BuildCall(c)
  <2>1. /\ phase[c] = "idle" /\ steady[c] = {} /\ related[c] = None
        /\ \A o \in Builds!Object : stage[c][o] = "none"
    BY DEF Builds!Init
  <2> QED BY <2>1 DEF BuildCall, SteadyBuilds, SteadyMade, SteadyAwaited, OnlyRelated, LostToAnother
<1> QED BY <1>1, <1>2, <1>3 DEF BuildInv

\* A change of the plugin p on disk: it is steady in no call any more.
LEMMA ChangesKeepBuild ==
    ASSUME BuildInv, NEW p \in PluginDir, Builds!Changes(p), dirs' \subseteq PluginDir,
           builds' \in [PluginDir -> SUBSET Path],
           \A r \in PluginDir \ {p} : builds'[r] = builds[r]
    PROVE  BuildInv'
<1>1. /\ changes < MaxChanges /\ changes' = changes + 1
      /\ steady' = [c \in Caller |-> steady[c] \ {p}]
      /\ UNCHANGED <<remembered, plugins, outpathMap, phase, asked, stage, related, answer,
                     excused>>
  BY DEF Builds!Changes, Builds!mapping
<1>2. PICK noticed \in SUBSET {o \in Builds!Object : o[1] = p /\ scan[o] # "never"} :
         /\ scan' = [o \in Builds!Object |->
               IF o[1] # p \/ scan[o] = "never" THEN scan[o]
               ELSE IF o \in noticed THEN "outdated" ELSE "current"]
         /\ unnoticed' = {o \in Builds!Object :
               IF o[1] # p THEN o \in unnoticed
               ELSE Builds!Begun(o) \/ (scan[o] # "never" /\ o \notin noticed)}
  BY DEF Builds!Changes
<1>3. PICK mixed \in [Builds!Readers(p) -> SUBSET Path] :
         made' = [c \in Caller |-> [o \in Builds!Object |->
               IF o[1] = p /\ stage[c][o] = "reading" THEN mixed[c] ELSE made[c][o]]]
  BY DEF Builds!Changes
<1>4. BuildTyped
  BY DEF BuildInv
<1>5. \A c \in Caller, o \in Builds!Object :
         made'[c][o] = IF o[1] = p /\ stage[c][o] = "reading" THEN mixed[c] ELSE made[c][o]
  BY <1>3
<1>6. BuildTyped'
  <2>1. changes' \in 0 .. MaxChanges
    BY <1>1, <1>4, BuildAssumption DEF BuildTyped
  <2>2. made' \in [Caller -> [Builds!Object -> SUBSET Path]]
    <3>1. \A c \in Caller, o \in Builds!Object :
             (IF o[1] = p /\ stage[c][o] = "reading" THEN mixed[c] ELSE made[c][o]) \in SUBSET Path
      BY <1>4 DEF BuildTyped, Builds!Readers
    <3> QED BY <1>3, <3>1
  <2>3. /\ scan' \in [Builds!Object -> {"never", "outdated", "current"}]
        /\ unnoticed' \subseteq Builds!Object
        /\ steady' \in [Caller -> SUBSET PluginDir]
    BY <1>1, <1>2, <1>4 DEF BuildTyped
  <2> QED BY <1>1, <1>4, <2>1, <2>2, <2>3 DEF BuildTyped
<1>7. \A o \in Builds!Object : o[1] \in PluginDir
  BY DEF Builds!Object
<1>8. ASSUME NEW o \in Builds!Object PROVE MemoryKept(o)' /\ ReadKept(o)'
  <2>1. MemoryKept(o) /\ ReadKept(o)
    BY DEF BuildInv, MemoryInv
  <2>2. CASE o[1] # p
    <3>1. /\ scan'[o] = scan[o] /\ (o \in unnoticed' <=> o \in unnoticed)
          /\ builds'[o[1]] = builds[o[1]]
          /\ \A c \in Caller : made'[c][o] = made[c][o]
      BY <1>2, <1>5, <1>7, <2>2
    <3> QED BY <1>1, <2>1, <3>1 DEF MemoryKept, ReadKept, Builds!Awaited
  <2>3. CASE o[1] = p
    <3>1. CASE o \in unnoticed'
      BY <3>1 DEF MemoryKept, ReadKept
    <3>2. CASE o \notin unnoticed'
      <4>1. ~Builds!Begun(o) /\ (scan[o] = "never" \/ o \in noticed)
        BY <1>2, <2>3, <3>2
      <4>2. scan'[o] # "current"
        BY <1>2, <2>3, <4>1
      <4> QED BY <1>1, <4>1, <4>2 DEF MemoryKept, ReadKept, Builds!Begun
    <3> QED BY <3>1, <3>2
  <2> QED BY <2>2, <2>3
<1>9. ASSUME NEW c \in Caller PROVE BuildCall(c)'
  <2>1. BuildCall(c) /\ steady'[c] = steady[c] \ {p}
    BY <1>1, <1>4 DEF BuildInv, BuildTyped
  <2>2. SteadyBuilds(c)'
    BY <1>1, <2>1 DEF BuildCall, SteadyBuilds
  <2>3. SteadyMade(c)'
    BY <1>1, <1>5, <2>1 DEF BuildCall, SteadyMade
  <2>4. SteadyAwaited(c)' /\ OnlyRelated(c)'
    BY <1>1, <2>1 DEF BuildCall, SteadyAwaited, OnlyRelated
  <2>5. LostToAnother(c)'
    BY <1>1, <2>1 DEF BuildCall, LostToAnother
  <2> QED BY <2>2, <2>3, <2>4, <2>5 DEF BuildCall
<1> QED BY <1>6, <1>8, <1>9 DEF BuildInv, MemoryInv

\* A step of one call: the others see at most that paths are entered.
LEMMA CallKeepsBuild ==
    ASSUME BuildInv, BuildTyped', MemoryInv', NEW c \in Caller,
           UNCHANGED builds,
           \A q \in Path : outpathMap'[q] = None => outpathMap[q] = None,
           \A e \in Caller \ {c} :
               /\ phase'[e] = phase[e] /\ asked'[e] = asked[e] /\ stage'[e] = stage[e]
               /\ made'[e] = made[e] /\ related'[e] = related[e] /\ answer'[e] = answer[e]
               /\ steady'[e] = steady[e] /\ excused'[e] = excused[e],
           BuildCall(c)'
    PROVE  BuildInv'
<1>1. ASSUME NEW e \in Caller, e # c PROVE BuildCall(e)'
  <2>1. BuildCall(e)
    BY DEF BuildInv
  <2>2. SteadyBuilds(e)' /\ SteadyMade(e)'
    BY <1>1, <2>1 DEF BuildCall, SteadyBuilds, SteadyMade
  <2>3. SteadyAwaited(e)'
    BY <1>1, <2>1 DEF BuildCall, SteadyAwaited, SteadyBuilds
  <2>4. OnlyRelated(e)' /\ LostToAnother(e)'
    BY <1>1, <2>1 DEF BuildCall, OnlyRelated, LostToAnother
  <2> QED BY <2>2, <2>3, <2>4 DEF BuildCall
<1> QED BY <1>1 DEF BuildInv

\* Applications begin: from memory, or to read the files as they are.
LEMMA ApplyMeans ==
    ASSUME BuildInv, NEW c \in Caller, NEW os \in SUBSET Builds!Object, Builds!Apply(c, os),
           \A o \in Builds!Object : stage[c][o] = "none",
           UNCHANGED <<builds, scan, remembered, unnoticed>>
    PROVE  /\ stage' \in [Caller -> [Builds!Object -> {"none", "reading", "building", "ready"}]]
           /\ made' \in [Caller -> [Builds!Object -> SUBSET Path]]
           /\ excused' \in [Caller -> SUBSET Builds!Object]
           /\ \A e \in Caller \ {c} :
                 stage'[e] = stage[e] /\ made'[e] = made[e] /\ excused'[e] = excused[e]
           /\ \A o \in Builds!Object : stage'[c][o] # "none" <=> o \in os
           /\ \A o \in os \ excused'[c] : made'[c][o] = builds[o[1]]
           /\ MemoryInv'
<1>1. /\ stage' = [stage EXCEPT ![c] = [o \in Builds!Object |->
            IF o \notin os THEN "none"
            ELSE IF Builds!FromMemory(o) THEN "ready" ELSE "reading"]]
      /\ made' = [made EXCEPT ![c] = [o \in Builds!Object |->
            IF o \notin os THEN {}
            ELSE IF Builds!FromMemory(o) THEN remembered[o] ELSE builds[o[1]]]]
      /\ excused' = [excused EXCEPT ![c] = @ \cup
            {o \in os : Builds!FromMemory(o) /\ (o \in unnoticed \/ Builds!Awaited(o))}]
  BY DEF Builds!Apply
<1>2. BuildTyped /\ MemoryInv
  BY DEF BuildInv
<1>3. /\ \A o \in Builds!Object :
            /\ stage'[c][o] = IF o \notin os THEN "none"
                              ELSE IF Builds!FromMemory(o) THEN "ready" ELSE "reading"
            /\ made'[c][o] = IF o \notin os THEN {}
                             ELSE IF Builds!FromMemory(o) THEN remembered[o] ELSE builds[o[1]]
      /\ excused'[c] = excused[c] \cup
            {o \in os : Builds!FromMemory(o) /\ (o \in unnoticed \/ Builds!Awaited(o))}
      /\ \A e \in Caller \ {c} :
            stage'[e] = stage[e] /\ made'[e] = made[e] /\ excused'[e] = excused[e]
  BY <1>1, <1>2 DEF BuildTyped
<1>4. \A o \in Builds!Object : builds[o[1]] \in SUBSET Path
  BY <1>2 DEF BuildTyped, Builds!Object
<1>5. stage' \in [Caller -> [Builds!Object -> {"none", "reading", "building", "ready"}]]
  BY <1>1, <1>2 DEF BuildTyped
<1>6. made' \in [Caller -> [Builds!Object -> SUBSET Path]]
  <2>1. [o \in Builds!Object |->
            IF o \notin os THEN {}
            ELSE IF Builds!FromMemory(o) THEN remembered[o] ELSE builds[o[1]]]
        \in [Builds!Object -> SUBSET Path]
    BY <1>2, <1>4 DEF BuildTyped
  <2> QED BY <1>1, <1>2, <2>1 DEF BuildTyped
<1>7. excused' \in [Caller -> SUBSET Builds!Object]
  BY <1>1, <1>2 DEF BuildTyped
<1>8. ASSUME NEW o \in Builds!Object PROVE MemoryKept(o)' /\ ReadKept(o)'
  <2>1. MemoryKept(o) /\ ReadKept(o)
    BY <1>2 DEF MemoryInv
  <2>2. Builds!Awaited(o)' <=> Builds!Awaited(o)
    BY <1>3 DEF Builds!Awaited
  <2>3. MemoryKept(o)'
    BY <2>1, <2>2 DEF MemoryKept
  <2>4. ReadKept(o)'
    BY <1>3, <2>1 DEF ReadKept
  <2> QED BY <2>3, <2>4
<1>9. ASSUME NEW o \in os \ excused'[c] PROVE made'[c][o] = builds[o[1]]
  <2>1. CASE Builds!FromMemory(o)
    <3>1. o \notin unnoticed /\ ~Builds!Awaited(o)
      BY <1>3, <1>9, <2>1
    <3> QED BY <1>2, <1>3, <2>1, <3>1 DEF MemoryInv, MemoryKept, Builds!FromMemory
  <2>2. CASE ~Builds!FromMemory(o)
    BY <1>3, <2>2
  <2> QED BY <2>1, <2>2
<1>10. \A o \in Builds!Object : stage'[c][o] # "none" <=> o \in os
  BY <1>3
<1>11. MemoryInv'
  BY <1>8 DEF MemoryInv
<1> HIDE DEF MemoryInv
<1> QED BY <1>3, <1>5, <1>6, <1>7, <1>9, <1>10, <1>11

\* retrieve begins with retrieveAll: every plugin there is is awaited.
LEMMA RetrieveUnmappedKeepsBuild ==
    ASSUME BuildInv, NEW c \in Caller, NEW q \in Path, Builds!RetrieveUnmapped(c, q)
    PROVE  BuildInv'
<1>1. /\ phase[c] = "idle"
      /\ asked' = [asked EXCEPT ![c] = q]
      /\ steady' = [steady EXCEPT ![c] = {p \in dirs : q \in builds[p]}]
      /\ plugins' = {o \in plugins : o[1] \in dirs} \cup Builds!NewPlugins(plugins)
      /\ Builds!Apply(c, plugins')
      /\ phase' = [phase EXCEPT ![c] = "retrieving"]
      /\ UNCHANGED <<dirs, builds, changes, scan, remembered, unnoticed, outpathMap, related,
                     answer>>
  BY DEF Builds!RetrieveUnmapped, Builds!Begins, Builds!FetchPlugins, Builds!disk, Builds!memory
<1>2. BuildTyped /\ BuildCall(c)
  BY DEF BuildInv
<1>3. plugins' \in SUBSET Builds!Object
  BY <1>1, <1>2 DEF BuildTyped, Builds!NewPlugins, Builds!Object
<1>4. ASSUME NEW p \in dirs PROVE \E o \in plugins' : o[1] = p
  <2>1. CASE p \in {o[1] : o \in plugins}
    BY <1>1, <2>1
  <2>2. CASE p \notin {o[1] : o \in plugins}
    <3>1. <<p, changes>> \in plugins'
      BY <1>1, <2>2 DEF Builds!NewPlugins
    <3> QED BY <3>1
  <2> QED BY <2>1, <2>2
<1>5. \A o \in Builds!Object : stage[c][o] = "none"
  BY <1>1, <1>2 DEF BuildCall, OnlyRelated
<1>6. /\ stage' \in [Caller -> [Builds!Object -> {"none", "reading", "building", "ready"}]]
      /\ made' \in [Caller -> [Builds!Object -> SUBSET Path]]
      /\ excused' \in [Caller -> SUBSET Builds!Object]
      /\ \A e \in Caller \ {c} :
            stage'[e] = stage[e] /\ made'[e] = made[e] /\ excused'[e] = excused[e]
      /\ \A o \in Builds!Object : stage'[c][o] # "none" <=> o \in plugins'
      /\ \A o \in plugins' \ excused'[c] : made'[c][o] = builds[o[1]]
      /\ MemoryInv'
  BY <1>1, <1>3, <1>5, ApplyMeans
<1>7. /\ phase'[c] = "retrieving" /\ asked'[c] = q
      /\ steady'[c] = {p \in dirs : q \in builds[p]}
      /\ \A e \in Caller \ {c} :
            phase'[e] = phase[e] /\ asked'[e] = asked[e] /\ steady'[e] = steady[e]
  BY <1>1, <1>2 DEF BuildTyped
<1>8. BuildTyped'
  BY <1>1, <1>2, <1>3, <1>6 DEF BuildTyped
<1>9. SteadyBuilds(c)' /\ OnlyRelated(c)' /\ LostToAnother(c)'
  BY <1>1, <1>2, <1>7 DEF BuildCall, SteadyBuilds, OnlyRelated, LostToAnother, BuildTyped
<1>10. SteadyMade(c)'
  BY <1>6, <1>7 DEF SteadyMade
<1>11. SteadyAwaited(c)'
  BY <1>3, <1>4, <1>6, <1>7 DEF SteadyAwaited
<1> QED BY <1>1, <1>6, <1>7, <1>8, <1>9, <1>10, <1>11, CallKeepsBuild DEF BuildCall

\* The object o that the map names is applied, in a call that goes on.
LEMMA RelatedKeepsBuild ==
    ASSUME BuildInv, NEW c \in Caller, NEW o \in Builds!Object, Builds!AppliesRelated(c, o),
           \A x \in Builds!Object : stage[c][x] = "none",
           DOMAIN asked' = Caller,
           asked'[c] \in Path,
           \A e \in Caller \ {c} : asked'[e] = asked[e] /\ steady'[e] = steady[e],
           steady' \in [Caller -> SUBSET PluginDir],
           \A p \in steady'[c] : asked'[c] \in builds[p],
           UNCHANGED <<dirs, builds, changes, plugins, outpathMap, scan, remembered, unnoticed>>
    PROVE  BuildInv'
<1>1. /\ related' = [related EXCEPT ![c] = o]
      /\ Builds!Apply(c, {o})
      /\ phase' = [phase EXCEPT ![c] = "applying"]
      /\ answer' = answer
  BY DEF Builds!AppliesRelated
<1>2. BuildTyped
  BY DEF BuildInv
<1>3. /\ stage' \in [Caller -> [Builds!Object -> {"none", "reading", "building", "ready"}]]
      /\ made' \in [Caller -> [Builds!Object -> SUBSET Path]]
      /\ excused' \in [Caller -> SUBSET Builds!Object]
      /\ \A e \in Caller \ {c} :
            stage'[e] = stage[e] /\ made'[e] = made[e] /\ excused'[e] = excused[e]
      /\ \A x \in Builds!Object : stage'[c][x] # "none" <=> x \in {o}
      /\ \A x \in {o} \ excused'[c] : made'[c][x] = builds[x[1]]
      /\ MemoryInv'
  <2>1. {o} \in SUBSET Builds!Object
    OBVIOUS
  <2> QED BY <1>1, <2>1, ApplyMeans
<1>4. BuildTyped'
  BY <1>1, <1>2, <1>3 DEF BuildTyped
<1>5. phase'[c] = "applying" /\ related'[c] = o
  BY <1>1, <1>2 DEF BuildTyped
<1>6. SteadyBuilds(c)' /\ SteadyMade(c)'
  BY <1>3, <1>5 DEF SteadyBuilds, SteadyMade
<1>7. SteadyAwaited(c)' /\ OnlyRelated(c)' /\ LostToAnother(c)'
  BY <1>3, <1>5 DEF SteadyAwaited, OnlyRelated, LostToAnother
<1>8. \A e \in Caller \ {c} : phase'[e] = phase[e] /\ related'[e] = related[e]
  BY <1>1, <1>2 DEF BuildTyped
<1> QED BY <1>1, <1>3, <1>4, <1>6, <1>7, <1>8, CallKeepsBuild DEF BuildCall

\* retrieve begins with the object that the map names.
LEMMA RetrieveMappedKeepsBuild ==
    ASSUME BuildInv, NEW c \in Caller, NEW q \in Path, Builds!RetrieveMapped(c, q)
    PROVE  BuildInv'
<1> DEFINE o == outpathMap[q]
<1>1. /\ phase[c] = "idle"
      /\ asked' = [asked EXCEPT ![c] = q]
      /\ steady' = [steady EXCEPT ![c] = {p \in dirs : q \in builds[p]}]
      /\ o # None
      /\ Builds!AppliesRelated(c, o)
      /\ UNCHANGED <<dirs, builds, changes, plugins, outpathMap, scan, remembered, unnoticed>>
  BY DEF Builds!RetrieveMapped, Builds!Begins, Builds!disk, Builds!memory, Builds!mapping
<1>2. BuildTyped /\ BuildCall(c)
  BY DEF BuildInv
<1>3. o \in Builds!Object
  BY <1>1, <1>2 DEF BuildTyped
<1>4. \A x \in Builds!Object : stage[c][x] = "none"
  BY <1>1, <1>2 DEF BuildCall, OnlyRelated
<1>5. /\ DOMAIN asked' = Caller /\ asked'[c] = q
      /\ steady' \in [Caller -> SUBSET PluginDir]
      /\ steady'[c] = {p \in dirs : q \in builds[p]}
      /\ \A e \in Caller \ {c} : asked'[e] = asked[e] /\ steady'[e] = steady[e]
  BY <1>1, <1>2 DEF BuildTyped
<1> HIDE DEF o
<1> QED BY <1>1, <1>3, <1>4, <1>5, RelatedKeepsBuild

\* An application has called its function: what it read is what is built, unless
\* a change came between, which was not noticed then.
LEMMA CalledKeepsBuild ==
    ASSUME BuildInv, NEW c \in Caller, NEW o \in Builds!Object,
           Builds!Called(c, o) \/ Builds!Built(c, o)
    PROVE  BuildInv'
<1>1. /\ stage[c][o] \in {"reading", "building"}
      /\ \/ stage' = [stage EXCEPT ![c][o] = "ready"]
            /\ remembered' = [remembered EXCEPT ![o] = made[c][o]]
         \/ stage' = [stage EXCEPT ![c][o] = "building"] /\ remembered' = remembered
      /\ \E s \in {"current", "outdated"} : scan' = scan \/ scan' = [scan EXCEPT ![o] = s]
      /\ UNCHANGED <<dirs, builds, changes, plugins, outpathMap, phase, asked, made, related,
                     answer, unnoticed, steady, excused>>
  BY DEF Builds!Called, Builds!Built, Builds!Stores, Builds!disk, Builds!mapping
<1>2. BuildTyped /\ MemoryInv /\ BuildCall(c)
  BY DEF BuildInv
<1>3. /\ \A x \in Builds!Object \ {o} : scan'[x] = scan[x] /\ remembered'[x] = remembered[x]
      /\ \A e \in Caller, x \in Builds!Object :
            e # c \/ x # o => stage'[e][x] = stage[e][x]
      /\ \/ stage'[c][o] = "ready" /\ remembered'[o] = made[c][o]
         \/ stage'[c][o] = "building"
  BY <1>1, <1>2 DEF BuildTyped
<1>4. BuildTyped'
  <2>1. stage' \in [Caller -> [Builds!Object -> {"none", "reading", "building", "ready"}]]
    <3>1. ASSUME NEW s \in {"ready", "building"}, stage' = [stage EXCEPT ![c][o] = s]
          PROVE  stage' \in [Caller -> [Builds!Object -> {"none", "reading", "building", "ready"}]]
      BY <1>2, <3>1 DEF BuildTyped
    <3> QED BY <1>1, <3>1
  <2>2. scan' \in [Builds!Object -> {"never", "outdated", "current"}]
    <3>1. ASSUME NEW s \in {"current", "outdated"}, scan' = [scan EXCEPT ![o] = s]
          PROVE  scan' \in [Builds!Object -> {"never", "outdated", "current"}]
      BY <1>2, <3>1 DEF BuildTyped
    <3> QED BY <1>1, <1>2, <3>1 DEF BuildTyped
  <2>3. remembered' \in [Builds!Object -> SUBSET Path]
    <3>1. made[c][o] \in SUBSET Path
      BY <1>2 DEF BuildTyped
    <3> QED BY <1>1, <1>2, <3>1 DEF BuildTyped
  <2> QED BY <1>1, <1>2, <2>1, <2>2, <2>3 DEF BuildTyped
<1>5. ASSUME NEW x \in Builds!Object PROVE MemoryKept(x)' /\ ReadKept(x)'
  <2>1. MemoryKept(x) /\ ReadKept(x)
    BY <1>2 DEF MemoryInv
  <2>2. ReadKept(x)'
    BY <1>1, <1>3, <2>1 DEF ReadKept
  <2>3. CASE x # o
    <3>1. Builds!Awaited(x)' <=> Builds!Awaited(x)
      BY <1>3, <2>3 DEF Builds!Awaited
    <3> QED BY <1>1, <1>3, <2>1, <2>2, <2>3, <3>1 DEF MemoryKept
  <2>4. CASE x = o
    <3>1. CASE stage'[c][o] = "building"
      BY <2>2, <2>4, <3>1 DEF MemoryKept, Builds!Awaited
    <3>2. CASE stage'[c][o] = "ready" /\ remembered'[o] = made[c][o]
      BY <1>1, <2>1, <2>2, <2>4, <3>2 DEF MemoryKept, ReadKept
    <3> QED BY <1>3, <3>1, <3>2
  <2> QED BY <2>3, <2>4
<1>6. SteadyBuilds(c)' /\ LostToAnother(c)'
  BY <1>1, <1>2 DEF BuildCall, SteadyBuilds, LostToAnother
<1>7. \A x \in Builds!Object : stage'[c][x] = "none" <=> stage[c][x] = "none"
  BY <1>1, <1>3
<1>8. SteadyMade(c)' /\ SteadyAwaited(c)' /\ OnlyRelated(c)'
  BY <1>1, <1>2, <1>7 DEF BuildCall, SteadyMade, SteadyAwaited, OnlyRelated
<1>9. \A e \in Caller \ {c} : stage'[e] = stage[e]
  BY <1>1, <1>2 DEF BuildTyped
<1> QED BY <1>1, <1>4, <1>5, <1>6, <1>8, <1>9, CallKeepsBuild DEF BuildCall, MemoryInv

\* The answer of an application is taken.
LEMMA TakesMeans ==
    ASSUME BuildInv, NEW c \in Caller, NEW o \in Builds!Object, Builds!Takes(c, o),
           UNCHANGED <<builds, scan, remembered, unnoticed>>
    PROVE  /\ stage' \in [Caller -> [Builds!Object -> {"none", "reading", "building", "ready"}]]
           /\ made' \in [Caller -> [Builds!Object -> SUBSET Path]]
           /\ stage[c][o] = "ready" /\ stage'[c][o] = "none"
           /\ \A x \in Builds!Object \ {o} :
                 stage'[c][x] = stage[c][x] /\ made'[c][x] = made[c][x]
           /\ \A e \in Caller \ {c} : stage'[e] = stage[e] /\ made'[e] = made[e]
           /\ MemoryInv'
<1>1. /\ stage[c][o] = "ready"
      /\ stage' = [stage EXCEPT ![c][o] = "none"]
      /\ made' = [made EXCEPT ![c][o] = {}]
  BY DEF Builds!Takes
<1>2. BuildTyped /\ MemoryInv
  BY DEF BuildInv
<1>3. /\ stage' \in [Caller -> [Builds!Object -> {"none", "reading", "building", "ready"}]]
      /\ made' \in [Caller -> [Builds!Object -> SUBSET Path]]
  BY <1>1, <1>2 DEF BuildTyped
<1>4. /\ stage'[c][o] = "none"
      /\ \A x \in Builds!Object \ {o} :
            stage'[c][x] = stage[c][x] /\ made'[c][x] = made[c][x]
      /\ \A e \in Caller \ {c} : stage'[e] = stage[e] /\ made'[e] = made[e]
  BY <1>1, <1>2 DEF BuildTyped
<1>5. ASSUME NEW x \in Builds!Object PROVE MemoryKept(x)' /\ ReadKept(x)'
  <2>1. MemoryKept(x) /\ ReadKept(x)
    BY <1>2 DEF MemoryInv
  <2>2. Builds!Awaited(x)' <=> Builds!Awaited(x)
    BY <1>1, <1>4 DEF Builds!Awaited
  <2>3. ReadKept(x)'
    BY <1>4, <2>1 DEF ReadKept
  <2> QED BY <2>1, <2>2, <2>3 DEF MemoryKept
<1>6. MemoryInv'
  BY <1>5 DEF MemoryInv
<1> QED BY <1>1, <1>3, <1>4, <1>6

\* An application of retrieveAll ends: it enters the path if its plugin is steady.
LEMMA AppliedKeepsBuild ==
    ASSUME BuildInv, NEW c \in Caller, NEW o \in Builds!Object, Builds!Applied(c, o)
    PROVE  BuildInv'
<1>1. /\ phase[c] = "retrieving" /\ Builds!Takes(c, o)
      /\ outpathMap' = [q \in Path |-> IF q \in made[c][o] THEN o ELSE outpathMap[q]]
      /\ UNCHANGED <<dirs, builds, changes, plugins, scan, remembered, unnoticed, phase, asked,
                     related, answer, steady, excused>>
  BY DEF Builds!Applied, Builds!disk, Builds!memory
<1>2. BuildTyped /\ BuildCall(c) /\ o # None
  BY BuildAssumption DEF BuildInv
<1>3. /\ stage' \in [Caller -> [Builds!Object -> {"none", "reading", "building", "ready"}]]
      /\ made' \in [Caller -> [Builds!Object -> SUBSET Path]]
      /\ stage[c][o] = "ready" /\ stage'[c][o] = "none"
      /\ \A x \in Builds!Object \ {o} :
            stage'[c][x] = stage[c][x] /\ made'[c][x] = made[c][x]
      /\ \A e \in Caller \ {c} : stage'[e] = stage[e] /\ made'[e] = made[e]
      /\ MemoryInv'
  BY <1>1, TakesMeans
<1>4. outpathMap' \in [Path -> Builds!Object \cup {None}]
  BY <1>1, <1>2 DEF BuildTyped
<1>5. BuildTyped'
  BY <1>1, <1>2, <1>3, <1>4 DEF BuildTyped
<1>6. \A q \in Path : outpathMap'[q] = None => outpathMap[q] = None /\ q \notin made[c][o]
  BY <1>1, <1>2
<1>7. SteadyBuilds(c)' /\ LostToAnother(c)' /\ OnlyRelated(c)'
  BY <1>1, <1>2 DEF BuildCall, SteadyBuilds, OnlyRelated, LostToAnother
<1>8. SteadyMade(c)'
  BY <1>1, <1>2, <1>3 DEF BuildCall, SteadyMade
<1>9. SteadyAwaited(c)'
  <2> SUFFICES ASSUME outpathMap'[asked[c]] = None, NEW p \in steady[c]
               PROVE  \E x \in Builds!Object :
                         x[1] = p /\ (x \in excused[c] \/ stage'[c][x] # "none")
    BY <1>1 DEF SteadyAwaited
  <2>1. asked[c] \in Path
    BY <1>1, <1>2 DEF BuildCall, SteadyBuilds
  <2>2. outpathMap[asked[c]] = None /\ asked[c] \notin made[c][o]
    BY <1>6, <2>1
  <2>3. PICK x \in Builds!Object : x[1] = p /\ (x \in excused[c] \/ stage[c][x] # "none")
    BY <1>1, <1>2, <2>2 DEF BuildCall, SteadyAwaited
  <2>4. o[1] = p => o \in excused[c]
    BY <1>2, <1>3, <2>2 DEF BuildCall, SteadyMade
  <2>5. x = o \/ stage'[c][x] = stage[c][x]
    BY <1>3
  <2> QED BY <2>3, <2>4, <2>5
<1> QED BY <1>1, <1>3, <1>5, <1>6, <1>7, <1>8, <1>9, CallKeepsBuild DEF BuildCall

\* retrieveAll has ended: if the map has the path no more than before, all that
\* built it are excused.
LEMMA RetrievedKeepsBuild ==
    ASSUME BuildInv, NEW c \in Caller, Builds!Retrieved(c)
    PROVE  BuildInv'
<1>1. /\ phase[c] = "retrieving"
      /\ \A o \in Builds!Object : stage[c][o] = "none"
      /\ UNCHANGED <<dirs, builds, changes, plugins, outpathMap, scan, remembered, unnoticed,
                     asked, steady>>
  BY DEF Builds!Retrieved, Builds!disk, Builds!memory, Builds!mapping
<1>2. BuildTyped /\ BuildCall(c)
  BY DEF BuildInv
<1>3. /\ asked[c] \in Path /\ DOMAIN asked = Caller
      /\ \A p \in steady[c] : asked[c] \in builds[p]
      /\ outpathMap[asked[c]] = None =>
            \A p \in steady[c] : \E o \in Builds!Object : o[1] = p /\ o \in excused[c]
  BY <1>1, <1>2 DEF BuildCall, SteadyBuilds, SteadyAwaited, BuildTyped
<1>4. CASE outpathMap[asked[c]] # None
  <2>1. outpathMap[asked[c]] \in Builds!Object /\ steady \in [Caller -> SUBSET PluginDir]
    BY <1>2, <1>3, <1>4 DEF BuildTyped
  <2>2. Builds!AppliesRelated(c, outpathMap[asked[c]])
    BY <1>4 DEF Builds!Retrieved
  <2> QED BY <1>1, <1>3, <2>1, <2>2, RelatedKeepsBuild
<1>5. CASE outpathMap[asked[c]] = None
  <2>1. /\ phase' = [phase EXCEPT ![c] = "answered"]
        /\ UNCHANGED <<stage, made, related, answer, excused>>
    BY <1>5 DEF Builds!Retrieved
  <2>2. BuildTyped'
    BY <1>1, <1>2, <2>1 DEF BuildTyped
  <2>3. phase'[c] = "answered" /\ \A e \in Caller \ {c} : phase'[e] = phase[e]
    BY <1>2, <2>1 DEF BuildTyped
  <2>4. MemoryInv'
    BY <1>1, <2>1 DEF BuildInv, MemoryInv, MemoryKept, ReadKept, Builds!Awaited
  <2>5. SteadyBuilds(c)' /\ SteadyMade(c)' /\ SteadyAwaited(c)' /\ OnlyRelated(c)'
    BY <1>1, <1>2, <1>3, <2>1, <2>3
    DEF BuildCall, SteadyBuilds, SteadyMade, SteadyAwaited, OnlyRelated
  <2>6. LostToAnother(c)'
    <3>1. steady[c] \subseteq {o[1] : o \in excused[c]}
      BY <1>3, <1>5
    <3>2. related[c] = None
      BY <1>1, <1>2 DEF BuildCall, OnlyRelated
    <3> QED BY <1>1, <2>1, <2>3, <3>1, <3>2 DEF LostToAnother
  <2> QED BY <1>1, <2>1, <2>2, <2>3, <2>4, <2>5, <2>6, CallKeepsBuild DEF BuildCall
<1> QED BY <1>4, <1>5

\* The application of the related plugin ends: without the file only if the plugin
\* was not steady, or is excused.
LEMMA AnsweredKeepsBuild ==
    ASSUME BuildInv, NEW c \in Caller, Builds!Answered(c)
    PROVE  BuildInv'
<1> DEFINE o == related[c]
<1>1. /\ phase[c] = "applying" /\ Builds!Takes(c, o)
      /\ answer' = [answer EXCEPT ![c] = IF asked[c] \in made[c][o] THEN o ELSE None]
      /\ phase' = [phase EXCEPT ![c] = "answered"]
      /\ UNCHANGED <<dirs, builds, changes, plugins, outpathMap, scan, remembered, unnoticed,
                     asked, related, steady, excused>>
  BY DEF Builds!Answered, Builds!disk, Builds!memory, Builds!mapping
<1>2. BuildTyped /\ BuildCall(c)
  BY DEF BuildInv
<1>3. /\ o \in Builds!Object /\ o # None /\ asked[c] \in Path
      /\ \A x \in Builds!Object \ {o} : stage[c][x] = "none"
  BY <1>1, <1>2, BuildAssumption DEF BuildCall, OnlyRelated, SteadyBuilds
<1>4. related'[c] = o
  BY <1>1
<1> HIDE DEF o
<1>5. /\ stage' \in [Caller -> [Builds!Object -> {"none", "reading", "building", "ready"}]]
      /\ made' \in [Caller -> [Builds!Object -> SUBSET Path]]
      /\ stage[c][o] = "ready" /\ stage'[c][o] = "none"
      /\ \A x \in Builds!Object \ {o} :
            stage'[c][x] = stage[c][x] /\ made'[c][x] = made[c][x]
      /\ \A e \in Caller \ {c} : stage'[e] = stage[e] /\ made'[e] = made[e]
      /\ MemoryInv'
  BY <1>1, <1>3, TakesMeans
<1>6. BuildTyped'
  BY <1>1, <1>2, <1>3, <1>5 DEF BuildTyped
<1>7. /\ phase'[c] = "answered"
      /\ answer'[c] = IF asked[c] \in made[c][o] THEN o ELSE None
      /\ \A e \in Caller \ {c} : phase'[e] = phase[e] /\ answer'[e] = answer[e]
  BY <1>1, <1>2 DEF BuildTyped
<1>8. asked[c] \notin made[c][o] => o[1] \notin steady[c] \/ o \in excused[c]
  BY <1>2, <1>3, <1>5 DEF BuildCall, SteadyMade
<1>9. \A x \in Builds!Object : stage'[c][x] = "none"
  BY <1>3, <1>5
<1>10. SteadyBuilds(c)' /\ SteadyMade(c)' /\ SteadyAwaited(c)' /\ OnlyRelated(c)'
  BY <1>1, <1>2, <1>7, <1>9 DEF BuildCall, SteadyBuilds, SteadyMade, SteadyAwaited, OnlyRelated
<1>11. LostToAnother(c)'
  BY <1>1, <1>3, <1>4, <1>7, <1>8 DEF LostToAnother
<1> QED BY <1>1, <1>5, <1>6, <1>7, <1>10, <1>11, CallKeepsBuild DEF BuildCall

\* The call is over.
LEMMA LeavesKeepsBuild ==
    ASSUME BuildInv, NEW c \in Caller, Builds!Leaves(c)
    PROVE  BuildInv'
<1>1. /\ phase[c] = "answered"
      /\ phase' = [phase EXCEPT ![c] = "idle"]
      /\ related' = [related EXCEPT ![c] = None]
      /\ answer' = [answer EXCEPT ![c] = None]
      /\ steady' = [steady EXCEPT ![c] = {}]
      /\ excused' = [excused EXCEPT ![c] = {}]
      /\ UNCHANGED <<dirs, builds, changes, plugins, outpathMap, scan, remembered, unnoticed,
                     asked, stage, made>>
  BY DEF Builds!Leaves, Builds!disk, Builds!memory, Builds!mapping
<1>2. BuildTyped /\ BuildCall(c)
  BY DEF BuildInv
<1>3. BuildTyped'
  BY <1>1, <1>2 DEF BuildTyped
<1>4. /\ phase'[c] = "idle" /\ related'[c] = None /\ steady'[c] = {}
      /\ \A e \in Caller \ {c} :
            /\ phase'[e] = phase[e] /\ related'[e] = related[e] /\ answer'[e] = answer[e]
            /\ steady'[e] = steady[e] /\ excused'[e] = excused[e]
  BY <1>1, <1>2 DEF BuildTyped
<1>5. MemoryInv'
  BY <1>1 DEF BuildInv, MemoryInv, MemoryKept, ReadKept, Builds!Awaited
<1>6. BuildCall(c)'
  BY <1>1, <1>2, <1>4
  DEF BuildCall, SteadyBuilds, SteadyMade, SteadyAwaited, OnlyRelated, LostToAnother
<1> QED BY <1>1, <1>3, <1>4, <1>5, <1>6, CallKeepsBuild

\* Every step of a build keeps its invariant.
LEMMA StepKeepsBuild == ASSUME BuildInv, Builds!Next PROVE BuildInv'
<1>1. BuildTyped
  BY DEF BuildInv
<1>2. ASSUME NEW p \in PluginDir, Builds!Rebuild(p) PROVE BuildInv'
  BY <1>1, <1>2, ChangesKeepBuild DEF Builds!Rebuild, BuildTyped
<1>3. ASSUME NEW p \in PluginDir, Builds!AddPlugin(p) PROVE BuildInv'
  <2>1. PICK paths \in SUBSET Path : builds' = [builds EXCEPT ![p] = paths]
    BY <1>3 DEF Builds!AddPlugin
  <2>2. /\ builds' \in [PluginDir -> SUBSET Path]
        /\ \A r \in PluginDir \ {p} : builds'[r] = builds[r]
    BY <1>1, <2>1 DEF BuildTyped
  <2>3. dirs' \subseteq PluginDir /\ Builds!Changes(p)
    BY <1>1, <1>3 DEF Builds!AddPlugin, BuildTyped
  <2> QED BY <2>2, <2>3, ChangesKeepBuild
<1>4. ASSUME NEW p \in PluginDir, Builds!RemovePlugin(p) PROVE BuildInv'
  BY <1>1, <1>4, ChangesKeepBuild DEF Builds!RemovePlugin, BuildTyped
<1>5. ASSUME NEW c \in Caller, NEW o \in Builds!Object, Builds!Fails(c, o) PROVE BuildInv'
  BY <1>5, QuietKeepsBuild
  DEF Builds!Fails, Builds!disk, Builds!memory, Builds!mapping, Builds!calls, buildVars
<1> QED
  BY <1>2, <1>3, <1>4, <1>5, RetrieveUnmappedKeepsBuild, RetrieveMappedKeepsBuild,
     CalledKeepsBuild, AppliedKeepsBuild, RetrievedKeepsBuild, AnsweredKeepsBuild,
     LeavesKeepsBuild
  DEF Builds!Next, Builds!Steps

\* A file that some plugin builds, unchanged, is found, unless the map names another
\* plugin or a memory that is not up to date answers (Build.ts:71-95, 111-119,
\* Plugin.ts:179-184, 194-207).
THEOREM BuildLostOnlyToAnother == PackageSpec => []LostOnlyToAnother
<1> DEFINE Inv == object = "build" => BuildInv
<1>1. PackageInit => Inv
  BY InitBuild DEF PackageInit
<1>2. Inv /\ [PackageNext]_packageVars => Inv'
  <2> SUFFICES ASSUME Inv, [PackageNext]_packageVars, object' = "build" PROVE BuildInv'
    OBVIOUS
  <2>1. object = "build" /\ BuildInv
    BY DEF PackageNext, packageVars
  <2>2. CASE PackageNext
    BY <2>1, <2>2, StepKeepsBuild DEF PackageNext
  <2>3. CASE UNCHANGED packageVars
    BY <2>1, <2>3, QuietKeepsBuild DEF packageVars, OfBuild, buildVars
  <2> QED BY <2>2, <2>3
<1>3. Inv => LostOnlyToAnother
  BY DEF LostOnlyToAnother, Builds!LostOnlyToAnother, BuildInv, BuildCall, LostToAnother
<1> QED BY <1>1, <1>2, <1>3, PTL DEF PackageSpec
=============================================================================
