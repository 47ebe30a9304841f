---------------------- MODULE VirtualFileSystemProofs -----------------------
(***************************************************************************)
(* The safety properties of VirtualFileSystem, for any number of clients,  *)
(* folders and edits.                                                      *)
(*                                                                         *)
(* The inductive invariant says of each request what the files were in its *)
(* course: what is missing now, and all that was passed over, has been     *)
(* gone since it began, but for the built files it was misled about; what  *)
(* the path it reads holds, or held since its retrieval, has been held.    *)
(***************************************************************************)
EXTENDS VirtualFileSystem, TLAPS

\* The path p may be passed over, for no file.
Passable(c, p) == <<"public", p>> \in gone[c] /\ (<<"built", p>> \in gone[c] \/ p \in misled[c])
Reading == {"read", "load", "retrieve"}
Kind == {"public", "built"}

\* The range of each variable; what plugins make can be read.
Typed ==
    /\ dev \in BOOLEAN
    /\ public \in [Path -> Nat \cup {Folder}]
    /\ edits \in Nat
    /\ built \in [Path -> Nat]
    /\ past \in [Path -> SUBSET Nat]
    /\ preretrieval \in BOOLEAN
    /\ privateFiles \in [Path -> Nat]
    /\ cache \in [Path -> Nat]
    /\ phase \in [Client -> Reading \cup {"idle", "answered"}]
    /\ path \in [Client -> Path]
    /\ fallback \in [Client -> BOOLEAN]
    /\ during \in [Client -> SUBSET Nat]
    /\ answer \in [Client -> [status : Nat, file : Nat]]
    /\ held \in [Client -> SUBSET Nat]
    /\ gone \in [Client -> SUBSET (Kind \X Path)]
    /\ misled \in [Client -> SUBSET Path]

\* What has been missing since the request of c began.
Passed(c) ==
    /\ Missing \subseteq gone[c]
    /\ \A p \in Path : p < path[c] => Passable(c, p)

\* What is known of the path that c reads.
Tracked(c) ==
    /\ phase[c] \in Reading => Holds(path[c]) \subseteq held[c]
    /\ phase[c] = "retrieve" =>
          /\ <<"public", path[c]>> \in gone[c]
          /\ \A v \in during[c] :
                IF v = Absent THEN <<"built", path[c]>> \in gone[c] ELSE v \in held[c]

\* What c is answered with is justified.
Justified(c) ==
    Answered(c) =>
        IF answer[c].file = Absent
        THEN Passable(c, path[c]) /\ (fallback[c] => path[c] = Depth)
        ELSE answer[c].file \in held[c] \/ path[c] \in misled[c]

\* In production nothing is asked of the build interface; between its requests a
\* client reads the page.
Unasked(c) == (~dev => during[c] = {}) /\ (phase[c] = "idle" => path[c] = 0)

FileSystemInv ==
    /\ Typed
    /\ dev => preretrieval
    /\ \A c \in Client : Unasked(c)
    /\ \A c \in Client : phase[c] # "idle" => Passed(c) /\ Tracked(c) /\ Justified(c)

-----------------------------------------------------------------------------

\* The type of what the files are found to be.
LEMMA FilesTyped ==
    ASSUME Typed, NEW p \in Path
    PROVE  /\ Missing \in SUBSET (Kind \X Path)
           /\ Holds(p) \in SUBSET Nat
  BY DEF Missing, Holds, Offered, Typed, Absent, Folder, Kind

\* What depends on the files alone stays while they do.
LEMMA FilesKept ==
    ASSUME UNCHANGED <<dev, public, built, preretrieval, privateFiles>>
    PROVE  Missing' = Missing /\ \A p : Holds(p)' = Holds(p)
  BY DEF Missing, Holds, Offered

\* Nothing has been asked for in the beginning.
LEMMA InitEstablishesInv == Init => FileSystemInv
<1> SUFFICES ASSUME Init PROVE FileSystemInv
  OBVIOUS
<1>1. 0 \in Path
  BY FileSystemAssumption DEF Path
<1>2. /\ public \in [Path -> Nat \cup {Folder}]
      /\ built \in [Path -> Nat]
  BY DEF Init, Absent
<1>3. past \in [Path -> SUBSET Nat]
  BY <1>2 DEF Init
<1>4. /\ phase \in [Client -> Reading \cup {"idle", "answered"}]
      /\ path \in [Client -> Path]
      /\ held \in [Client -> SUBSET Nat]
      /\ gone \in [Client -> SUBSET (Kind \X Path)]
      /\ misled \in [Client -> SUBSET Path]
      /\ during \in [Client -> SUBSET Nat]
  BY <1>1 DEF Init
<1>5. /\ answer \in [Client -> [status : Nat, file : Nat]]
      /\ fallback \in [Client -> BOOLEAN]
      /\ privateFiles \in [Path -> Nat]
      /\ cache \in [Path -> Nat]
  BY DEF Init, Absent
<1>6. dev \in BOOLEAN /\ preretrieval \in BOOLEAN /\ edits \in Nat
  BY DEF Init
<1>7. Typed
  BY <1>2, <1>3, <1>4, <1>5, <1>6 DEF Typed
<1> QED BY <1>7 DEF Init, FileSystemInv, Unasked

\* What is missing, and held, after a change of the files is added to what each
\* request has seen.
LEMMA ShowsKeepsInv ==
    ASSUME FileSystemInv, Shows,
           public' \in [Path -> Nat \cup {Folder}],
           built' \in [Path -> Nat],
           past' \in [Path -> SUBSET Nat],
           privateFiles' \in [Path -> Nat],
           preretrieval' \in BOOLEAN, edits' \in Nat,
           dev => preretrieval',
           during' \in [Client -> SUBSET Nat],
           \A c \in Client : phase[c] = "retrieve" =>
               \A v \in during'[c] : v \in during[c] \/ (preretrieval' /\ v = Offered'[path[c]]),
           ~dev => during' = during,
           UNCHANGED <<dev, cache, phase, path, fallback, answer>>
    PROVE  FileSystemInv'
<1>1. /\ held' = [c \in Client |-> held[c] \cup Holds(path[c])']
      /\ gone' = [c \in Client |-> gone[c] \cup Missing']
      /\ misled' = misled
  BY DEF Shows
<1>2. /\ \A v, p : (preretrieval' /\ v = Offered'[p] /\ v # Absent /\ v # Folder => v \in Holds(p)')
      /\ \A p \in Path : (preretrieval' /\ Offered'[p] = Absent => <<"built", p>> \in Missing')
  BY DEF Holds, Missing
<1>3. Typed'
  <2>1. /\ Missing' \in SUBSET (Kind \X Path)
        /\ \A p \in Path : Holds(p)' \in SUBSET Nat
    BY DEF Missing, Holds, Offered, Absent, Folder, Kind, FileSystemInv, Typed
  <2>2. held' \in [Client -> SUBSET Nat] /\ gone' \in [Client -> SUBSET (Kind \X Path)]
    BY <1>1, <2>1 DEF FileSystemInv, Typed
  <2> QED BY <1>1, <2>2 DEF FileSystemInv, Typed
<1>4. ASSUME NEW c \in Client, phase'[c] # "idle"
      PROVE  Passed(c)' /\ Tracked(c)' /\ Justified(c)'
  <2>1. /\ phase[c] # "idle" /\ path'[c] = path[c] /\ path[c] \in Path
        /\ gone'[c] = gone[c] \cup Missing'
        /\ held'[c] = held[c] \cup Holds(path[c])'
        /\ misled'[c] = misled[c]
    BY <1>1, <1>4 DEF FileSystemInv, Typed
  <2>2. Passed(c) /\ Tracked(c) /\ Justified(c)
    BY <2>1 DEF FileSystemInv
  <2>3. Passed(c)'
    BY <2>1, <2>2 DEF Passed, Passable
  <2>4. Tracked(c)'
    <3>1. ASSUME phase[c] = "retrieve", NEW v \in during'[c]
          PROVE  IF v = Absent THEN <<"built", path[c]>> \in gone'[c] ELSE v \in held'[c]
      <4>1. CASE v \in during[c]
        BY <2>1, <2>2, <3>1, <4>1 DEF Tracked
      <4>2. CASE preretrieval' /\ v = Offered'[path[c]]
        <5>1. v # Folder
          BY <2>1, <3>1 DEF Folder
        <5> QED BY <1>2, <2>1, <4>2, <5>1
      <4> QED BY <3>1, <4>1, <4>2
    <3> QED BY <2>1, <2>2, <3>1 DEF Tracked
  <2>5. Justified(c)'
    BY <2>1, <2>2 DEF Justified, Answered, Passable
  <2> QED BY <2>3, <2>4, <2>5
<1> QED BY <1>3, <1>4 DEF FileSystemInv, Unasked

\* An edit of a public file.
LEMMA EditPublicKeepsInv ==
    ASSUME FileSystemInv, NEW p \in Path, EditPublic(p) PROVE FileSystemInv'
<1>1. /\ Shows
      /\ \E v \in {Absent, edits + 1} : public' = [public EXCEPT ![p] = v]
      /\ edits' = edits + 1
      /\ UNCHANGED <<dev, built, past, preretrieval, privateFiles, cache, phase, path,
                     fallback, during, answer>>
  BY DEF EditPublic, Edits, startup, retrieval
<1>2. public' \in [Path -> Nat \cup {Folder}] /\ edits' \in Nat
  BY <1>1 DEF FileSystemInv, Typed, Absent
<1> QED BY <1>1, <1>2, ShowsKeepsInv DEF FileSystemInv, Typed

\* An edit of the files of a plugin.
LEMMA EditSourceKeepsInv ==
    ASSUME FileSystemInv, NEW p \in Path, EditSource(p) PROVE FileSystemInv'
<1>1. PICK v \in {Absent, edits + 1} :
         /\ built' = [built EXCEPT ![p] = v]
         /\ past' = [past EXCEPT ![p] = @ \cup {v}]
         /\ during' = [c \in Client |->
                IF c \in Retrieving /\ path[c] = p THEN during[c] \cup {v} ELSE during[c]]
  BY DEF EditSource
<1>2. /\ Shows
      /\ edits' = edits + 1
      /\ dev \/ ~preretrieval
      /\ UNCHANGED <<dev, public, preretrieval, privateFiles, cache, phase, path, fallback,
                     answer>>
  BY DEF EditSource, Edits, startup
<1>3. v \in Nat /\ edits' \in Nat
  BY <1>2 DEF FileSystemInv, Typed, Absent
<1>4. /\ built' \in [Path -> Nat]
      /\ past' \in [Path -> SUBSET Nat]
      /\ during' \in [Client -> SUBSET Nat]
  BY <1>1, <1>3 DEF FileSystemInv, Typed
<1>5. CASE dev
  <2>1. Offered' = built' /\ preretrieval'
    BY <1>2, <1>5 DEF Offered, FileSystemInv
  <2>2. \A c \in Client : \A w \in during'[c] :
           w \in during[c] \/ (path[c] = p /\ w = v)
    BY <1>1
  <2>3. built'[p] = v
    BY <1>1 DEF FileSystemInv, Typed
  <2> QED BY <1>2, <1>3, <1>4, <2>1, <2>2, <2>3, ShowsKeepsInv DEF FileSystemInv, Typed
<1>6. CASE ~dev
  <2>1. during' = during
    BY <1>1, <1>6 DEF Retrieving, FileSystemInv, Typed
  <2> QED BY <1>2, <1>3, <1>4, <1>6, <2>1, ShowsKeepsInv DEF FileSystemInv, Typed
<1> QED BY <1>5, <1>6

\* The retrieval of the start: what is offered from then on is added.
LEMMA PreretrievesKeepsInv ==
    ASSUME FileSystemInv, Preretrieves PROVE FileSystemInv'
<1>1. /\ ~preretrieval /\ ~dev
      /\ UNCHANGED <<dev, edits, public, built, past, cache, phase, path, fallback, during,
                     answer>>
  BY DEF Preretrieves, source, request, retrieval, FileSystemInv
<1>2. CASE preretrieval' = TRUE /\ Shows
  <2>1. UNION {past[p] : p \in Path} \subseteq Nat
    BY DEF FileSystemInv, Typed
  <2>2. privateFiles' \in [Path -> Nat]
    BY <2>1 DEF Preretrieves, startup, FileSystemInv, Typed
  <2> QED BY <1>1, <1>2, <2>2, ShowsKeepsInv DEF FileSystemInv, Typed
<1>3. CASE UNCHANGED <<preretrieval, privateFiles, held, gone, misled>>
  <2>1. Missing' = Missing /\ \A p : Holds(p)' = Holds(p)
    BY <1>1, <1>3, FilesKept
  <2>2. Typed' /\ (dev => preretrieval)'
    BY <1>1, <1>3 DEF FileSystemInv, Typed
  <2> QED BY <1>1, <1>3, <2>1, <2>2
          DEF FileSystemInv, Unasked, Passed, Tracked, Justified, Answered, Passable
<1> QED BY <1>2, <1>3 DEF Preretrieves, startup, ghosts

\* A step of one request is none of the others'.
LEMMA RequestStepKeepsInv ==
    ASSUME FileSystemInv, Typed', NEW c \in Client,
           UNCHANGED <<dev, public, built, preretrieval, privateFiles>>,
           \A e \in Client \ {c} :
               /\ phase'[e] = phase[e] /\ path'[e] = path[e] /\ fallback'[e] = fallback[e]
               /\ during'[e] = during[e] /\ answer'[e] = answer[e]
               /\ held'[e] = held[e] /\ gone'[e] = gone[e] /\ misled'[e] = misled[e],
           Unasked(c)',
           phase'[c] # "idle" => Passed(c)' /\ Tracked(c)' /\ Justified(c)'
    PROVE  FileSystemInv'
<1>1. Missing' = Missing /\ \A p : Holds(p)' = Holds(p)
  BY FilesKept
<1>2. ASSUME NEW e \in Client, phase'[e] # "idle"
      PROVE  Passed(e)' /\ Tracked(e)' /\ Justified(e)'
  <2>1. CASE e = c
    BY <1>2, <2>1
  <2>2. CASE e # c
    <3>1. Passed(e) /\ Tracked(e) /\ Justified(e)
      BY <1>2, <2>2 DEF FileSystemInv
    <3> QED BY <1>1, <2>2, <3>1 DEF Passed, Tracked, Justified, Answered, Passable
  <2> QED BY <2>1, <2>2
<1> QED BY <1>2 DEF FileSystemInv, Unasked

\* A read is resolved: with a file that the path has held, or with none, when it
\* had none of each kind, or the retrieval of it was misled.
LEMMA FoundKeepsInv ==
    ASSUME FileSystemInv, NEW c \in Client, phase[c] \in Reading,
           NEW file \in Nat, Found(c, file),
           misled' \in [Client -> SUBSET Path],
           misled[c] \subseteq misled'[c],
           \A e \in Client \ {c} : misled'[e] = misled[e],
           during' \in [Client -> SUBSET Nat],
           \A e \in Client \ {c} : during'[e] = during[e],
           ~dev => during'[c] = {},
           file = Absent =>
               /\ <<"public", path[c]>> \in gone[c]
               /\ <<"built", path[c]>> \in gone[c] \/ path[c] \in misled'[c],
           file # Absent => file \in held[c] \/ path[c] \in misled'[c],
           cache' \in [Path -> Nat],
           UNCHANGED <<dev, edits, public, built, past, preretrieval, privateFiles, fallback,
                       gone>>
    PROVE  FileSystemInv'
<1> USE DEF Reading, Absent
<1>1. /\ Typed
      /\ path[c] \in Path
      /\ Passed(c) /\ Tracked(c)
  BY DEF FileSystemInv, Typed
<1>2. Missing' = Missing /\ \A p : Holds(p)' = Holds(p)
  BY FilesKept
<1>3. \A p \in Path : p < path[c] \/ (p = path[c] /\ file = Absent) => Passable(c, p)'
  BY <1>1 DEF Passed, Passable
<1>4. CASE file = Absent /\ fallback[c] /\ path[c] < Depth
  <2>1. /\ phase' = [phase EXCEPT ![c] = "read"]
        /\ path' = [path EXCEPT ![c] = @ + 1]
        /\ held' = [held EXCEPT ![c] = Holds(path'[c])]
        /\ UNCHANGED answer
    BY <1>4 DEF Found
  <2>2. path[c] + 1 \in Path
    BY <1>1, <1>4, FileSystemAssumption DEF Path
  <2>3. path'[c] = path[c] + 1 /\ phase'[c] = "read" /\ held'[c] = Holds(path'[c])
    BY <1>1, <2>1 DEF Typed
  <2>4. Typed'
    <3>1. Holds(path'[c]) \in SUBSET Nat
      BY <1>1, <2>2, <2>3, FilesTyped
    <3>2. held' \in [Client -> SUBSET Nat]
      BY <1>1, <2>1, <3>1 DEF Typed
    <3> QED BY <1>1, <2>1, <2>2, <3>2 DEF Typed
  <2>5. Passed(c)'
    <3>1. \A p \in Path : p < path[c] + 1 => p < path[c] \/ p = path[c]
      BY <1>1, FileSystemAssumption DEF Path
    <3> QED BY <1>1, <1>2, <1>3, <1>4, <2>3, <3>1 DEF Passed, Passable
  <2>6. Tracked(c)'
    BY <1>2, <2>3 DEF Tracked
  <2>7. Justified(c)'
    BY <2>3 DEF Justified, Answered
  <2>8. \A e \in Client \ {c} :
           /\ phase'[e] = phase[e] /\ path'[e] = path[e] /\ held'[e] = held[e]
           /\ answer'[e] = answer[e]
    BY <1>1, <2>1 DEF Typed
  <2>9. Unasked(c)'
    BY <2>3 DEF Unasked
  <2> QED BY <2>4, <2>5, <2>6, <2>7, <2>8, <2>9, RequestStepKeepsInv
<1>5. CASE ~(file = Absent /\ fallback[c] /\ path[c] < Depth)
  <2>1. PICK status \in Nat :
           /\ phase' = [phase EXCEPT ![c] = "answered"]
           /\ answer' = [answer EXCEPT ![c] = [status |-> status, file |-> file]]
           /\ UNCHANGED <<path, held>>
    <3>1. Respond(c, file)
      BY <1>5 DEF Found
    <3>2. PICK noneMatch \in BOOLEAN :
             answer' = [answer EXCEPT ![c] =
                 [status |-> IF file # Absent /\ ~noneMatch THEN 304
                             ELSE IF file # Absent /\ path[c] = 0 THEN 200 ELSE 404,
                  file |-> file]]
      BY <3>1 DEF Respond
    <3> DEFINE status == IF file # Absent /\ ~noneMatch THEN 304
                         ELSE IF file # Absent /\ path[c] = 0 THEN 200 ELSE 404
    <3>3. status \in Nat
      OBVIOUS
    <3>4. answer' = [answer EXCEPT ![c] = [status |-> status, file |-> file]]
      BY <3>2
    <3> HIDE DEF status
    <3> QED BY <3>1, <3>3, <3>4 DEF Respond
  <2>2. Typed'
    BY <1>1, <2>1 DEF Typed
  <2>3. /\ phase'[c] = "answered"
        /\ answer'[c].file = file
        /\ path'[c] = path[c]
    BY <1>1, <2>1 DEF Typed
  <2>4. Passed(c)' /\ Tracked(c)'
    BY <1>1, <1>2, <1>3, <2>1, <2>3 DEF Passed, Tracked, Passable
  <2>5. Justified(c)'
    <3>1. fallback[c] /\ file = Absent => path[c] = Depth
      BY <1>1, <1>5, FileSystemAssumption DEF Path
    <3> QED BY <1>3, <2>1, <2>3, <3>1 DEF Justified, Answered, Passable
  <2>6. \A e \in Client \ {c} : phase'[e] = phase[e] /\ answer'[e] = answer[e]
    BY <1>1, <2>1 DEF Typed
  <2>7. Unasked(c)'
    BY <2>3 DEF Unasked
  <2> QED BY <2>1, <2>2, <2>4, <2>5, <2>6, <2>7, RequestStepKeepsInv
<1> QED BY <1>4, <1>5

\* Every step of a request keeps the invariant, and no other step disturbs it.
LEMMA AsksKeepsInv ==
    ASSUME FileSystemInv, NEW c \in Client, Asks(c) PROVE FileSystemInv'
<1>1. /\ phase[c] = "idle"
      /\ phase' = [phase EXCEPT ![c] = "read"]
      /\ held' = [held EXCEPT ![c] = Holds(0)]
      /\ gone' = [gone EXCEPT ![c] = Missing]
      /\ UNCHANGED <<dev, edits, public, built, past, preretrieval, privateFiles, cache, path,
                     during, answer, misled>>
  BY DEF Asks, source, startup, retrieval
<1>2. PICK html \in BOOLEAN : fallback' = [fallback EXCEPT ![c] = html]
  BY DEF Asks
<1>3. Typed /\ 0 \in Path /\ path[c] = 0
  BY <1>1, FileSystemAssumption DEF FileSystemInv, Unasked, Path
<1>4. Typed'
  <2>1. /\ Holds(0) \in SUBSET Nat
        /\ Missing \in SUBSET (Kind \X Path)
    BY <1>3, FilesTyped
  <2>2. /\ held' \in [Client -> SUBSET Nat]
        /\ gone' \in [Client -> SUBSET (Kind \X Path)]
        /\ fallback' \in [Client -> BOOLEAN]
    BY <1>1, <1>2, <1>3, <2>1 DEF Typed
  <2> QED BY <1>1, <1>3, <2>2 DEF Typed, Reading
<1>5. Missing' = Missing /\ \A p : Holds(p)' = Holds(p)
  BY <1>1, FilesKept
<1>6. /\ phase'[c] = "read" /\ path'[c] = 0
      /\ held'[c] = Holds(0)
      /\ gone'[c] = Missing
  BY <1>1, <1>3 DEF Typed
<1>7. Passed(c)' /\ Tracked(c)' /\ Justified(c)'
  BY <1>5, <1>6 DEF Passed, Tracked, Justified, Answered, Path, Reading
<1>8. \A e \in Client \ {c} :
         /\ phase'[e] = phase[e] /\ fallback'[e] = fallback[e]
         /\ held'[e] = held[e] /\ gone'[e] = gone[e]
  BY <1>1, <1>2, <1>3 DEF Typed
<1>9. Unasked(c)'
  BY <1>1, <1>6 DEF Unasked, FileSystemInv
<1> QED BY <1>1, <1>4, <1>7, <1>8, <1>9, RequestStepKeepsInv

\* Likewise the first look for a public file.  The cache is never asked, since it
\* has no timestamp.
LEMMA ReadsKeepsInv ==
    ASSUME FileSystemInv, NEW c \in Client, Reads(c) PROVE FileSystemInv'
<1>1. ~Has(path[c])
  BY DEF Has, keyStoreTimestamps
<1>2. /\ phase[c] = "read"
      /\ UNCHANGED <<dev, edits, public, built, past, preretrieval, privateFiles, cache, path,
                     held, answer, fallback, gone, misled>>
  BY <1>1 DEF Reads, source, startup
<1>3. /\ Typed /\ path[c] \in Path
      /\ Passed(c) /\ Tracked(c)
  BY <1>2 DEF FileSystemInv, Typed
<1>4. Missing' = Missing /\ \A p : Holds(p)' = Holds(p)
  BY <1>2, FilesKept
<1>5. Holds(path[c]) \subseteq held[c]
  BY <1>2, <1>3 DEF Tracked, Reading
<1>6. \/ phase' = [phase EXCEPT ![c] = "load"] /\ during' = during
      \/ /\ phase' = [phase EXCEPT ![c] = "retrieve"]
         /\ public[path[c]] = Absent
         /\ \/ dev /\ during' = [during EXCEPT ![c] = {built[path[c]]}]
            \/ ~dev /\ during' = during
  BY <1>1 DEF Reads, Retrieves, retrieval
<1>7. Typed'
  <2>1. phase' \in [Client -> Reading \cup {"idle", "answered"}]
    BY <1>3, <1>6 DEF Typed, Reading
  <2>2. {built[path[c]]} \in SUBSET Nat
    BY <1>3 DEF Typed
  <2>3. during' \in [Client -> SUBSET Nat]
    BY <1>3, <1>6, <2>2 DEF Typed
  <2> QED BY <1>2, <1>3, <2>1, <2>3 DEF Typed
<1>8. Passed(c)'
  BY <1>2, <1>3, <1>4 DEF Passed, Passable
<1>9. \A e \in Client \ {c} : phase'[e] = phase[e] /\ during'[e] = during[e]
  BY <1>3, <1>6 DEF Typed
<1>10. Tracked(c)' /\ phase'[c] \in {"load", "retrieve"}
  <2>1. CASE phase' = [phase EXCEPT ![c] = "load"]
    <3>1. phase'[c] = "load"
      BY <1>3, <2>1 DEF Typed
    <3> QED BY <1>2, <1>4, <1>5, <3>1 DEF Tracked
  <2>2. CASE /\ phase' = [phase EXCEPT ![c] = "retrieve"]
             /\ public[path[c]] = Absent
             /\ \/ dev /\ during' = [during EXCEPT ![c] = {built[path[c]]}]
                \/ ~dev /\ during' = during
    <3>1. phase'[c] = "retrieve" /\ <<"public", path[c]>> \in gone[c]
      BY <1>3, <2>2 DEF Typed, Passed, Missing
    <3>2. CASE dev
      <4>1. during'[c] = {built[path[c]]} /\ preretrieval
        BY <1>3, <2>2, <3>2 DEF Typed, FileSystemInv
      <4>2. IF built[path[c]] = Absent THEN <<"built", path[c]>> \in gone[c]
            ELSE built[path[c]] \in held[c]
        BY <1>3, <1>5, <3>2, <4>1 DEF Passed, Missing, Holds, Offered, Typed, Folder
      <4> QED BY <1>2, <1>4, <1>5, <3>1, <4>1, <4>2 DEF Tracked
    <3>3. CASE ~dev
      <4>1. during'[c] = {}
        BY <1>3, <2>2, <3>3 DEF FileSystemInv, Unasked
      <4> QED BY <1>2, <1>4, <1>5, <3>1, <4>1 DEF Tracked
    <3> QED BY <3>2, <3>3
  <2> QED BY <1>6, <2>1, <2>2
<1>11. Justified(c)'
  BY <1>10 DEF Justified, Answered
<1>12. Unasked(c)'
  BY <1>2, <1>6, <1>10 DEF Unasked, FileSystemInv
<1> QED BY <1>2, <1>7, <1>8, <1>9, <1>10, <1>11, <1>12, RequestStepKeepsInv

\* Likewise the end of the process, which no property is about.
LEMMA QuietKeepsInv ==
    ASSUME FileSystemInv,
           UNCHANGED <<dev, edits, public, built, past, preretrieval, privateFiles, cache, phase,
                       path, fallback, during, answer, held, gone, misled>>
    PROVE  FileSystemInv'
<1>1. Missing' = Missing /\ \A p : Holds(p)' = Holds(p)
  BY FilesKept
<1> QED BY <1>1
        DEF FileSystemInv, Typed, Unasked, Passed, Tracked, Justified, Answered, Passable

\* Likewise the load of a public file, which ends the process if it is gone.
LEMMA LoadsPublicKeepsInv ==
    ASSUME FileSystemInv, NEW c \in Client, LoadsPublic(c) PROVE FileSystemInv'
<1>1. /\ phase[c] = "load"
      /\ UNCHANGED <<dev, edits, public, built, past, preretrieval, privateFiles, fallback,
                     during, gone, misled>>
  BY DEF LoadsPublic, source, startup, retrieval
<1>2. /\ Typed /\ path[c] \in Path
      /\ Tracked(c)
  BY <1>1 DEF FileSystemInv, Typed
<1>3. CASE public[path[c]] \in {Absent, Folder}
  <2>1. UNCHANGED <<cache, phase, path, answer, held>>
    BY <1>3 DEF LoadsPublic
  <2> QED BY <1>1, <2>1, QuietKeepsInv
<1>4. CASE public[path[c]] \notin {Absent, Folder}
  <2> DEFINE v == public[path[c]]
  <2>1. Loads(c, v)
    BY <1>4 DEF LoadsPublic
  <2>2. v \in Nat /\ v # Absent
    BY <1>2, <1>4 DEF Typed
  <2>3. v \in held[c]
    BY <1>1, <1>2, <1>4 DEF Tracked, Holds, Reading
  <2> HIDE DEF v
  <2>4. cache' \in [Path -> Nat] /\ Found(c, v)
    BY <1>2, <2>1, <2>2 DEF Loads, Typed
  <2>5. during' \in [Client -> SUBSET Nat] /\ misled' \in [Client -> SUBSET Path]
    BY <1>1, <1>2 DEF Typed
  <2>6. ~dev => during'[c] = {}
    BY <1>1 DEF FileSystemInv, Unasked
  <2> QED BY <1>1, <2>2, <2>3, <2>4, <2>5, <2>6, FoundKeepsInv DEF Reading
<1> QED BY <1>3, <1>4

\* Likewise a file of those retrieved at the start.
LEMMA LoadsPrivateKeepsInv ==
    ASSUME FileSystemInv, NEW c \in Client, LoadsPrivate(c) PROVE FileSystemInv'
<1> DEFINE v == privateFiles[path[c]]
<1>1. /\ phase[c] = "retrieve" /\ preretrieval /\ ~dev
      /\ Loads(c, v)
      /\ UNCHANGED <<dev, edits, public, built, past, preretrieval, privateFiles, fallback,
                     during, gone, misled>>
  BY DEF LoadsPrivate, source, startup, retrieval
<1>2. /\ Typed /\ path[c] \in Path
      /\ Passed(c) /\ Tracked(c)
  BY <1>1 DEF FileSystemInv, Typed
<1>3. v \in Nat /\ v = Offered[path[c]]
  BY <1>1, <1>2 DEF Typed, Offered
<1>4. v = Absent => {<<"public", path[c]>>, <<"built", path[c]>>} \subseteq gone[c]
  BY <1>1, <1>2, <1>3 DEF Passed, Missing, Tracked
<1>5. v # Absent => v \in held[c]
  BY <1>1, <1>2, <1>3 DEF Tracked, Holds, Reading, Folder
<1> HIDE DEF v
<1>6. cache' \in [Path -> Nat] /\ Found(c, v)
  BY <1>1, <1>2, <1>3 DEF Loads, Typed
<1>7. /\ during' \in [Client -> SUBSET Nat]
      /\ misled' \in [Client -> SUBSET Path]
      /\ ~dev => during'[c] = {}
  BY <1>1, <1>2 DEF Typed, FileSystemInv, Unasked
<1> QED BY <1>1, <1>3, <1>4, <1>5, <1>6, <1>7, FoundKeepsInv DEF Reading

\* Likewise the answer of the build interface: what its plugins made since the
\* retrieval began, or what they remember, and then it is misled.
LEMMA LoadsBuiltKeepsInv ==
    ASSUME FileSystemInv, NEW c \in Client, LoadsBuilt(c) PROVE FileSystemInv'
<1>1. /\ phase[c] = "retrieve"
      /\ during' = [during EXCEPT ![c] = {}]
      /\ misled' = [misled EXCEPT ![c] = IF c \in doubtful THEN @ \cup {path[c]} ELSE @]
      /\ UNCHANGED <<dev, edits, public, built, past, preretrieval, privateFiles, fallback,
                     gone>>
  BY DEF LoadsBuilt, source, startup
<1>2. PICK v \in during[c] \cup (IF c \in doubtful THEN past[path[c]] \cup {Absent} ELSE {}) :
         Loads(c, v)
  BY DEF LoadsBuilt
<1>3. /\ Typed /\ path[c] \in Path
      /\ Passed(c) /\ Tracked(c)
  BY <1>1 DEF FileSystemInv, Typed
<1>4. v \in Nat
  BY <1>2, <1>3 DEF Typed, Absent
<1>5. cache' \in [Path -> Nat] /\ Found(c, v)
  BY <1>2, <1>3, <1>4 DEF Loads, Typed
<1>6. /\ during' \in [Client -> SUBSET Nat]
      /\ misled' \in [Client -> SUBSET Path]
      /\ misled[c] \subseteq misled'[c]
      /\ \A e \in Client \ {c} : misled'[e] = misled[e] /\ during'[e] = during[e]
      /\ c \in doubtful => path[c] \in misled'[c]
  BY <1>1, <1>3 DEF Typed
<1>7. <<"public", path[c]>> \in gone[c]
  BY <1>1, <1>3 DEF Tracked
<1>8. v \in during[c] \/ path[c] \in misled'[c]
  BY <1>2, <1>6
<1>9. /\ v = Absent => <<"built", path[c]>> \in gone[c] \/ path[c] \in misled'[c]
      /\ v # Absent => v \in held[c] \/ path[c] \in misled'[c]
  BY <1>1, <1>3, <1>7, <1>8 DEF Tracked
<1> QED BY <1>1, <1>4, <1>5, <1>6, <1>7, <1>9, FoundKeepsInv DEF Reading

\* Likewise the end of a request.
LEMMA LeavesKeepsInv ==
    ASSUME FileSystemInv, NEW c \in Client, Leaves(c) PROVE FileSystemInv'
<1>1. /\ phase' = [phase EXCEPT ![c] = "idle"]
      /\ path' = [path EXCEPT ![c] = 0]
      /\ fallback' = [fallback EXCEPT ![c] = FALSE]
      /\ answer' = [answer EXCEPT ![c] = [status |-> 0, file |-> Absent]]
      /\ held' = [held EXCEPT ![c] = {}]
      /\ gone' = [gone EXCEPT ![c] = {}]
      /\ misled' = [misled EXCEPT ![c] = {}]
      /\ UNCHANGED <<dev, edits, public, built, past, preretrieval, privateFiles, cache, during>>
  BY DEF Leaves, source, startup, retrieval
<1>2. Typed /\ 0 \in Path
  BY FileSystemAssumption DEF FileSystemInv, Path
<1>3. Typed'
  BY <1>1, <1>2 DEF Typed, Absent
<1>4. phase'[c] = "idle"
  BY <1>1, <1>2 DEF Typed
<1>5. \A e \in Client \ {c} :
         /\ phase'[e] = phase[e] /\ path'[e] = path[e] /\ fallback'[e] = fallback[e]
         /\ answer'[e] = answer[e] /\ held'[e] = held[e] /\ gone'[e] = gone[e]
         /\ misled'[e] = misled[e]
  BY <1>1, <1>2 DEF Typed
<1>6. Unasked(c)'
  BY <1>1, <1>2 DEF Unasked, FileSystemInv, Typed
<1> QED BY <1>1, <1>3, <1>4, <1>5, <1>6, RequestStepKeepsInv

\* Every step keeps the invariant.
LEMMA StepKeepsInv ==
    ASSUME FileSystemInv, [Next]_vars PROVE FileSystemInv'
<1>1. ASSUME NEW c \in Client, Asks(c) \/ Handles(c) \/ Leaves(c) PROVE FileSystemInv'
  <2>1. ASSUME RetrievalFails(c) PROVE FileSystemInv'
    BY <2>1, QuietKeepsInv DEF RetrievalFails, source, startup, request, retrieval, ghosts
  <2> QED BY <1>1, <2>1, AsksKeepsInv, ReadsKeepsInv, LoadsPublicKeepsInv,
             LoadsPrivateKeepsInv, LoadsBuiltKeepsInv, LeavesKeepsInv DEF Handles
<1>2. CASE UNCHANGED vars
  BY <1>2, QuietKeepsInv DEF vars, source, startup, request, retrieval, ghosts
<1> QED BY <1>1, <1>2, EditPublicKeepsInv, EditSourceKeepsInv, PreretrievesKeepsInv DEF Next

\* The inductive invariant holds throughout.
THEOREM FileSystemInvariant == Spec => []FileSystemInv
<1>1. Init => FileSystemInv
  BY InitEstablishesInv
<1>2. FileSystemInv /\ [Next]_vars => FileSystemInv'
  BY StepKeepsInv
<1> QED BY <1>1, <1>2, PTL DEF Spec

\* No file is served that was gone or replaced before the read of it began, unless
\* the build interface answered from memory (VirtualFileSystem.ts:69-107,
\* Cache.ts:13-29, Plugin.ts:190-208).
THEOREM FileSystemNothingStaleServed == Spec => []NothingStaleServed
<1>1. FileSystemInv => NothingStaleServed
  BY DEF FileSystemInv, NothingStaleServed, Justified, Answered
<1> QED BY <1>1, FileSystemInvariant, PTL

\* 404, and every 404 page passed over, is of a page that had neither file, each
\* at some moment of the request, with the same exception of built files; without
\* a body that is true of all 404 pages (GETHandlerContext.ts:113-132).
THEOREM FileSystemMissedOnlyIfGone == Spec => []MissedOnlyIfGone
<1>1. FileSystemInv => MissedOnlyIfGone
  <2> SUFFICES ASSUME FileSystemInv, NEW c \in Client, Answered(c),
                      NEW p \in 0 .. (IF fallback[c] /\ answer[c].file = Absent
                                      THEN Depth ELSE path[c]),
                      p < path[c] \/ answer[c].file = Absent
               PROVE  <<"public", p>> \in gone[c] /\ (<<"built", p>> \in gone[c] \/ p \in misled[c])
    BY DEF MissedOnlyIfGone
  <2>1. Passed(c) /\ Justified(c) /\ path[c] \in Path
    BY DEF FileSystemInv, Typed, Answered
  <2>2. p \in Path /\ (p < path[c] \/ p = path[c])
    BY <2>1, FileSystemAssumption DEF Path, Justified
  <2> QED BY <2>1, <2>2 DEF Passed, Justified, Passable
<1> QED BY <1>1, FileSystemInvariant, PTL

=============================================================================
