-------------------------- MODULE GameNightsProofs --------------------------
(***************************************************************************)
(* Theorems about MissionLibrary and GameNights for every set of files,    *)
(* missions, servers, waiting uploads and testers, and any number of       *)
(* requests that stop half-way.                                            *)
(***************************************************************************)
EXTENDS GameNights, FiniteSetTheorems, TLAPS

-----------------------------------------------------------------------------
(* The inductive invariant *)

Fields(l) == [types |-> l.types, missions |-> l.missions, iterations |-> l.iterations,
              results |-> l.results, folder |-> l.folder]

(* The mission of an iteration exists and its server has the file; no file *)
(* of a server was recorded twice.                                         *)
WellRecorded(l, i) ==
    /\ i.file \in Pbo
    /\ i.mission \in DOMAIN l.missions
    /\ i.file \in l.folder[l.missions[i.mission].server]

SameFile(l, i, j) ==
    i.file = j.file /\ l.missions[i.mission].server = l.missions[j.mission].server

SoundLibrary(l) ==
    /\ l = Fields(l)
    /\ \A m \in DOMAIN l.missions : l.missions[m].server \in Server
    /\ l.folder \in [Server -> SUBSET Pbo]
    /\ \A i \in l.iterations : WellRecorded(l, i)
    /\ \A i, j \in l.iterations : SameFile(l, i, j) => i = j

UploadType == upload \in [Upload -> Waiting \union {Nothing}]

(* A row of played_missions refers to an iteration of the library. *)
Row(iterations) == [session : Nat, mission : Mission, iteration : iterations, ran : Pbo]

NightInv ==
    /\ SoundLibrary(library)
    /\ UploadType
    /\ sessions \in Seq(BOOLEAN)
    /\ played \in Seq(Row(library.iterations))
    /\ \A k \in DOMAIN played : played[k].iteration.file = played[k].ran

-----------------------------------------------------------------------------
(* Libraries *)

(* What changes neither missions nor iterations, and takes no file away,   *)
(* keeps a library sound.                                                  *)
LEMMA FolderGrows ==
    ASSUME NEW l, NEW n, SoundLibrary(l), n = Fields(n),
           n.missions = l.missions, n.iterations = l.iterations,
           n.folder \in [Server -> SUBSET Pbo], \A s \in Server : l.folder[s] \subseteq n.folder[s]
    PROVE  SoundLibrary(n)
  BY DEF SoundLibrary, WellRecorded, SameFile

(* A table of a library is replaced, the others stay. *)
LEMMA FieldReplaced ==
    ASSUME NEW l, l = Fields(l)
    PROVE  /\ \A x : [l EXCEPT !.missions = x] =
                 [types |-> l.types, missions |-> x, iterations |-> l.iterations,
                  results |-> l.results, folder |-> l.folder]
           /\ \A x : [l EXCEPT !.iterations = x] =
                 [types |-> l.types, missions |-> l.missions, iterations |-> x,
                  results |-> l.results, folder |-> l.folder]
           /\ \A x : [l EXCEPT !.folder = x] =
                 [types |-> l.types, missions |-> l.missions, iterations |-> l.iterations,
                  results |-> l.results, folder |-> x]
<1> DEFINE t == l.types  ms == l.missions  is == l.iterations  rs == l.results  fs == l.folder
<1>1. l = [types |-> t, missions |-> ms, iterations |-> is, results |-> rs, folder |-> fs]
  BY DEF Fields
<1> HIDE DEF t, ms, is, rs, fs
<1> QED
  BY ONLY <1>1

LEMMA CopiedSound ==
    ASSUME NEW l, SoundLibrary(l), NEW s \in Server, NEW p \in Pbo
    PROVE  /\ SoundLibrary(CopiedTo(l, s, p))
           /\ CopiedTo(l, s, p).missions = l.missions
           /\ CopiedTo(l, s, p).iterations = l.iterations
           /\ p \in CopiedTo(l, s, p).folder[s]
<1> DEFINE n == CopiedTo(l, s, p)
<1>1. /\ n = [types |-> l.types, missions |-> l.missions, iterations |-> l.iterations,
              results |-> l.results, folder |-> [l.folder EXCEPT ![s] = @ \union {p}]]
  <2>1. l = Fields(l)
    BY DEF SoundLibrary
  <2> DEFINE fs == [l.folder EXCEPT ![s] = @ \union {p}]
  <2>2. n = [l EXCEPT !.folder = fs]
    BY DEF CopiedTo
  <2> HIDE DEF n, fs
  <2>3. n = [types |-> l.types, missions |-> l.missions, iterations |-> l.iterations,
             results |-> l.results, folder |-> fs]
    BY <2>1, <2>2, FieldReplaced
  <2> QED
    BY <2>3 DEF fs
<1>2. /\ n = Fields(n) /\ n.missions = l.missions /\ n.iterations = l.iterations
      /\ n.folder = [l.folder EXCEPT ![s] = @ \union {p}]
  BY <1>1 DEF Fields
<1>3. l.folder \in [Server -> SUBSET Pbo]
  BY DEF SoundLibrary
<1> HIDE DEF n
<1>4. n.folder \in [Server -> SUBSET Pbo] /\ p \in n.folder[s]
      /\ \A x \in Server : l.folder[x] \subseteq n.folder[x]
  BY <1>2, <1>3
<1>5. SoundLibrary(n)
  BY <1>2, <1>4, FolderGrows
<1> QED
  BY <1>2, <1>4, <1>5 DEF n

(* A mission that no server has is created for this one. *)
LEMMA MissionSound ==
    ASSUME NEW l, SoundLibrary(l), NEW m, m \notin DOMAIN l.missions, NEW s \in Server, NEW tag
    PROVE  /\ SoundLibrary(WithMission(l, m, s, tag))
           /\ WithMission(l, m, s, tag).folder = l.folder
           /\ WithMission(l, m, s, tag).iterations = l.iterations
           /\ m \in DOMAIN WithMission(l, m, s, tag).missions
           /\ WithMission(l, m, s, tag).missions[m].server = s
<1> DEFINE n == WithMission(l, m, s, tag)
           ms == [x \in DOMAIN l.missions \union {m} |->
                    IF x = m THEN [server |-> s, tag |-> tag] ELSE l.missions[x]]
<1>1. n = [types |-> l.types, missions |-> ms, iterations |-> l.iterations,
           results |-> l.results, folder |-> l.folder]
  <2>1. l = Fields(l)
    BY DEF SoundLibrary
  <2>2. n = [l EXCEPT !.missions = ms]
    BY Zenon DEF WithMission
  <2> HIDE DEF n, ms
  <2> QED
    BY <2>1, <2>2, FieldReplaced
<1>2. /\ n = Fields(n) /\ n.missions = ms /\ n.iterations = l.iterations /\ n.folder = l.folder
  BY <1>1 DEF Fields
<1>3. /\ DOMAIN ms = DOMAIN l.missions \union {m} /\ ms[m].server = s
      /\ \A x \in DOMAIN l.missions : ms[x] = l.missions[x]
  OBVIOUS
<1> HIDE DEF n, ms
<1>4. SoundLibrary(n)
  BY <1>2, <1>3 DEF SoundLibrary, WellRecorded, SameFile
<1> QED
  BY <1>2, <1>3, <1>4 DEF n

(* An iteration is recorded of a file that is there and was not recorded.  *)
LEMMA IterationSound ==
    ASSUME NEW l, SoundLibrary(l), NEW p \in Pbo, NEW m \in DOMAIN l.missions,
           p \in l.folder[l.missions[m].server],
           \A i \in l.iterations :
              ~(i.file = p /\ l.missions[i.mission].server = l.missions[m].server)
    PROVE  /\ SoundLibrary(AddIteration(l, m, p))
           /\ l.iterations \subseteq AddIteration(l, m, p).iterations
<1> DEFINE n == AddIteration(l, m, p)
           number == 1 + Max({0} \union {i.number : i \in IterationsOf(l, m)})
           new == [mission |-> m, file |-> p, number |-> number]
<1>1. n = [types |-> l.types, missions |-> l.missions, iterations |-> l.iterations \union {new},
           results |-> l.results, folder |-> l.folder]
  <2>1. n = [l EXCEPT !.iterations = l.iterations \union {new}]
    BY Zenon DEF AddIteration
  <2>2. l = Fields(l)
    BY DEF SoundLibrary
  <2> HIDE DEF n, new
  <2> QED
    BY <2>1, <2>2, FieldReplaced
<1>2. /\ n = Fields(n) /\ n.missions = l.missions /\ n.folder = l.folder
      /\ n.iterations = l.iterations \union {new}
  BY <1>1 DEF Fields
<1>3. new.mission = m /\ new.file = p
  OBVIOUS
<1> HIDE DEF n, new
<1>4. \A i \in n.iterations : WellRecorded(n, i)
  BY <1>2, <1>3 DEF SoundLibrary, WellRecorded, SameFile
<1>5. \A i, j \in n.iterations : SameFile(n, i, j) => i = j
  BY <1>2, <1>3 DEF SoundLibrary, SameFile
<1>6. SoundLibrary(n)
  BY <1>2, <1>4, <1>5 DEF SoundLibrary
<1> QED
  BY <1>2, <1>6 DEF n

(* Every stage of an upload is a sound library with all older iterations.  *)
LEMMA UploadStagesSound ==
    ASSUME SoundLibrary(library), NEW s \in Server, NEW p \in Pbo, NEW m, NEW tag,
           KnownIn(m, s) \/ m \notin DOMAIN library.missions
    PROVE  \A k \in 1..Len(UploadStages(m, s, p, tag)) :
              /\ SoundLibrary(UploadStages(m, s, p, tag)[k])
              /\ library.iterations \subseteq UploadStages(m, s, p, tag)[k].iterations
<1> DEFINE created == IF KnownIn(m, s) THEN library ELSE WithMission(library, m, s, tag)
           copied == CopiedTo(created, s, p)
           added == AddIteration(copied, m, p)
<1>1. /\ SoundLibrary(created)
      /\ created.iterations = library.iterations /\ created.folder = library.folder
      /\ m \in DOMAIN created.missions /\ created.missions[m].server = s
  <2>1. CASE KnownIn(m, s)
    BY <2>1 DEF KnownIn
  <2>2. CASE ~KnownIn(m, s)
    BY <2>2, MissionSound
  <2> QED
    BY <2>1, <2>2
<1> HIDE DEF created
<1>2. /\ SoundLibrary(copied)
      /\ copied.missions = created.missions /\ copied.iterations = library.iterations
      /\ p \in copied.folder[s]
  BY <1>1, CopiedSound
<1>3. ASSUME p \notin library.folder[s]
      PROVE  SoundLibrary(added) /\ library.iterations \subseteq added.iterations
  <2>1. \A i \in copied.iterations :
           ~(i.file = p /\ copied.missions[i.mission].server = copied.missions[m].server)
    BY <1>1, <1>2, <1>3 DEF SoundLibrary, WellRecorded
  <2> HIDE DEF copied
  <2> QED
    BY <1>1, <1>2, <2>1, IterationSound
<1>4. UploadStages(m, s, p, tag) = IF p \in library.folder[s] THEN <<library, created>>
                              ELSE <<library, created, copied, added>>
  BY DEF UploadStages, created
<1> HIDE DEF copied, added
<1>5. CASE p \in library.folder[s]
  <2>1. UploadStages(m, s, p, tag) = <<library, created>>
    BY <1>4, <1>5
  <2> QED
    BY <1>1, <2>1
<1>6. CASE p \notin library.folder[s]
  <2>1. UploadStages(m, s, p, tag) = <<library, created, copied, added>>
    BY <1>4, <1>6
  <2> QED
    BY <1>1, <1>2, <1>3, <1>6, <2>1
<1> QED
  BY <1>5, <1>6

(* A request is left at one of its stages. *)
LEMMA CommitStage ==
    ASSUME NEW stages, NEW n \in Nat \ {0}, Len(stages) = n, Commit(stages)
    PROVE  \E k \in 1..Len(stages) : library' = stages[k]
  BY DEF Commit

(* The tables of types and reviews may change as they like. *)
LEMMA OtherTablesSound ==
    ASSUME NEW l, SoundLibrary(l), NEW n, n = Fields(n),
           n.missions = l.missions, n.iterations = l.iterations, n.folder = l.folder
    PROVE  SoundLibrary(n)
  BY DEF SoundLibrary, WellRecorded, SameFile

-----------------------------------------------------------------------------
(* Steps of the library *)

(* What a step of the library does to the tables and to what waits. *)
LibraryFollows ==
    /\ SoundLibrary(library')
    /\ library.iterations \subseteq library'.iterations
    /\ UploadType'

LEMMA UploadEndFollows ==
    ASSUME SoundLibrary(library), UploadType, NEW j \in Upload, UploadEnd(j)
    PROVE  LibraryFollows
<1> DEFINE s == upload[j].server
           p == upload[j].pbo
           m == <<upload[j].name, MapInPath[p]>>
           tag == upload[j].tag
<1>1. s \in Server /\ p \in Pbo
  BY NothingAssumption DEF UploadEnd, UploadType, Waiting
<1>2. UploadType'
  BY DEF UploadEnd, Ended, UploadType
<1>3. \/ /\ KnownIn(m, s) \/ m \notin DOMAIN library.missions
         /\ Commit(UploadStages(m, s, p, tag))
      \/ UNCHANGED library
  BY DEF UploadEnd
<1> HIDE DEF s, p, m, tag
<1>4. CASE UNCHANGED library
  BY <1>2, <1>4 DEF LibraryFollows
<1>5. CASE /\ KnownIn(m, s) \/ m \notin DOMAIN library.missions
           /\ Commit(UploadStages(m, s, p, tag))
  <2>1. Len(UploadStages(m, s, p, tag)) \in Nat \ {0}
    BY DEF UploadStages
  <2>2. \E k \in 1..Len(UploadStages(m, s, p, tag)) : library' = UploadStages(m, s, p, tag)[k]
    BY <1>5, <2>1, CommitStage
  <2>3. \A k \in 1..Len(UploadStages(m, s, p, tag)) :
           /\ SoundLibrary(UploadStages(m, s, p, tag)[k])
           /\ library.iterations \subseteq UploadStages(m, s, p, tag)[k].iterations
    BY <1>1, <1>5, UploadStagesSound
  <2> QED
    BY <1>2, <2>2, <2>3 DEF LibraryFollows
<1> QED
  BY <1>3, <1>4, <1>5

LEMMA ReviewFollows ==
    ASSUME SoundLibrary(library), UploadType, NEW t, NEW i, NEW status, ReviewMission(t, i, status)
    PROVE  LibraryFollows
<1> DEFINE new == [library EXCEPT !.results = @ \union {Result(i, t, status)}]
<1>1. Commit(<<library, new>>)
  BY DEF ReviewMission
<1>2. library' = library \/ library' = new
  <2> HIDE DEF new
  <2>1. Len(<<library, new>>) = 2
    OBVIOUS
  <2> QED
    BY <1>1, <2>1, CommitStage
<1>3. /\ new = Fields(new) /\ new.missions = library.missions
      /\ new.iterations = library.iterations /\ new.folder = library.folder
  <2> DEFINE results == library.results \union {Result(i, t, status)}
  <2>1. new = [library EXCEPT !.results = results]
    OBVIOUS
  <2> HIDE DEF new, results
  <2> QED
    BY <2>1 DEF SoundLibrary, Fields
<1> HIDE DEF new
<1>4. SoundLibrary(new)
  BY <1>3, OtherTablesSound
<1>5. UploadType'
  BY DEF ReviewMission, UploadType
<1> QED
  BY <1>2, <1>3, <1>4, <1>5 DEF LibraryFollows

(* Requests that change only mission types or the verdicts of reviews. *)
LEMMA OtherTablesFollow ==
    ASSUME SoundLibrary(library), UploadType, library' = Fields(library'),
           library'.missions = library.missions, library'.iterations = library.iterations,
           library'.folder = library.folder, UNCHANGED upload
    PROVE  LibraryFollows
  BY OtherTablesSound DEF LibraryFollows, UploadType

LEMMA TypesFollow ==
    ASSUME SoundLibrary(library), UploadType, NEW tag,
           CreateMissionType(tag) \/ DeleteMissionType(tag)
    PROVE  LibraryFollows
<1>1. /\ library' = Fields(library') /\ library'.missions = library.missions
      /\ library'.iterations = library.iterations /\ library'.folder = library.folder
  BY DEF SoundLibrary, Fields, CreateMissionType, DeleteMissionType
<1> QED
  BY <1>1, OtherTablesFollow DEF CreateMissionType, DeleteMissionType

LEMMA ReplacedFollows ==
    ASSUME SoundLibrary(library), UploadType, NEW old, NEW new, Replaced(old, new)
    PROVE  LibraryFollows
<1>1. /\ library' = Fields(library') /\ library'.missions = library.missions
      /\ library'.iterations = library.iterations /\ library'.folder = library.folder
  BY DEF SoundLibrary, Fields, Replaced
<1> QED
  BY <1>1, OtherTablesFollow DEF Replaced

LEMMA CopyFollows ==
    ASSUME SoundLibrary(library), UploadType, NEW s \in Server, NEW p \in Pbo,
           CopyMissionToServer(s, p)
    PROVE  LibraryFollows
<1>1. library' = CopiedTo(library, s, p) /\ UNCHANGED upload
  BY DEF CopyMissionToServer
<1> QED
  BY <1>1, CopiedSound DEF LibraryFollows, UploadType

LEMMA LibraryStep ==
    ASSUME SoundLibrary(library), UploadType, LibraryNext
    PROVE  LibraryFollows
<1>1. CASE \E tag \in Tag : CreateMissionType(tag) \/ DeleteMissionType(tag)
  BY <1>1, TypesFollow
<1>2. CASE \E j \in Upload : UploadEnd(j)
  BY <1>2, UploadEndFollows
<1>3. CASE \E j \in Upload : UploadRefused(j)
  BY <1>3 DEF UploadRefused, Ended, UploadType, LibraryFollows
<1>4. CASE \E j \in Upload, w \in Waiting : UploadBegin(j, w)
  BY <1>4 DEF UploadBegin, UploadType, LibraryFollows
<1>5. CASE \E s \in Server, p \in Pbo : CopyMissionToServer(s, p)
  BY <1>5, CopyFollows
<1>6. CASE \E t \in Tester, status \in TestStatus :
              \/ \E i \in library.iterations : ReviewMission(t, i, status)
              \/ \E r \in library.results : ChangeReviewStatus(r, status)
  BY <1>6, ReviewFollows, ReplacedFollows DEF ChangeReviewStatus
<1>7. CASE \E t \in Tester, r \in library.results : CosignResult(t, r) \/ RemoveCosign(t, r)
  BY <1>7, ReplacedFollows DEF CosignResult, RemoveCosign
<1> QED
  BY <1>1, <1>2, <1>3, <1>4, <1>5, <1>6, <1>7 DEF LibraryNext

-----------------------------------------------------------------------------
(* Every step keeps the invariant *)

LEMMA NightInitInv == NightInit => NightInv
  BY DEF NightInit, Init, NightInv, SoundLibrary, Fields, UploadType

(* The rows refer to the iterations of a library that has more of them.    *)
LEMMA RowsStay ==
    ASSUME NightInv, LibraryFollows
    PROVE  played \in Seq(Row(library'.iterations))
<1>1. Row(library.iterations) \subseteq Row(library'.iterations)
  BY DEF LibraryFollows, Row
<1>2. played \in Seq(Row(library.iterations))
  BY DEF NightInv
<1> QED
  BY <1>1, <1>2

(* What was played stays what ran: iterations are never taken away. *)
LEMMA PlayedStays ==
    ASSUME NightInv, LibraryFollows, UNCHANGED played, sessions' \in Seq(BOOLEAN)
    PROVE  NightInv'
<1>1. (played \in Seq(Row(library.iterations)))'
  BY RowsStay DEF Row
<1> QED
  BY <1>1 DEF NightInv, LibraryFollows

(* What is found by the name of the file is of that file. *)
LEMMA FoundIsWhatRan ==
    ASSUME NEW p \in Pbo, NEW i \in Found(p)
    PROVE  i \in library.iterations /\ i.file = p
  BY DEF Found, IterationWithMissionAndName

LEMMA FinishMissionInv ==
    ASSUME NightInv, NEW s \in SessionId, NEW p \in Pbo, FinishMission(s, p)
    PROVE  NightInv'
<1>1. UNCHANGED <<library, upload, sessions>>
  BY DEF FinishMission
<1>2. LibraryFollows
  BY <1>1 DEF NightInv, LibraryFollows, UploadType
<1>3. CASE UNCHANGED played
  BY <1>1, <1>2, <1>3, PlayedStays DEF NightInv
<1>4. CASE \E i \in Found(p) : Recorded(s, p, i)
  <2>1. PICK i \in Found(p) : Recorded(s, p, i)
    BY <1>4
  <2>2. i \in library.iterations /\ i.file = p
    BY FoundIsWhatRan
  <2> DEFINE new == [session |-> s, mission |-> Reported[p], iteration |-> i, ran |-> p]
             rows == Row(library.iterations)
  <2>3. new \in rows
    BY <2>2, ReportedAssumption DEF Row, SessionId, NightInv
  <2>4. new.iteration.file = new.ran
    BY <2>2
  <2>5. played' = Append(played, new) /\ played \in Seq(rows)
    BY <2>1 DEF Recorded, NightInv
  <2> HIDE DEF new, rows
  <2>6. /\ played' \in Seq(rows)
        /\ \A k \in DOMAIN played' :
              (k \in DOMAIN played /\ played'[k] = played[k]) \/ played'[k] = new
    BY <2>3, <2>5
  <2>7. \A k \in DOMAIN played' : played'[k].iteration.file = played'[k].ran
    BY <2>4, <2>6 DEF NightInv
  <2>8. (played \in Seq(Row(library.iterations)))'
    BY <1>1, <2>6 DEF rows, Row
  <2> QED
    BY <1>1, <1>2, <2>7, <2>8 DEF NightInv, LibraryFollows
<1> QED
  BY <1>3, <1>4 DEF FinishMission

LEMMA NightInvStep == NightInv /\ [Next]_vars => NightInv'
<1> SUFFICES ASSUME NightInv, [Next]_vars
             PROVE  NightInv'
  OBVIOUS
<1>1. ASSUME UNCHANGED <<library, upload, played>>, sessions' \in Seq(BOOLEAN)
      PROVE  NightInv'
  BY <1>1, PlayedStays DEF NightInv, LibraryFollows, UploadType
<1>2. CASE LibraryNext /\ UNCHANGED nightVars
  BY <1>2, LibraryStep, PlayedStays DEF NightInv, nightVars
<1>3. CASE Register
  BY <1>1, <1>3 DEF Register, NightInv, libraryVars
<1>4. CASE \E s \in SessionId : Finish(s)
  BY <1>1, <1>4 DEF Finish, SessionId, NightInv, libraryVars
<1>5. CASE \E s \in SessionId, p \in Pbo : FinishMission(s, p)
  BY <1>5, FinishMissionInv
<1>6. CASE UNCHANGED vars
  BY <1>1, <1>6 DEF vars, nightVars, libraryVars, NightInv
<1> QED
  BY <1>2, <1>3, <1>4, <1>5, <1>6 DEF Next

-----------------------------------------------------------------------------
(* Theorems *)

(* The inductive invariant holds of every behaviour: each iteration is one *)
(* of a mission whose server has the file, and no file of a server was     *)
(* recorded twice, under whatever names files were saved.                  *)
THEOREM NightInvariant == Spec => []NightInv
  BY NightInitInv, NightInvStep, PTL DEF Spec

(* An iteration is recorded only when its file is on the server of its     *)
(* mission, wherever uploads overlap, fail or stop.                        *)
THEOREM RecordedIsOnServerCorrect == Spec => []RecordedIsOnServer
<1>1. NightInv => RecordedIsOnServer
  BY DEF NightInv, SoundLibrary, WellRecorded, RecordedIsOnServer, ServerOf
<1> QED
  BY <1>1, NightInvariant, PTL

(* A file of a server is recorded once, for one of its missions.           *)
THEOREM FileIdentifiesIterationCorrect == Spec => []FileIdentifiesIteration
<1>1. NightInv => FileIdentifiesIteration
  BY DEF NightInv, SoundLibrary, SameFile, FileIdentifiesIteration, ServerOf
<1> QED
  BY <1>1, NightInvariant, PTL

(* One step of the property below. *)
OwnVersionPlayed ==
    \A k \in DOMAIN played' \ DOMAIN played :
        LET row == played'[k]
            own == {i \in IterationsOf(library, row.mission) : i.file = row.ran}
        IN  /\ row.iteration \in library.iterations
            /\ row.iteration.file = row.ran
            /\ own # {} => row.iteration \in own

LEMMA FinishMissionPlays ==
    ASSUME NightInv, NEW s \in SessionId, NEW p \in Pbo, FinishMission(s, p)
    PROVE  OwnVersionPlayed
<1>1. CASE UNCHANGED played
  BY <1>1 DEF OwnVersionPlayed
<1>2. CASE \E i \in Found(p) : Found(p) = {i} /\ Recorded(s, p, i)
  <2>1. PICK i \in Found(p) : Found(p) = {i} /\ Recorded(s, p, i)
    BY <1>2
  <2> DEFINE new == [session |-> s, mission |-> Reported[p], iteration |-> i, ran |-> p]
             rows == Row(library.iterations)
  <2>2. i \in library.iterations /\ i.file = p
    BY FoundIsWhatRan
  <2>3. \A o \in IterationsOf(library, Reported[p]) : o.file = p => o = i
    <3>1. \A o \in library.iterations : o.file = p => o \in Found(p)
      BY <2>1 DEF Found, IterationWithMissionAndName
    <3> QED
      BY <2>1, <3>1 DEF IterationsOf
  <2>4. /\ new.iteration = i /\ new.ran = p /\ new.mission = Reported[p]
    OBVIOUS
  <2>5. played' = Append(played, new) /\ played \in Seq(rows)
    BY <2>1 DEF Recorded, NightInv
  <2> HIDE DEF new, rows
  <2>6. \A k \in DOMAIN played' \ DOMAIN played : played'[k] = new
    BY <2>5
  <2>7. {o \in IterationsOf(library, new.mission) : o.file = new.ran} \subseteq {i}
    BY <2>3, <2>4
  <2> QED
    BY <2>2, <2>4, <2>6, <2>7 DEF OwnVersionPlayed
<1> QED
  BY <1>1, <1>2 DEF FinishMission

(* What is recorded as played is a version of the file that ran, and that  *)
(* of the mission it is recorded for when the mission has one.             *)
THEOREM PlayedIsWhatRanCorrect == Spec => PlayedIsWhatRan
<1>1. ASSUME NightInv, [Next]_vars PROVE [OwnVersionPlayed]_vars
  <2>1. CASE UNCHANGED played
    BY <2>1 DEF OwnVersionPlayed
  <2>2. CASE \E s \in SessionId, p \in Pbo : FinishMission(s, p)
    BY <1>1, <2>2, FinishMissionPlays
  <2> QED
    BY <1>1, <2>1, <2>2 DEF Next, nightVars, vars, Register, Finish
<1>2. [][OwnVersionPlayed]_vars => PlayedIsWhatRan
  BY DEF OwnVersionPlayed, PlayedIsWhatRan
<1> QED
  BY <1>1, <1>2, NightInvariant, PTL DEF Spec

-----------------------------------------------------------------------------
(* Types of the tables.  Iterations are numbered up to as many as there    *)
(* are; a tester reviews an iteration once and never cosigns his review.   *)

TypedLibrary(l) ==
    /\ l.types \subseteq Tag
    /\ DOMAIN l.missions \subseteq Mission
    /\ \A m \in DOMAIN l.missions : l.missions[m] \in [server : Server, tag : l.types]
    /\ IsFiniteSet(l.iterations)
    /\ l.iterations \subseteq [mission : Mission, file : Pbo,
                               number : 1..Cardinality(l.iterations)]
    /\ IsFiniteSet(l.results)
    /\ l.results \subseteq [iteration : l.iterations, tester : Tester,
                            status : TestStatus, cosigns : SUBSET Tester]
    /\ \A r \in l.results : r.tester \notin r.cosigns
    /\ \A q, r \in l.results : q.iteration = r.iteration /\ q.tester = r.tester => q = r

(* Among numbers up to n there is a greatest. *)
LEMMA Greatest ==
    ASSUME NEW n \in Nat, NEW S \in SUBSET (0..n), S # {}
    PROVE  Max(S) \in S /\ \A y \in S : Max(S) >= y
<1> DEFINE R == {ss \in Nat \X Nat : ss[1] < ss[2]}
           U == {u \in Nat : \A y \in S : y <= u}
<1>1. IsWellFoundedOn(R, Nat)
  BY NatLessThanWellFounded, Zenon DEF OpToRel
<1>2. n \in U /\ U \subseteq Nat
  OBVIOUS
<1>3. \E u \in U : \A v \in U : ~(<<v, u>> \in R)
  <2> HIDE DEF U, R
  <2> QED
    BY <1>1, <1>2, WFMin, Zenon
<1>4. PICK u \in U : \A v \in U : ~(<<v, u>> \in R)
  BY <1>3
<1>5. \A v \in U : ~(v < u)
  BY <1>2, <1>4
<1>6. u \in S
  <2>1. SUFFICES ASSUME u \notin S PROVE FALSE
    OBVIOUS
  <2>2. \A y \in S : y \in Nat /\ y <= u /\ y # u
    BY <1>4, <2>1
  <2>3. u \in Nat /\ u > 0
    <3>1. PICK y \in S : TRUE
      OBVIOUS
    <3>2. y \in Nat /\ y <= u /\ y # u
      BY <2>2, <3>1
    <3>3. u \in Nat
      BY <1>4
    <3> QED
      BY <3>2, <3>3
  <2>4. u - 1 \in Nat /\ \A y \in S : y <= u - 1
    BY <2>2, <2>3
  <2>5. u - 1 \in U /\ u - 1 < u
    BY <2>3, <2>4
  <2> QED
    BY <1>5, <2>5
<1>7. \A y \in S : u >= y
  BY <1>4
<1> QED
  BY <1>6, <1>7 DEF Max

(* The tables that a request leaves alone. *)
LEMMA OtherFields ==
    ASSUME NEW l, l = Fields(l), NEW x
    PROVE  /\ LET n == [l EXCEPT !.folder = x]
              IN  /\ n.types = l.types /\ n.missions = l.missions
                  /\ n.iterations = l.iterations /\ n.results = l.results
           /\ LET n == [l EXCEPT !.missions = x]
              IN  /\ n.types = l.types /\ n.missions = x
                  /\ n.iterations = l.iterations /\ n.results = l.results
           /\ LET n == [l EXCEPT !.iterations = x]
              IN  /\ n.types = l.types /\ n.missions = l.missions
                  /\ n.iterations = x /\ n.results = l.results
           /\ LET n == [l EXCEPT !.results = x]
              IN  /\ n.types = l.types /\ n.missions = l.missions
                  /\ n.iterations = l.iterations /\ n.results = x
           /\ LET n == [l EXCEPT !.types = x]
              IN  /\ n.types = x /\ n.missions = l.missions
                  /\ n.iterations = l.iterations /\ n.results = l.results
<1> DEFINE t == l.types  ms == l.missions  is == l.iterations  rs == l.results  fs == l.folder
<1>1. l = [types |-> t, missions |-> ms, iterations |-> is, results |-> rs, folder |-> fs]
  BY DEF Fields
<1> HIDE DEF t, ms, is, rs, fs
<1>2. /\ l.types = t /\ l.missions = ms /\ l.iterations = is /\ l.results = rs
  BY ONLY <1>1
<1> QED
  BY ONLY <1>1, <1>2

LEMMA CopiedTyped ==
    ASSUME NEW l, l = Fields(l), TypedLibrary(l), NEW s, NEW p
    PROVE  TypedLibrary(CopiedTo(l, s, p))
<1> DEFINE n == CopiedTo(l, s, p)
           fs == [l.folder EXCEPT ![s] = @ \union {p}]
<1>1. n = [l EXCEPT !.folder = fs]
  BY DEF CopiedTo
<1> HIDE DEF n, fs
<1>2. /\ n.types = l.types /\ n.missions = l.missions
      /\ n.iterations = l.iterations /\ n.results = l.results
  BY <1>1, OtherFields
<1>3. TypedLibrary(n)
  BY <1>2 DEF TypedLibrary
<1> QED
  BY <1>3 DEF n

LEMMA MissionTyped ==
    ASSUME NEW l, l = Fields(l), TypedLibrary(l), NEW m \in Mission, NEW s \in Server,
           NEW tag \in l.types
    PROVE  TypedLibrary(WithMission(l, m, s, tag))
<1> DEFINE n == WithMission(l, m, s, tag)
           new == [server |-> s, tag |-> tag]
           ms == [x \in DOMAIN l.missions \union {m} |-> IF x = m THEN new ELSE l.missions[x]]
<1>1. n = [l EXCEPT !.missions = ms]
  BY Zenon DEF WithMission
<1>2. DOMAIN ms = DOMAIN l.missions \union {m}
  OBVIOUS
<1>3. \A x \in DOMAIN ms : ms[x] \in [server : Server, tag : l.types]
  <2>1. new \in [server : Server, tag : l.types]
    OBVIOUS
  <2> HIDE DEF new
  <2> QED
    BY <2>1 DEF TypedLibrary
<1> HIDE DEF n, ms
<1>4. /\ n.types = l.types /\ n.missions = ms
      /\ n.iterations = l.iterations /\ n.results = l.results
  BY <1>1, OtherFields
<1>5. TypedLibrary(n)
  BY <1>2, <1>3, <1>4 DEF TypedLibrary
<1> QED
  BY <1>5 DEF n

LEMMA IterationTyped ==
    ASSUME NEW l, l = Fields(l), TypedLibrary(l), NEW p \in Pbo, NEW m \in Mission,
           \A i \in l.iterations : ~(i.file = p /\ i.mission = m)
    PROVE  TypedLibrary(AddIteration(l, m, p))
<1> DEFINE n == AddIteration(l, m, p)
           k == Cardinality(l.iterations)
           numbers == {0} \union {i.number : i \in IterationsOf(l, m)}
           new == [mission |-> m, file |-> p, number |-> 1 + Max(numbers)]
           is == l.iterations \union {new}
<1>1. IsFiniteSet(l.iterations) /\ k \in Nat
  BY FS_CardinalityType DEF TypedLibrary
<1>2. \A i \in l.iterations : i.number \in 1..k
  BY DEF TypedLibrary
<1>3. numbers \in SUBSET (0..k) /\ numbers # {}
  BY <1>1, <1>2 DEF IterationsOf
<1>4. Max(numbers) \in 0..k
  <2> HIDE DEF numbers, k
  <2> QED
    BY <1>1, <1>3, Greatest
<1> HIDE DEF numbers
<1>5. new \notin l.iterations
  BY DEF new
<1>6. IsFiniteSet(is) /\ Cardinality(is) = k + 1
  <2> HIDE DEF new
  <2> QED
    BY <1>1, <1>5, FS_AddElement
<1>7. is \subseteq [mission : Mission, file : Pbo, number : 1..Cardinality(is)]
  <2>1. new \in [mission : Mission, file : Pbo, number : 1..(k + 1)]
    BY <1>1, <1>4
  <2>2. 1..k \subseteq 1..(k + 1)
    BY <1>1
  <2>3. l.iterations \subseteq [mission : Mission, file : Pbo, number : 1..(k + 1)]
    BY <2>2 DEF TypedLibrary
  <2> HIDE DEF new, k
  <2> QED
    BY <1>6, <2>1, <2>3
<1>8. n = [l EXCEPT !.iterations = is]
  BY Zenon DEF AddIteration, numbers
<1> HIDE DEF n, is
<1>9. /\ n.types = l.types /\ n.missions = l.missions
      /\ n.iterations = is /\ n.results = l.results
  BY <1>8, OtherFields
<1>10. l.iterations \subseteq is
  BY DEF is
<1>11. n.results \subseteq [iteration : n.iterations, tester : Tester,
                            status : TestStatus, cosigns : SUBSET Tester]
  BY <1>9, <1>10 DEF TypedLibrary
<1>12. TypedLibrary(n)
  BY <1>6, <1>7, <1>9, <1>11 DEF TypedLibrary
<1> QED
  BY <1>12 DEF n

(* Every stage of an upload keeps the types. *)
LEMMA UploadStagesTyped ==
    ASSUME SoundLibrary(library), TypedLibrary(library), NEW s \in Server, NEW p \in Pbo,
           NEW m \in Mission, NEW tag,
           KnownIn(m, s) \/ (m \notin DOMAIN library.missions /\ tag \in library.types)
    PROVE  \A k \in 1..Len(UploadStages(m, s, p, tag)) :
              TypedLibrary(UploadStages(m, s, p, tag)[k])
<1> DEFINE created == IF KnownIn(m, s) THEN library ELSE WithMission(library, m, s, tag)
           copied == CopiedTo(created, s, p)
           added == AddIteration(copied, m, p)
<1>2. /\ SoundLibrary(created) /\ created = Fields(created) /\ TypedLibrary(created)
      /\ created.iterations = library.iterations /\ created.folder = library.folder
  <2>1. CASE KnownIn(m, s)
    BY <2>1 DEF SoundLibrary
  <2>2. CASE ~KnownIn(m, s)
    <3> DEFINE n == WithMission(library, m, s, tag)
    <3>1. library = Fields(library) /\ m \notin DOMAIN library.missions /\ tag \in library.types
      BY <2>2 DEF SoundLibrary
    <3>2. /\ SoundLibrary(n) /\ n.iterations = library.iterations /\ n.folder = library.folder
      BY <3>1, MissionSound
    <3>3. TypedLibrary(n)
      BY <3>1, MissionTyped
    <3> HIDE DEF n
    <3>4. n = Fields(n)
      BY <3>2 DEF SoundLibrary
    <3>5. created = n
      BY <2>2 DEF n
    <3> HIDE DEF created
    <3> QED
      BY <3>2, <3>3, <3>4, <3>5
  <2> QED
    BY <2>1, <2>2
<1> HIDE DEF created
<1>3. /\ SoundLibrary(copied) /\ copied = Fields(copied) /\ TypedLibrary(copied)
      /\ copied.iterations = library.iterations
  <2>1. SoundLibrary(copied) /\ copied.iterations = library.iterations
    BY <1>2, CopiedSound
  <2>2. TypedLibrary(copied)
    BY <1>2, CopiedTyped
  <2> HIDE DEF copied
  <2> QED
    BY <2>1, <2>2 DEF SoundLibrary
<1>4. ASSUME p \notin library.folder[s] PROVE TypedLibrary(added)
  <2>1. \A i \in copied.iterations : ~(i.file = p /\ i.mission = m)
    <3>1. CASE KnownIn(m, s)
      <4>1. created = library /\ library.missions[m].server = s
        BY <3>1 DEF created, KnownIn
      <4> QED
        BY <1>3, <1>4, <4>1 DEF SoundLibrary, WellRecorded
    <3>2. CASE m \notin DOMAIN library.missions
      BY <1>2, <1>3, <3>2 DEF SoundLibrary, WellRecorded
    <3> QED
      BY <3>1, <3>2
  <2> HIDE DEF copied
  <2> QED
    BY <1>3, <2>1, IterationTyped
<1>5. UploadStages(m, s, p, tag) = IF p \in library.folder[s] THEN <<library, created>>
                              ELSE <<library, created, copied, added>>
  BY DEF UploadStages, created
<1> HIDE DEF copied, added
<1>6. CASE p \in library.folder[s]
  <2>1. UploadStages(m, s, p, tag) = <<library, created>>
    BY <1>5, <1>6
  <2> QED
    BY <1>2, <2>1
<1>7. CASE p \notin library.folder[s]
  <2>1. UploadStages(m, s, p, tag) = <<library, created, copied, added>>
    BY <1>5, <1>7
  <2> QED
    BY <1>2, <1>3, <1>4, <1>7, <2>1
<1> QED
  BY <1>6, <1>7

-----------------------------------------------------------------------------
(* Steps keep the types *)

LEMMA FaultsStep ==
    ASSUME faults \in 0..MaxFaults, faults' = faults \/ (faults < MaxFaults /\ faults' = faults + 1)
    PROVE  faults' \in 0..MaxFaults
  BY LimitsAssumption

LEMMA TypesTyped ==
    ASSUME SoundLibrary(library), TypedLibrary(library), NEW tag \in Tag,
           CreateMissionType(tag) \/ DeleteMissionType(tag)
    PROVE  TypedLibrary(library')
<1>1. library = Fields(library)
  BY DEF SoundLibrary
<1>2. PICK x : /\ library' = [library EXCEPT !.types = x]
               /\ x \subseteq Tag
               /\ \A m \in DOMAIN library.missions : library.missions[m].tag \in x
  <2>1. CASE CreateMissionType(tag)
    <3> DEFINE x == library.types \union {tag}
    <3>1. library' = [library EXCEPT !.types = x] /\ x \subseteq Tag
          /\ \A m \in DOMAIN library.missions : library.missions[m].tag \in x
      BY <2>1 DEF CreateMissionType, TypedLibrary
    <3> HIDE DEF x
    <3> QED
      BY <3>1
  <2>2. CASE DeleteMissionType(tag)
    <3> DEFINE x == library.types \ {tag}
    <3>1. library' = [library EXCEPT !.types = x] /\ x \subseteq Tag
          /\ \A m \in DOMAIN library.missions : library.missions[m].tag \in x
      BY <2>2 DEF DeleteMissionType, TypedLibrary
    <3> HIDE DEF x
    <3> QED
      BY <3>1
  <2> QED
    BY <2>1, <2>2
<1>3. /\ library'.types = x /\ library'.missions = library.missions
      /\ library'.iterations = library.iterations /\ library'.results = library.results
  BY <1>1, <1>2, OtherFields
<1>4. \A m \in DOMAIN library.missions : library.missions[m] \in [server : Server, tag : x]
  BY <1>2 DEF TypedLibrary
<1> QED
  BY <1>2, <1>3, <1>4 DEF TypedLibrary

LEMMA ResultsTyped ==
    ASSUME SoundLibrary(library), TypedLibrary(library), NEW x,
           library' = [library EXCEPT !.results = x],
           IsFiniteSet(x),
           x \subseteq [iteration : library.iterations, tester : Tester,
                        status : TestStatus, cosigns : SUBSET Tester],
           \A r \in x : r.tester \notin r.cosigns,
           \A q, r \in x : q.iteration = r.iteration /\ q.tester = r.tester => q = r
    PROVE  TypedLibrary(library')
<1>1. /\ library'.types = library.types /\ library'.missions = library.missions
      /\ library'.iterations = library.iterations /\ library'.results = x
  BY OtherFields DEF SoundLibrary
<1> QED
  BY <1>1 DEF TypedLibrary

LEMMA ReviewTyped ==
    ASSUME SoundLibrary(library), TypedLibrary(library), NEW t \in Tester,
           NEW i \in library.iterations, NEW status \in TestStatus, ReviewMission(t, i, status)
    PROVE  TypedLibrary(library')
<1> DEFINE new == Result(i, t, status)
           x == library.results \union {new}
           result == [iteration : library.iterations, tester : Tester,
                      status : TestStatus, cosigns : SUBSET Tester]
<1>1. Commit(<<library, [library EXCEPT !.results = x]>>)
  BY DEF ReviewMission
<1>2. library' = library \/ library' = [library EXCEPT !.results = x]
  <2> DEFINE l == [library EXCEPT !.results = x]
  <2> HIDE DEF x, l
  <2>1. Len(<<library, l>>) = 2 /\ Commit(<<library, l>>)
    BY <1>1 DEF l
  <2>2. library' = library \/ library' = l
    <3>1. \E k \in 1..Len(<<library, l>>) : library' = <<library, l>>[k]
      BY <2>1, CommitStage
    <3> QED
      BY <2>1, <3>1
  <2> QED
    BY <2>2 DEF l
<1>3. /\ new \in result /\ new.iteration = i /\ new.tester = t /\ new.tester \notin new.cosigns
  BY DEF Result
<1>4. \A r \in library.results : ~(r.iteration = i /\ r.tester = t)
  BY DEF ReviewMission
<1> HIDE DEF new
<1>5. IsFiniteSet(x)
  BY FS_AddElement DEF TypedLibrary
<1>6. x \subseteq result
  BY <1>3 DEF TypedLibrary
<1>7. \A r \in x : r.tester \notin r.cosigns
  BY <1>3 DEF TypedLibrary
<1>8. \A q, r \in x : q.iteration = r.iteration /\ q.tester = r.tester => q = r
  BY <1>3, <1>4 DEF TypedLibrary
<1> HIDE DEF x
<1> QED
  BY <1>2, <1>5, <1>6, <1>7, <1>8, ResultsTyped

LEMMA ReplacedTyped ==
    ASSUME SoundLibrary(library), TypedLibrary(library), NEW r \in library.results, NEW new,
           new \in [iteration : library.iterations, tester : Tester,
                    status : TestStatus, cosigns : SUBSET Tester],
           new.iteration = r.iteration, new.tester = r.tester, new.tester \notin new.cosigns,
           Replaced(r, new)
    PROVE  TypedLibrary(library')
<1> DEFINE x == (library.results \ {r}) \union {new}
<1>1. library' = [library EXCEPT !.results = x]
  BY DEF Replaced
<1>2. IsFiniteSet(x)
  <2>1. IsFiniteSet(library.results \ {r})
    BY FS_RemoveElement DEF TypedLibrary
  <2> QED
    BY <2>1, FS_AddElement
<1>3. x \subseteq [iteration : library.iterations, tester : Tester,
                   status : TestStatus, cosigns : SUBSET Tester]
  BY DEF TypedLibrary
<1>4. \A q \in x : q.tester \notin q.cosigns
  BY DEF TypedLibrary
<1>5. \A q, o \in x : q.iteration = o.iteration /\ q.tester = o.tester => q = o
  BY DEF TypedLibrary
<1> HIDE DEF x
<1> QED
  BY <1>1, <1>2, <1>3, <1>4, <1>5, ResultsTyped

LEMMA VerdictTyped ==
    ASSUME SoundLibrary(library), TypedLibrary(library), NEW r \in library.results,
           NEW t \in Tester, NEW status \in TestStatus,
           ChangeReviewStatus(r, status) \/ CosignResult(t, r) \/ RemoveCosign(t, r)
    PROVE  TypedLibrary(library')
<1> DEFINE result == [iteration : library.iterations, tester : Tester,
                      status : TestStatus, cosigns : SUBSET Tester]
<1>1. r \in result /\ r.tester \notin r.cosigns
  BY DEF TypedLibrary
<1>2. PICK new \in result : /\ new.iteration = r.iteration /\ new.tester = r.tester
                            /\ new.tester \notin new.cosigns
                            /\ Replaced(r, new)
  <2>1. CASE ChangeReviewStatus(r, status)
    <3> DEFINE new == [r EXCEPT !.status = status]
    <3>1. new \in result /\ new.iteration = r.iteration /\ new.tester = r.tester
          /\ new.tester \notin new.cosigns
      BY <1>1
    <3>2. Replaced(r, new)
      BY <2>1 DEF ChangeReviewStatus
    <3> HIDE DEF new, result
    <3> QED
      BY <3>1, <3>2
  <2>2. CASE CosignResult(t, r)
    <3> DEFINE new == [r EXCEPT !.cosigns = @ \union {t}]
    <3>1. new \in result /\ new.iteration = r.iteration /\ new.tester = r.tester
          /\ new.tester \notin new.cosigns
      BY <1>1, <2>2 DEF CosignResult
    <3>2. Replaced(r, new)
      BY <2>2 DEF CosignResult
    <3> HIDE DEF new, result
    <3> QED
      BY <3>1, <3>2
  <2>3. CASE RemoveCosign(t, r)
    <3> DEFINE new == [r EXCEPT !.cosigns = @ \ {t}]
    <3>1. new \in result /\ new.iteration = r.iteration /\ new.tester = r.tester
          /\ new.tester \notin new.cosigns
      BY <1>1
    <3>2. Replaced(r, new)
      BY <2>3 DEF RemoveCosign
    <3> HIDE DEF new, result
    <3> QED
      BY <3>1, <3>2
  <2> QED
    BY <2>1, <2>2, <2>3
<1> QED
  BY <1>2, ReplacedTyped

LEMMA UploadEndTyped ==
    ASSUME SoundLibrary(library), TypedLibrary(library), UploadType,
           NEW j \in Upload, UploadEnd(j)
    PROVE  TypedLibrary(library')
<1> DEFINE s == upload[j].server
           p == upload[j].pbo
           m == <<upload[j].name, MapInPath[p]>>
           tag == upload[j].tag
<1>1. s \in Server /\ p \in Pbo /\ m \in Mission
  BY NothingAssumption, FilesAssumption DEF UploadEnd, UploadType, Waiting, Mission
<1>2. \/ /\ KnownIn(m, s) \/ (m \notin DOMAIN library.missions /\ tag \in library.types)
         /\ Commit(UploadStages(m, s, p, tag))
      \/ UNCHANGED library
  BY DEF UploadEnd
<1> HIDE DEF s, p, m, tag
<1>3. CASE UNCHANGED library
  BY <1>3 DEF TypedLibrary
<1>4. CASE /\ KnownIn(m, s) \/ (m \notin DOMAIN library.missions /\ tag \in library.types)
           /\ Commit(UploadStages(m, s, p, tag))
  <2>1. Len(UploadStages(m, s, p, tag)) \in Nat \ {0}
    BY DEF UploadStages
  <2>2. \E k \in 1..Len(UploadStages(m, s, p, tag)) : library' = UploadStages(m, s, p, tag)[k]
    BY <1>4, <2>1, CommitStage
  <2>3. \A k \in 1..Len(UploadStages(m, s, p, tag)) :
           TypedLibrary(UploadStages(m, s, p, tag)[k])
    BY <1>1, <1>4, UploadStagesTyped
  <2> QED
    BY <2>2, <2>3
<1> QED
  BY <1>2, <1>3, <1>4

LEMMA LibraryTypedStep ==
    ASSUME SoundLibrary(library), TypedLibrary(library), UploadType, LibraryNext
    PROVE  TypedLibrary(library')
<1>1. CASE \E tag \in Tag : CreateMissionType(tag) \/ DeleteMissionType(tag)
  BY <1>1, TypesTyped
<1>2. CASE \E j \in Upload : UploadEnd(j)
  BY <1>2, UploadEndTyped
<1>3. CASE UNCHANGED library
  BY <1>3
<1>4. CASE \E s \in Server, p \in Pbo : CopyMissionToServer(s, p)
  BY <1>4, CopiedTyped DEF CopyMissionToServer, SoundLibrary
<1>5. CASE \E t \in Tester, status \in TestStatus, i \in library.iterations :
              ReviewMission(t, i, status)
  BY <1>5, ReviewTyped
<1>6. CASE \E t \in Tester, status \in TestStatus, r \in library.results :
              ChangeReviewStatus(r, status)
  BY <1>6, VerdictTyped
<1>7. CASE \E t \in Tester, r \in library.results : CosignResult(t, r) \/ RemoveCosign(t, r)
  BY <1>7, VerdictTyped DEF TestStatus
<1> QED
  BY <1>1, <1>2, <1>3, <1>4, <1>5, <1>6, <1>7 DEF LibraryNext, UploadRefused, UploadBegin

LEMMA LibraryFaults ==
    ASSUME faults \in 0..MaxFaults, LibraryNext
    PROVE  faults' \in 0..MaxFaults
<1>1. \/ faults' = faults
      \/ faults < MaxFaults /\ faults' = faults + 1
  BY DEF LibraryNext, CreateMissionType, DeleteMissionType, UploadEnd, UploadRefused, UploadBegin,
     CopyMissionToServer, ReviewMission, ChangeReviewStatus, CosignResult, RemoveCosign, Replaced,
     Commit
<1> QED
  BY <1>1, FaultsStep

(* What is told of refers to sessions and files; a row of played missions  *)
(* to a session.                                                           *)
Told == [session : Nat, ran : Pbo, iteration : library.iterations \union {Nothing}]

SessionsInv ==
    /\ \A k \in DOMAIN played : played[k].session \in SessionId
    /\ told \in Seq(Told)
    /\ \A k \in DOMAIN told : told[k].session \in SessionId

TypedInv ==
    /\ NightInv
    /\ TypedLibrary(library)
    /\ faults \in 0..MaxFaults
    /\ SessionsInv

LEMMA TypedInit == NightInit => TypedInv
<1> SUFFICES ASSUME NightInit PROVE TypedInv
  OBVIOUS
<1>1. /\ library.types = {} /\ DOMAIN library.missions = {} /\ library.iterations = {}
      /\ library.results = {}
  BY DEF NightInit, Init
<1>2. TypedLibrary(library)
  BY <1>1, FS_EmptySet DEF TypedLibrary
<1>3. SessionsInv /\ faults \in 0..MaxFaults
  BY LimitsAssumption DEF NightInit, Init, SessionsInv
<1> QED
  BY <1>2, <1>3, NightInitInv DEF TypedInv

LEMMA TypedStep ==
    ASSUME TypedInv, [Next]_vars
    PROVE  TypedInv'
<1>1. NightInv'
  BY NightInvStep DEF TypedInv
<1>2. CASE LibraryNext /\ UNCHANGED nightVars
  <2>1. TypedLibrary(library') /\ faults' \in 0..MaxFaults
    BY <1>2, LibraryTypedStep, LibraryFaults DEF TypedInv, NightInv
  <2>2. Told \subseteq Told'
    BY <1>2, LibraryStep DEF Told, LibraryFollows, TypedInv, NightInv
  <2>3. SessionsInv'
    <3>1. told \in Seq(Told) /\ told' = told
      BY <1>2 DEF TypedInv, SessionsInv, nightVars
    <3>2. told' \in Seq(Told')
      <4> DEFINE A == Told
                 B == Told'
      <4>1. told \in Seq(A) /\ A \subseteq B
        BY <2>2, <3>1
      <4> HIDE DEF A, B
      <4>2. told \in Seq(B)
        BY <4>1
      <4> QED
        BY <3>1, <4>2 DEF B
    <3> QED
      BY <1>2, <3>1, <3>2 DEF TypedInv, SessionsInv, nightVars, SessionId
  <2> QED
    BY <1>1, <2>1, <2>3 DEF TypedInv
<1>3. ASSUME UNCHANGED <<library, faults, played, told>>, DOMAIN sessions \subseteq DOMAIN sessions'
      PROVE  TypedInv'
  BY <1>1, <1>3 DEF TypedInv, SessionsInv, SessionId, Told
<1>4. CASE Register
  <2>1. sessions \in Seq(BOOLEAN) /\ sessions' = Append(sessions, FALSE)
    BY <1>4 DEF Register, TypedInv, NightInv
  <2>2. DOMAIN sessions \subseteq DOMAIN sessions'
    BY <2>1
  <2> QED
    BY <1>3, <1>4, <2>2 DEF Register, libraryVars
<1>5. CASE \E s \in SessionId : Finish(s)
  BY <1>3, <1>5 DEF Finish, libraryVars
<1>6. CASE UNCHANGED vars
  BY <1>3, <1>6 DEF vars, libraryVars, nightVars
<1>7. ASSUME NEW s \in SessionId, NEW p \in Pbo, FinishMission(s, p)
      PROVE  TypedInv'
  <2>1. UNCHANGED <<library, sessions>>
    BY <1>7 DEF FinishMission
  <2>2. faults' \in 0..MaxFaults
    BY <1>7, FaultsStep DEF FinishMission, FinishFails, TypedInv
  <2>3. SessionId = 1..Len(sessions) /\ s \in Nat /\ SessionId' = SessionId
    BY <2>1 DEF TypedInv, NightInv, SessionId
  <2>4. \A k \in DOMAIN played' : played'[k].session \in SessionId
    <3>1. CASE UNCHANGED played
      BY <3>1 DEF TypedInv, SessionsInv
    <3>2. CASE \E i \in Found(p) : Recorded(s, p, i)
      <4>1. PICK i \in Found(p) : Recorded(s, p, i)
        BY <3>2
      <4> DEFINE new == [session |-> s, mission |-> Reported[p], iteration |-> i, ran |-> p]
                 rows == Row(library.iterations)
      <4>2. new.session = s /\ played' = Append(played, new) /\ played \in Seq(rows)
            /\ \A k \in DOMAIN played : played[k].session \in SessionId
        BY <4>1 DEF Recorded, TypedInv, NightInv, SessionsInv
      <4> HIDE DEF new, rows
      <4>3. \A k \in DOMAIN played' :
               (k \in DOMAIN played /\ played'[k] = played[k]) \/ played'[k] = new
        BY <4>2
      <4> QED
        BY <4>2, <4>3
    <3> QED
      BY <1>7, <3>1, <3>2 DEF FinishMission
  <2>5. told' \in Seq(Told) /\ \A k \in DOMAIN told' : told'[k].session \in SessionId
    <3>1. CASE UNCHANGED told
      BY <3>1 DEF TypedInv, SessionsInv
    <3>2. CASE \E what \in library.iterations \union {Nothing} : Tell(s, p, what)
      <4>1. PICK what \in library.iterations \union {Nothing} : Tell(s, p, what)
        BY <3>2
      <4> DEFINE new == [session |-> s, ran |-> p, iteration |-> what]
                 T == Told
      <4>2. /\ new.session = s /\ new \in T /\ told' = Append(told, new) /\ told \in Seq(T)
            /\ \A k \in DOMAIN told : told[k].session \in SessionId
        BY <2>3, <4>1 DEF Tell, Told, TypedInv, SessionsInv
      <4> HIDE DEF new, T
      <4>3. told' \in Seq(T) /\ \A k \in DOMAIN told' :
               (k \in DOMAIN told /\ told'[k] = told[k]) \/ told'[k] = new
        BY <4>2
      <4> QED
        BY <4>2, <4>3 DEF T
    <3>3. \A i \in Found(p) : i \in library.iterations
      BY FoundIsWhatRan DEF TypedInv, NightInv
    <3> QED
      BY <1>7, <3>1, <3>2, <3>3 DEF FinishMission
  <2>6. Told' = Told
    BY <2>1 DEF Told
  <2>7. SessionsInv'
    BY <2>3, <2>4, <2>5, <2>6 DEF SessionsInv
  <2> QED
    BY <1>1, <2>1, <2>2, <2>7 DEF TypedInv
<1> QED
  BY <1>2, <1>4, <1>5, <1>6, <1>7 DEF Next

(* In every reachable database iterations, missions, results and played    *)
(* missions refer to rows that exist, no iteration has a greater number    *)
(* than there are iterations, and a tester has one result for an iteration *)
(* and has not cosigned it, whatever requests overlap or fail half-way.    *)
THEOREM TypedInvariant == Spec => []TypedInv
  BY TypedInit, TypedStep, PTL DEF Spec

(* There are no more iterations than files on servers. *)
LEMMA IterationsBounded ==
    ASSUME NEW l, SoundLibrary(l), TypedLibrary(l)
    PROVE  /\ Cardinality(l.iterations) <= Cardinality(Server) * Cardinality(Pbo)
           /\ Cardinality(l.iterations) \in Nat
           /\ Cardinality(Server) * Cardinality(Pbo) \in Nat
<1> DEFINE f == [i \in l.iterations |-> <<l.missions[i.mission].server, i.file>>]
           Copies == Server \X Pbo
<1>1. f \in Injection(l.iterations, Copies)
  <2>1. \A i \in l.iterations : f[i] \in Copies
    BY DEF SoundLibrary, WellRecorded
  <2>2. \A i, j \in l.iterations : f[i] = f[j] => i = j
    BY DEF SoundLibrary, SameFile
  <2> HIDE DEF Copies
  <2> QED
    BY <2>1, <2>2 DEF Injection, IsInjective
<1>2. /\ IsFiniteSet(Copies) /\ Cardinality(Copies) = Cardinality(Server) * Cardinality(Pbo)
      /\ Cardinality(Copies) \in Nat
  BY FiniteAssumption, FS_Product, FS_CardinalityType
<1> HIDE DEF f, Copies
<1>3. Cardinality(l.iterations) <= Cardinality(Copies) /\ Cardinality(l.iterations) \in Nat
  BY <1>1, <1>2, FS_Injection, FS_CardinalityType
<1> QED
  BY <1>2, <1>3

(* The tables have their columns and their references, the waiting uploads *)
(* and the sessions of play their values.                                  *)
THEOREM TypeCorrect == Spec => []TypeOK
<1>1. ASSUME TypedInv PROVE TypeOK
  <2>1. SoundLibrary(library) /\ TypedLibrary(library) /\ UploadType
    BY <1>1 DEF TypedInv, NightInv
  <2>2. library.iterations \subseteq Iteration
    <3> DEFINE c == Cardinality(library.iterations)
               d == Cardinality(Server) * Cardinality(Pbo)
    <3>1. c \in Nat /\ d \in Nat /\ c <= d
      BY <2>1, IterationsBounded
    <3>2. library.iterations \subseteq [mission : Mission, file : Pbo, number : 1..c]
      BY <2>1 DEF TypedLibrary
    <3> HIDE DEF c, d
    <3>3. 1..c \subseteq 1..d
      BY <3>1
    <3>4. library.iterations \subseteq [mission : Mission, file : Pbo, number : 1..d]
      BY <3>2, <3>3
    <3> QED
      BY <3>4 DEF d, Iteration
  <2>3. LibraryTypeOK
    BY <1>1, <2>1, <2>2
       DEF LibraryTypeOK, TypedLibrary, SoundLibrary, WellRecorded, UploadType, TypedInv
  <2>4. \A k \in DOMAIN told : told[k].ran \in Pbo
    <3>1. told \in Seq(Told)
      BY <1>1 DEF TypedInv, SessionsInv
    <3>2. \A k \in DOMAIN told : told[k] \in Told
      BY <3>1
    <3> QED
      BY <3>2 DEF Told
  <2> QED
    BY <1>1, <2>3, <2>4 DEF TypeOK, TypedInv, NightInv, SessionsInv
<1> QED
  BY <1>1, TypedInvariant, PTL

-----------------------------------------------------------------------------
(* Votes *)

(* The reviewer of a result and those who cosigned it. *)
Signers(r) == {<<r.tester, t>> : t \in r.cosigns \union {r.tester}}

(* A recursion over the subsets of a finite set has one solution at most.  *)
LEMMA SubsetRecursion ==
    ASSUME NEW S, IsFiniteSet(S), NEW f, NEW g,
           f[{}] = g[{}],
           \A s \in SUBSET S : s # {} =>
              \E x \in s : f[s \ {x}] = g[s \ {x}] => f[s] = g[s]
    PROVE  f[S] = g[S]
<1> DEFINE R == StrictSubsetOrdering(S)
           T == {s \in FiniteSubsetsOf(S) : f[s] # g[s]}
<1>1. IsWellFoundedOn(R, FiniteSubsetsOf(S))
  BY FS_StrictSubsetOrderingWellFounded
<1>2. SUFFICES ASSUME f[S] # g[S] PROVE FALSE
  OBVIOUS
<1>3. S \in T
  BY <1>2 DEF FiniteSubsetsOf
<1>4. T \subseteq FiniteSubsetsOf(S) /\ T # {}
  BY <1>3
<1>5. \E s \in T : \A t \in T : ~(<<t, s>> \in R)
  <2> HIDE DEF T, R
  <2> QED
    BY <1>1, <1>4, WFMin, Zenon
<1>6. PICK s \in T : \A t \in T : ~(<<t, s>> \in R)
  BY <1>5
<1>7. s \in SUBSET S /\ IsFiniteSet(s) /\ f[s] # g[s] /\ s # {}
  BY <1>6 DEF FiniteSubsetsOf
<1>8. PICK x \in s : f[s \ {x}] = g[s \ {x}] => f[s] = g[s]
  BY <1>7
<1>9. s \ {x} \in FiniteSubsetsOf(S)
  BY <1>7, FS_Subset DEF FiniteSubsetsOf
<1>10. <<s \ {x}, s>> \in R
  BY <1>7, <1>8, <1>9 DEF StrictSubsetOrdering
<1> QED
  BY <1>6, <1>7, <1>8, <1>9, <1>10

LEMMA SignersOfOne ==
    ASSUME NEW r, r.tester \in Tester, r.cosigns \subseteq Tester, r.tester \notin r.cosigns
    PROVE  /\ IsFiniteSet(r.cosigns) /\ Cardinality(r.cosigns) \in Nat
           /\ IsFiniteSet(Signers(r))
           /\ Cardinality(Signers(r)) = 1 + Cardinality(r.cosigns)
<1> DEFINE S == r.cosigns \union {r.tester}
           f == [t \in S |-> <<r.tester, t>>]
<1>1. IsFiniteSet(r.cosigns) /\ Cardinality(r.cosigns) \in Nat
  BY FiniteAssumption, FS_Subset, FS_CardinalityType
<1>2. IsFiniteSet(S) /\ Cardinality(S) = 1 + Cardinality(r.cosigns)
  <2> DEFINE c == r.cosigns
             t == r.tester
  <2>1. IsFiniteSet(c) /\ t \notin c /\ Cardinality(c) \in Nat
    BY <1>1
  <2> HIDE DEF c, t
  <2>2. IsFiniteSet(c \union {t}) /\ Cardinality(c \union {t}) = Cardinality(c) + 1
    BY <2>1, FS_AddElement
  <2>3. IsFiniteSet(c \union {t}) /\ Cardinality(c \union {t}) = 1 + Cardinality(c)
    BY <2>1, <2>2
  <2> QED
    BY <2>3 DEF c, t
<1>3. f \in Bijection(S, Signers(r))
  BY DEF Signers, Bijection, Injection, IsInjective, Surjection
<1>4. ExistsBijection(S, Signers(r))
  BY <1>3 DEF ExistsBijection
<1> HIDE DEF S
<1> QED
  BY <1>1, <1>2, <1>4, FS_Bijection

(* The results of one iteration, each of a tester of its own. *)
DifferentTesters(R) ==
    /\ \A r \in R : r.tester \in Tester /\ r.cosigns \subseteq Tester /\ r.tester \notin r.cosigns
    /\ \A q, r \in R : q.tester = r.tester => q = r

AllSigners(R) == UNION {Signers(r) : r \in R}

LEMMA SignersFinite ==
    ASSUME NEW R, DifferentTesters(R)
    PROVE  IsFiniteSet(AllSigners(R)) /\ Cardinality(AllSigners(R)) \in Nat
<1>1. AllSigners(R) \subseteq Tester \X Tester
  BY DEF AllSigners, Signers, DifferentTesters
<1> QED
  BY <1>1, FiniteAssumption, FS_Product, FS_Subset, FS_CardinalityType

(* The signers of two sets of results, none in both, add up. *)
LEMMA SignersAddUp ==
    ASSUME NEW R, DifferentTesters(R), NEW A, NEW B, A \union B = R, A \cap B = {}
    PROVE  Cardinality(AllSigners(R)) = Cardinality(AllSigners(A)) + Cardinality(AllSigners(B))
<1>1. AllSigners(R) = AllSigners(A) \union AllSigners(B)
  BY DEF AllSigners
<1>2. AllSigners(A) \cap AllSigners(B) = {}
  BY DEF AllSigners, Signers, DifferentTesters
<1>3. DifferentTesters(A) /\ DifferentTesters(B)
  BY DEF DifferentTesters
<1>4. /\ IsFiniteSet(AllSigners(A)) /\ Cardinality(AllSigners(A)) \in Nat
      /\ IsFiniteSet(AllSigners(B)) /\ Cardinality(AllSigners(B)) \in Nat
  BY <1>3, SignersFinite
<1>5. Cardinality(AllSigners(A) \cap AllSigners(B)) = 0
  BY <1>2, FS_EmptySet
<1>6. Cardinality(AllSigners(A) \union AllSigners(B)) =
        Cardinality(AllSigners(A)) + Cardinality(AllSigners(B))
        - Cardinality(AllSigners(A) \cap AllSigners(B))
  BY ONLY <1>4, FS_Union
<1> QED
  BY <1>1, <1>4, <1>5, <1>6

(* The sum the mission list shows is the number of signers. *)
LEMMA VotesAreSigners ==
    ASSUME NEW i, NEW status,
           DifferentTesters({r \in library.results : r.iteration = i /\ r.status = status}),
           IsFiniteSet({r \in library.results : r.iteration = i /\ r.status = status})
    PROVE  Votes(i, status) =
             Cardinality(AllSigners({r \in library.results : r.iteration = i /\ r.status = status}))
<1> DEFINE R == {r \in library.results : r.iteration = i /\ r.status = status}
           g == [s \in SUBSET R |-> Cardinality(AllSigners(s))]
           Solves(h) == h = [s \in SUBSET R |->
                          IF s = {} THEN 0
                          ELSE h[s \ {CHOOSE x \in s : TRUE}] + 1
                                 + Cardinality((CHOOSE x \in s : TRUE).cosigns)]
           f == CHOOSE h : Solves(h)
<1>1. Votes(i, status) = f[R]
  BY Zenon DEF Votes, FoldSet, MapThenFoldSet
<1>2. ASSUME NEW s \in SUBSET R, s # {}, NEW x \in s
      PROVE  Cardinality(AllSigners(s)) =
               Cardinality(AllSigners(s \ {x})) + 1 + Cardinality(x.cosigns)
  <2>1. DifferentTesters(s)
    BY DEF DifferentTesters
  <2>2. (s \ {x}) \union {x} = s /\ (s \ {x}) \cap {x} = {} /\ DifferentTesters(s \ {x})
    BY <1>2, <2>1 DEF DifferentTesters
  <2>3. Cardinality(AllSigners(s)) =
          Cardinality(AllSigners(s \ {x})) + Cardinality(AllSigners({x}))
    <3> DEFINE A == s \ {x}
               B == {x}
    <3>1. A \union B = s /\ A \cap B = {}
      BY <2>2
    <3> HIDE DEF A, B
    <3>2. Cardinality(AllSigners(s)) = Cardinality(AllSigners(A)) + Cardinality(AllSigners(B))
      BY <2>1, <3>1, SignersAddUp
    <3> QED
      BY <3>2 DEF A, B
  <2>4. AllSigners({x}) = Signers(x)
    BY DEF AllSigners
  <2>5. Cardinality(Signers(x)) = 1 + Cardinality(x.cosigns) /\ Cardinality(x.cosigns) \in Nat
    BY <1>2, SignersOfOne DEF DifferentTesters
  <2>6. Cardinality(AllSigners(s \ {x})) \in Nat
    BY <2>2, SignersFinite
  <2> QED
    BY <2>3, <2>4, <2>5, <2>6
<1>3. Cardinality(AllSigners({})) = 0
  <2>1. AllSigners({}) = {}
    BY DEF AllSigners
  <2> QED
    BY <2>1, FS_EmptySet
<1>4. Solves(g)
  <2>1. ASSUME NEW s \in SUBSET R
        PROVE  g[s] = IF s = {} THEN 0
                      ELSE g[s \ {CHOOSE x \in s : TRUE}] + 1
                             + Cardinality((CHOOSE x \in s : TRUE).cosigns)
    <3>1. CASE s = {}
      BY <1>3, <3>1
    <3>2. CASE s # {}
      <4> DEFINE x == CHOOSE x \in s : TRUE
      <4>1. x \in s
        BY <3>2
      <4> HIDE DEF x
      <4>2. g[s] = Cardinality(AllSigners(s))
            /\ g[s \ {x}] = Cardinality(AllSigners(s \ {x}))
        OBVIOUS
      <4>3. g[s] = g[s \ {x}] + 1 + Cardinality(x.cosigns)
        BY <1>2, <3>2, <4>1, <4>2
      <4> QED
        BY <3>2, <4>3 DEF x
    <3> QED
      BY <3>1, <3>2
  <2>2. g = [s \in SUBSET R |-> g[s]]
    OBVIOUS
  <2> HIDE DEF g, R
  <2> QED
    BY <2>1, <2>2
<1>5. Solves(f)
  <2> HIDE DEF g, Solves
  <2> QED
    BY <1>4
<1>6. f[R] = g[R]
  <2> HIDE DEF f
  <2>1. f = [s \in SUBSET R |->
               IF s = {} THEN 0
               ELSE f[s \ {CHOOSE x \in s : TRUE}] + 1
                      + Cardinality((CHOOSE x \in s : TRUE).cosigns)]
    BY <1>5
  <2>2. g = [s \in SUBSET R |->
               IF s = {} THEN 0
               ELSE g[s \ {CHOOSE x \in s : TRUE}] + 1
                      + Cardinality((CHOOSE x \in s : TRUE).cosigns)]
    BY <1>4
  <2> HIDE DEF g, R
  <2>3. f[{}] = 0 /\ g[{}] = 0
    BY <2>1, <2>2
  <2>4. ASSUME NEW s \in SUBSET R, s # {}
        PROVE  \E x \in s : f[s \ {x}] = g[s \ {x}] => f[s] = g[s]
    <3> DEFINE x == CHOOSE x \in s : TRUE
    <3>1. x \in s
      BY <2>4
    <3>2. /\ f[s] = f[s \ {x}] + 1 + Cardinality(x.cosigns)
          /\ g[s] = g[s \ {x}] + 1 + Cardinality(x.cosigns)
      BY <2>1, <2>2, <2>4
    <3> HIDE DEF x
    <3> QED
      BY <3>1, <3>2
  <2>5. IsFiniteSet(R)
    BY DEF R
  <2>6. \A s \in SUBSET R : s # {} =>
           \E x \in s : f[s \ {x}] = g[s \ {x}] => f[s] = g[s]
    BY <2>4
  <2> HIDE DEF Solves
  <2>7. f[{}] = g[{}]
    BY <2>3
  <2> QED
    BY ONLY <2>5, <2>7, <2>6, SubsetRecursion, Zenon
<1>7. g[R] = Cardinality(AllSigners(R))
  BY DEF g
<1> QED
  BY <1>1, <1>6, <1>7

(* An iteration is reviewed once by a tester: the sign-offs that the       *)
(* mission list sums up are each of another pair of reviewer and signer,   *)
(* however reviews were changed, cosigned and withdrawn.                   *)
THEOREM VotesCountedOnceCorrect == Spec => []VotesCountedOnce
<1>1. ASSUME TypedInv, NEW i \in library.iterations
      PROVE  Votes(i, "Passed") + Votes(i, "Failed") =
               Cardinality(UNION {{<<r.tester, t>> : t \in r.cosigns \union {r.tester}} :
                                  r \in {x \in library.results : x.iteration = i}})
  <2> DEFINE All == {r \in library.results : r.iteration = i}
             With(status) == {r \in library.results : r.iteration = i /\ r.status = status}
  <2>1. TypedLibrary(library)
    BY <1>1 DEF TypedInv
  <2>2. DifferentTesters(All)
    BY <2>1 DEF TypedLibrary, DifferentTesters
  <2>3. ASSUME NEW status
        PROVE  Votes(i, status) = Cardinality(AllSigners(With(status)))
    <3>1. IsFiniteSet(With(status))
      BY <2>1, FS_Subset DEF TypedLibrary
    <3>2. DifferentTesters(With(status))
      BY <2>2 DEF DifferentTesters
    <3> QED
      BY <3>1, <3>2, VotesAreSigners
  <2>4. With("Passed") \union With("Failed") = All /\ With("Passed") \cap With("Failed") = {}
    BY <2>1 DEF TypedLibrary, TestStatus
  <2>5. Cardinality(AllSigners(All)) =
          Cardinality(AllSigners(With("Passed"))) + Cardinality(AllSigners(With("Failed")))
    <3> DEFINE P == With("Passed")
               F == With("Failed")
    <3>1. P \union F = All /\ P \cap F = {}
      BY <2>4
    <3> HIDE DEF All, P, F
    <3>2. Cardinality(AllSigners(All)) = Cardinality(AllSigners(P)) + Cardinality(AllSigners(F))
      BY <2>2, <3>1, SignersAddUp
    <3> QED
      BY <3>2 DEF P, F
  <2>6. AllSigners(All) =
          UNION {{<<r.tester, t>> : t \in r.cosigns \union {r.tester}} :
                 r \in {x \in library.results : x.iteration = i}}
    BY Zenon DEF AllSigners, Signers
  <2> HIDE DEF All, With
  <2> QED
    BY <2>3, <2>5, <2>6
<1>2. TypedInv => VotesCountedOnce
  BY <1>1 DEF VotesCountedOnce
<1> QED
  BY <1>2, TypedInvariant, PTL
=============================================================================
