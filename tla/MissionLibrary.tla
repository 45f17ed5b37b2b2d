--------------------------- MODULE MissionLibrary ---------------------------
(***************************************************************************)
(* Missions: uploads of their files to the servers, the iterations that    *)
(* record them, and the reviews of testers.  MissionsApi and TestApi       *)
(* (bw/missions/api.py) over the stores of bw/missions/missions.py and     *)
(* bw/missions/tests.py.                                                   *)
(*                                                                         *)
(* An upload waits while hemtt unpacks the file; the rest of it, and every *)
(* other request, is done without interruption.  It commits step by step:  *)
(* when the disk or the database fails, or the backend dies, the steps     *)
(* that were done stay done.  The uuid of a mission is made of the name it *)
(* was saved under, which is inside the file, and of the map in the path   *)
(* of the file: two files of one name may hold two missions.               *)
(***************************************************************************)
EXTENDS Naturals, Sequences, FiniteSets, FiniteSetsExt

CONSTANTS
    Pbo,            \* names of mission files
    Name, Map,      \* names of missions without their version, maps
    MapInPath,      \* per file name, the map that an upload reads out of it
    Tag,            \* tags of mission types
    Server,         \* the servers of SERVER_MAP
    Upload,         \* uploads that may wait at the same time
    Tester,
    MaxResults, MaxFaults,      \* bounds
    Nothing

(* What the uuid of a mission is made of, and what an upload has read out  *)
(* of its file.                                                            *)
Mission == Name \X Map
Waiting == [server : Server, pbo : Pbo, name : Name, tag : Tag]

TestStatus == {"Passed", "Failed"}

ASSUME FilesAssumption == MapInPath \in [Pbo -> Map]
ASSUME FiniteAssumption == IsFiniteSet(Pbo) /\ IsFiniteSet(Server) /\ IsFiniteSet(Tester)
ASSUME LimitsAssumption == MaxResults \in Nat /\ MaxFaults \in Nat
ASSUME NothingAssumption == Nothing \notin Waiting

VARIABLES
    library,    \* the tables, and the mission folders of the servers
    upload,     \* per waiting upload, its server and what its file holds, or Nothing
    faults      \* how many requests failed half-way

libraryVars == <<library, upload, faults>>

Init ==
    /\ library = [types |-> {}, missions |-> << >>, iterations |-> {}, results |-> {},
                  folder |-> [s \in Server |-> {}]]
    /\ upload = [j \in Upload |-> Nothing]
    /\ faults = 0

(* The request commits the steps that lead to stages[1], stages[2] and so  *)
(* on; a failure leaves it at one of them but the last.                    *)
Commit(stages) ==
    \/ /\ library' = stages[Len(stages)]
       /\ UNCHANGED faults
    \/ /\ faults < MaxFaults
       /\ faults' = faults + 1
       /\ \E i \in 1..(Len(stages) - 1) : library' = stages[i]

-----------------------------------------------------------------------------
(* Mission types *)

CreateMissionType(tag) ==
    /\ tag \notin library.types
    /\ library' = [library EXCEPT !.types = @ \union {tag}]
    /\ UNCHANGED <<upload, faults>>

(* Faulty variant: without the foreign key of the missions. *)
DeleteMissionTypeInUse(tag) ==
    /\ tag \in library.types
    /\ library' = [library EXCEPT !.types = @ \ {tag}]
    /\ UNCHANGED <<upload, faults>>

(* The missions of the type refer to it: then the database refuses. *)
DeleteMissionType(tag) ==
    /\ tag \in library.types
    /\ \A m \in DOMAIN library.missions : library.missions[m].tag # tag
    /\ library' = [library EXCEPT !.types = @ \ {tag}]
    /\ UNCHANGED <<upload, faults>>

-----------------------------------------------------------------------------
(* Uploads *)

(* Whoever uploads the file chose its name, its mission's name and type. *)
UploadBegin(j, w) ==
    /\ upload[j] = Nothing
    /\ upload' = [upload EXCEPT ![j] = w]
    /\ UNCHANGED <<library, faults>>

Ended(j) == upload' = [upload EXCEPT ![j] = Nothing]

(* Not binarized, not saved with POTATO, no map in the name, or the        *)
(* backend died.                                                           *)
UploadRefused(j) ==
    /\ upload[j] # Nothing
    /\ Ended(j)
    /\ UNCHANGED <<library, faults>>

(* mission_with_uuid_in_server *)
KnownIn(m, s) == m \in DOMAIN library.missions /\ library.missions[m].server = s

WithMission(l, m, s, tag) ==
    [l EXCEPT !.missions = [x \in DOMAIN l.missions \union {m} |->
                IF x = m THEN [server |-> s, tag |-> tag] ELSE l.missions[x]]]

CopiedTo(l, s, p) == [l EXCEPT !.folder[s] = @ \union {p}]

IterationsOf(l, m) == {i \in l.iterations : i.mission = m}

AddIteration(l, m, p) ==
    [l EXCEPT !.iterations = @ \union
        {[mission |-> m, file |-> p,
          number |-> 1 + Max({0} \union {i.number : i \in IterationsOf(l, m)})]}]

(* Faulty variant: the iteration is recorded before the file is copied.    *)
UploadStagesRecordedFirst(m, s, p, tag) ==
    LET created == IF KnownIn(m, s) THEN library ELSE WithMission(library, m, s, tag)
        added == AddIteration(created, m, p)
    IN  IF p \in library.folder[s] THEN <<library, created>>
        ELSE <<library, created, added, CopiedTo(added, s, p)>>

(* Faulty variant: a file that is there is overwritten. *)
UploadStagesOverwriting(m, s, p, tag) ==
    LET created == IF KnownIn(m, s) THEN library ELSE WithMission(library, m, s, tag)
        copied == CopiedTo(created, s, p)
    IN  <<library, created, copied, AddIteration(copied, m, p)>>

(* The mission is created when this server has none of the kind, whether   *)
(* or not the file will be refused because it is in the folder already.    *)
UploadStages(m, s, p, tag) ==
    LET created == IF KnownIn(m, s) THEN library ELSE WithMission(library, m, s, tag)
        copied == CopiedTo(created, s, p)
    IN  IF p \in library.folder[s] THEN <<library, created>>
        ELSE <<library, created, copied, AddIteration(copied, m, p)>>

(* A new mission needs its type; one that another server has breaks the    *)
(* unique column of its uuid.                                              *)
UploadEnd(j) ==
    /\ upload[j] # Nothing
    /\ LET s == upload[j].server
           p == upload[j].pbo
           m == <<upload[j].name, MapInPath[p]>>
           tag == upload[j].tag
       IN  \/ /\ KnownIn(m, s) \/ (m \notin DOMAIN library.missions /\ tag \in library.types)
              /\ Commit(UploadStages(m, s, p, tag))
           \/ /\ ~KnownIn(m, s)
              /\ m \in DOMAIN library.missions \/ tag \notin library.types
              /\ UNCHANGED <<library, faults>>
    /\ Ended(j)

(* An upload that is not to be played in a session is copied only. *)
CopyMissionToServer(s, p) ==
    /\ p \notin library.folder[s]
    /\ library' = CopiedTo(library, s, p)
    /\ UNCHANGED <<upload, faults>>

-----------------------------------------------------------------------------
(* Reviews.  A review whose result could not be created belongs to no      *)
(* iteration and is read by nobody: it is left out.                        *)

Result(i, t, status) == [iteration |-> i, tester |-> t, status |-> status, cosigns |-> {}]

(* Faulty variant: a tester may review again when the verdict is another.  *)
ReviewMissionAgain(t, i, status) ==
    /\ Cardinality(library.results) < MaxResults
    /\ \A r \in library.results : ~(r.iteration = i /\ r.tester = t /\ r.status = status)
    /\ Commit(<<library, [library EXCEPT !.results = @ \union {Result(i, t, status)}]>>)
    /\ UNCHANGED upload

ReviewMission(t, i, status) ==
    /\ Cardinality(library.results) < MaxResults
    /\ \A r \in library.results : ~(r.iteration = i /\ r.tester = t)
    /\ Commit(<<library, [library EXCEPT !.results = @ \union {Result(i, t, status)}]>>)
    /\ UNCHANGED upload

Replaced(old, new) ==
    /\ library' = [library EXCEPT !.results = (@ \ {old}) \union {new}]
    /\ UNCHANGED <<upload, faults>>

ChangeReviewStatus(r, status) == Replaced(r, [r EXCEPT !.status = status])

CosignResult(t, r) ==
    /\ t # r.tester /\ t \notin r.cosigns
    /\ Replaced(r, [r EXCEPT !.cosigns = @ \union {t}])

RemoveCosign(t, r) == Replaced(r, [r EXCEPT !.cosigns = @ \ {t}])

(* What the mission list shows of an iteration. *)
Votes(i, status) ==
    FoldSet(LAMBDA r, sum : sum + 1 + Cardinality(r.cosigns), 0,
            {r \in library.results : r.iteration = i /\ r.status = status})

LibraryNext ==
    \/ \E tag \in Tag : CreateMissionType(tag) \/ DeleteMissionType(tag)
    \/ \E j \in Upload : UploadEnd(j) \/ UploadRefused(j)
    \/ \E j \in Upload, w \in Waiting : UploadBegin(j, w)
    \/ \E s \in Server, p \in Pbo : CopyMissionToServer(s, p)
    \/ \E t \in Tester, status \in TestStatus :
          \/ \E i \in library.iterations : ReviewMission(t, i, status)
          \/ \E r \in library.results : ChangeReviewStatus(r, status)
    \/ \E t \in Tester, r \in library.results : CosignResult(t, r) \/ RemoveCosign(t, r)

-----------------------------------------------------------------------------
(* Properties *)

Iteration ==
    [mission : Mission, file : Pbo, number : 1..(Cardinality(Server) * Cardinality(Pbo))]

ServerOf(i) == library.missions[i.mission].server

(* The tables have their columns and their references. *)
LibraryTypeOK ==
    /\ library.types \subseteq Tag
    /\ DOMAIN library.missions \subseteq Mission
    /\ \A m \in DOMAIN library.missions : library.missions[m] \in [server : Server, tag : library.types]
    /\ library.iterations \subseteq Iteration
    /\ {i.mission : i \in library.iterations} \subseteq DOMAIN library.missions
    /\ library.results \subseteq [iteration : library.iterations, tester : Tester,
                                  status : TestStatus, cosigns : SUBSET Tester]
    /\ library.folder \in [Server -> SUBSET Pbo]
    /\ upload \in [Upload -> Waiting \union {Nothing}]
    /\ faults \in 0..MaxFaults

(* An iteration is recorded when its file is in the folder of the server   *)
(* of its mission, also when the upload failed or was tried again.         *)
RecordedIsOnServer ==
    \A i \in library.iterations : i.file \in library.folder[ServerOf(i)]

(* A file of a server is recorded once: no two missions of one server, let *)
(* alone two iterations of a mission, share a file, whatever names uploads *)
(* that overlap, fail or are tried again saved it under.                   *)
FileIdentifiesIteration ==
    \A i, j \in library.iterations :
        i.file = j.file /\ ServerOf(i) = ServerOf(j) => i = j

(* An iteration is reviewed once by a tester and none cosigns a review of  *)
(* his own: what the list adds up counts a signature of a tester under a   *)
(* result once.  A tester may sign two results of an iteration.            *)
VotesCountedOnce ==
    \A i \in library.iterations :
        Votes(i, "Passed") + Votes(i, "Failed") =
            Cardinality(UNION {{<<r.tester, t>> : t \in r.cosigns \union {r.tester}} :
                               r \in {x \in library.results : x.iteration = i}})
=============================================================================
