----------------------------- MODULE GameNights -----------------------------
(***************************************************************************)
(* Sessions of play and the missions played in them: SessionApi            *)
(* (bw/session/api.py) over SessionStore (bw/session/session.py) and the   *)
(* mission library.  The game reports the file it played; the mission and  *)
(* the iteration are looked up by its name, whatever is inside it.         *)
(***************************************************************************)
EXTENDS MissionLibrary

CONSTANTS
    Reported,                   \* per file, the name without version and the map
                                \* that the game reports of it
    MaxSessions, MaxPlayed      \* bounds

ASSUME NightsAssumption == MaxSessions \in Nat /\ MaxPlayed \in Nat
ASSUME ReportedAssumption == Reported \in [Pbo -> Mission]

VARIABLES
    sessions,   \* finish_date of each session: BOOLEAN, whether it is set
    played,     \* rows of played_missions; ran is what the game reported
    told        \* the events about missions that ended, in order

nightVars == <<sessions, played, told>>
vars == <<libraryVars, nightVars>>

SessionId == DOMAIN sessions

NightInit ==
    /\ Init
    /\ sessions = <<>> /\ played = <<>> /\ told = <<>>

Register ==
    /\ Len(sessions) < MaxSessions
    /\ sessions' = Append(sessions, FALSE)
    /\ UNCHANGED <<played, told, libraryVars>>

Finish(s) ==
    /\ ~sessions[s]
    /\ sessions' = [sessions EXCEPT ![s] = TRUE]
    /\ UNCHANGED <<played, told, libraryVars>>

-----------------------------------------------------------------------------
(* Lookups *)

(* uuid_from_name_and_map of what the game reports *)
MissionWithName(p) == {Reported[p]} \cap DOMAIN library.missions

(* Faulty variant: the latest iteration of the mission is taken. *)
LatestIteration(m, p) ==
    {i \in IterationsOf(library, m) : \A k \in IterationsOf(library, m) : k.number <= i.number}

(* The join is with the one row of the mission and says nothing of whose   *)
(* iteration it is.                                                        *)
IterationWithMissionAndName(m, p) == {i \in library.iterations : i.file = p}

Found(p) == UNION {IterationWithMissionAndName(m, p) : m \in MissionWithName(p)}

(* The event tells no iteration when none, or not exactly one, was found   *)
(* or something failed; the game is told that it failed.                   *)
Tell(s, p, what) == told' = Append(told, [session |-> s, ran |-> p, iteration |-> what])

Recorded(s, p, i) ==
    played' = Append(played, [session |-> s, mission |-> Reported[p], iteration |-> i, ran |-> p])

FinishFails ==
    /\ faults < MaxFaults
    /\ faults' = faults + 1

(* A game with too few players is not reported further.  The handler of    *)
(* failures covers the publishing of the event too, and publishes itself:  *)
(* the row may be there and no iteration told, or nothing be told at all.  *)
FinishMission(s, p) ==
    /\ Len(told) < MaxPlayed /\ Len(played) < MaxPlayed
    /\ \/ \E i \in Found(p) :
            /\ Found(p) = {i}
            /\ \/ Recorded(s, p, i) /\ Tell(s, p, i) /\ UNCHANGED faults
               \/ FinishFails /\ Recorded(s, p, i) /\ (UNCHANGED told \/ Tell(s, p, Nothing))
               \/ FinishFails /\ UNCHANGED played /\ (UNCHANGED told \/ Tell(s, p, Nothing))
       \/ /\ Cardinality(Found(p)) # 1
          /\ \/ Tell(s, p, Nothing) /\ UNCHANGED <<played, faults>>
             \/ FinishFails /\ UNCHANGED <<played, told>>
    /\ UNCHANGED <<sessions, library, upload>>

Next ==
    \/ LibraryNext /\ UNCHANGED nightVars
    \/ Register
    \/ \E s \in SessionId : Finish(s)
    \/ \E s \in SessionId, p \in Pbo : FinishMission(s, p)

Spec == NightInit /\ [][Next]_vars

-----------------------------------------------------------------------------
(* Properties *)

(* Every variable has its type. *)
TypeOK ==
    /\ LibraryTypeOK
    /\ sessions \in Seq(BOOLEAN)
    /\ \A k \in DOMAIN played : played[k].session \in SessionId
    /\ \A k \in DOMAIN told : told[k].session \in SessionId /\ told[k].ran \in Pbo

(* What is recorded as played is a version of the very file that ran; and  *)
(* when the mission it is recorded for has a version of that file, it is   *)
(* this one, although the lookup ignores whose iteration it finds.         *)
PlayedIsWhatRan ==
    [][\A k \in DOMAIN played' \ DOMAIN played :
          LET row == played'[k]
              own == {i \in IterationsOf(library, row.mission) : i.file = row.ran}
          IN  /\ row.iteration \in library.iterations
              /\ row.iteration.file = row.ran
              /\ own # {} => row.iteration \in own]_vars
=============================================================================
