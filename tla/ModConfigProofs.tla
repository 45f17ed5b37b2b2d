-------------------------- MODULE ModConfigProofs --------------------------
(***************************************************************************)
(* Theorems about ModConfig for every set of mods, modlists, servers and   *)
(* requests, every content of the files and any faults.                    *)
(***************************************************************************)
EXTENDS ModConfig, TLAPS

-----------------------------------------------------------------------------
(* The inductive invariant *)

Directory == UNION {[S -> SUBSET Line] : S \in SUBSET ModlistName}

MadeOf(m) == {r \in Object : r[2] <= m[r[1]]}

(* What a request holds, over a set of objects. *)
Held(objs) == [at : {"none", "details", "check"}, kind : {"reload", "update"},
               server : SUBSET Server, added : SUBSET objs,
               asked : SUBSET objs, clean : BOOLEAN]

(* Modlists over a set of objects. *)
ListsOver(objs, L) == DOMAIN L \subseteq ModlistName /\ \A l \in DOMAIN L : L[l] \subseteq objs

(* The parts of the type invariant. *)
Parts(objs) ==
    /\ ListsOver(objs, lists)
    /\ titled \subseteq objs
    /\ reload \in [Reload -> Held(objs)]

Files ==
    /\ modFile \in Seq(FileEntry) /\ listFile \in Directory
    /\ writes \in 0..MaxWrites

(* A backend that does not run holds nothing. *)
Down ==
    ~up => mods = NoMods /\ lists = << >> /\ titled = {}
           /\ \A j \in Reload : reload[j].at = "none"

(* As long as the workshop told every title, an object without one is not  *)
(* installed from the workshop, or a load waits for its title.             *)
Told == ~untold => \A r \in MadeSoFar : r \in titled \/ ~FromWorkshop(r) \/ Awaited(r)

(* The file an update has read, and nobody has written since, is one that  *)
(* a start accepts, but for keys that become one name.                     *)
StartAccepts == DistinctNames(modFile) => Accepts(modFile, NoMods, FALSE)

CleanIsAccepted ==
    \A j \in Reload : reload[j].at = "details" /\ reload[j].kind = "update" /\ reload[j].clean
                          => StartAccepts

ConfigInv == ConfigTypeOK /\ Down /\ Told /\ CleanIsAccepted /\ ReloadedFilesBoot

-----------------------------------------------------------------------------
(* Lemmas about the operators *)

(* More loads make more objects. *)
LEMMA MadeGrows ==
    ASSUME NEW m \in [ModName -> 0..MaxLoads], NEW n \in [ModName -> 0..MaxLoads],
           \A x \in ModName : m[x] <= n[x]
    PROVE  MadeOf(m) \subseteq MadeOf(n)
  BY ConfigBoundsAssumption DEF MadeOf, Object

(* Loading taken names keeps what is defined and defines them. *)
LEMMA RenewedType ==
    ASSUME NEW m \in [ModName -> 0..MaxLoads], NEW names \in SUBSET ModName,
           \A n \in names : m[n] < MaxLoads
    PROVE  /\ Renewed(m, names) \in [ModName -> 0..MaxLoads]
           /\ \A x \in ModName : m[x] <= Renewed(m, names)[x]
           /\ Defined(Renewed(m, names)) = Defined(m) \union names
           /\ Objects(Renewed(m, names), names) \subseteq MadeOf(Renewed(m, names))
           /\ \A r \in MadeOf(Renewed(m, names)) :
                 r \in MadeOf(m) \/ r \in Objects(Renewed(m, names), names)
<1> DEFINE n == Renewed(m, names)
<1>1. n \in [ModName -> 0..MaxLoads] /\ \A x \in ModName : m[x] <= n[x]
  BY ConfigBoundsAssumption DEF Renewed
<1>2. Defined(n) = Defined(m) \union names
  BY ConfigBoundsAssumption DEF Renewed, Defined
<1>3. Objects(n, names) \subseteq MadeOf(n)
  <2> SUFFICES ASSUME NEW x \in names PROVE <<x, n[x]>> \in MadeOf(n)
    BY DEF Objects
  <2>1. n[x] \in 1..MaxLoads
    BY ConfigBoundsAssumption DEF Renewed
  <2> QED
    BY <2>1 DEF MadeOf, Object
<1>4. ASSUME NEW r \in MadeOf(n)
      PROVE  r \in MadeOf(m) \/ r \in Objects(n, names)
  <2>1. PICK x \in ModName, k \in 1..MaxLoads : r = <<x, k>>
    BY DEF MadeOf, Object
  <2>2. k <= n[x]
    BY <2>1 DEF MadeOf
  <2>3. CASE k <= m[x]
    BY <2>1, <2>3 DEF MadeOf, Object
  <2>4. CASE ~(k <= m[x])
    <3>1. x \in names /\ k = n[x]
      BY <2>2, <2>4, ConfigBoundsAssumption DEF Renewed
    <3> QED
      BY <2>1, <3>1 DEF Objects
  <2> QED
    BY <2>3, <2>4
<1> QED
  BY <1>1, <1>2, <1>3, <1>4

(* Objects of defined names were made. *)
LEMMA ObjectsMade ==
    ASSUME NEW m \in [ModName -> 0..MaxLoads], NEW names \in SUBSET Defined(m)
    PROVE  Objects(m, names) \subseteq MadeOf(m)
<1> SUFFICES ASSUME NEW x \in names PROVE <<x, m[x]>> \in MadeOf(m)
  BY DEF Objects
<1>1. x \in ModName /\ m[x] \in 1..MaxLoads
  BY ConfigBoundsAssumption DEF Defined
<1> QED
  BY <1>1 DEF MadeOf, Object

(* The names and definitions of entries. *)
LEMMA EntryTyped ==
    ASSUME NEW file \in Seq(FileEntry), NEW k \in DOMAIN file
    PROVE  Name(file, k) \in ModName /\ file[k].def \in Definition
<1> HIDE DEF FileEntry
<1>1. file[k] \in FileEntry
  OBVIOUS
<1> QED
  BY <1>1, NamesAssumption DEF FileEntry, Name

LEMMA NamesAtTyped ==
    ASSUME NEW file \in Seq(FileEntry), NEW S \in SUBSET DOMAIN file
    PROVE  NamesAt(file, S) \subseteq ModName
  BY EntryTyped DEF NamesAt

LEMMA TakenIndices ==
    ASSUME NEW file, NEW m, NEW again
    PROVE  Taken(file, m, again) \subseteq DOMAIN file
  BY DEF Taken

(* New objects are made from entries of the file, old ones stay as they    *)
(* were made.                                                              *)
LEMMA MadeFromType ==
    ASSUME NEW file \in Seq(FileEntry), NEW taken \in SUBSET DOMAIN file,
           NEW last \in LastOnes(file, taken), NEW m \in [ModName -> 0..MaxLoads],
           made \in [Object -> Definition]
    PROVE  LET new == Objects(m, NamesAt(file, taken))
           IN  /\ MadeFrom(file, last, new) \in [Object -> Definition]
               /\ \A r \in Object \ new : MadeFrom(file, last, new)[r] = made[r]
<1> DEFINE new == Objects(m, NamesAt(file, taken))
<1>1. ASSUME NEW r \in Object, r \in new
      PROVE  file[last[r[1]]].def \in Definition
  <2>1. PICK n \in NamesAt(file, taken) : r = <<n, m[n]>>
    BY <1>1 DEF Objects
  <2>2. last[n] \in taken
    BY DEF LastOnes
  <2> QED
    BY <2>1, <2>2, EntryTyped
<1> QED
  BY <1>1 DEF MadeFrom

(* An object that was made before is not one of the new ones. *)
LEMMA OldIsNotNew ==
    ASSUME NEW m \in [ModName -> 0..MaxLoads], NEW names \in SUBSET ModName,
           NEW r \in MadeOf(m)
    PROVE  r \notin Objects(Renewed(m, names), names)
<1> SUFFICES ASSUME NEW n \in names, r = <<n, Renewed(m, names)[n]>> PROVE FALSE
  BY DEF Objects
<1>1. r[1] = n /\ r[2] = m[n] + 1
  BY DEF Renewed
<1> QED
  BY <1>1, ConfigBoundsAssumption DEF MadeOf, Object

(* Reading modlists makes lists of objects that were made. *)
LEMMA WithListsType ==
    ASSUME NEW m \in [ModName -> 0..MaxLoads], listFile \in Directory,
           ListsOver(MadeOf(m), lists),
           NEW S \in SUBSET DOMAIN listFile, ReadLists(S, m)
    PROVE  ListsOver(MadeOf(m), WithLists(S, m))
<1>1. \A l \in S : listFile[l] \subseteq Defined(m)
  BY DEF ReadLists, BadLists
<1>2. DOMAIN listFile \subseteq ModlistName
  BY DEF Directory
<1>3. \A l \in S : Objects(m, listFile[l]) \subseteq MadeOf(m)
  BY <1>1, ObjectsMade
<1> QED
  BY <1>2, <1>3 DEF WithLists, ListsOver

(* Whether a file is accepted without regard to what is defined does not   *)
(* depend on the mods, and whether a start accepts it not on what was made *)
(* before: but for keys that become one name, they accept the same files.  *)
LEMMA NothingCurrent == Defined(NoMods) = {} /\ Current(NoMods) = {}
  BY DEF Defined, NoMods, Current, Objects

LEMMA SameFilesAccepted ==
    ASSUME NEW m, Files, Accepts(modFile, m, TRUE)
    PROVE  StartAccepts
<1> SUFFICES ASSUME DistinctNames(modFile), NEW k \in DOMAIN modFile
             PROVE  ~Refuses(modFile, k, NoMods, FALSE)
  BY DEF StartAccepts, Accepts
<1>1. modFile[k].valid /\ ~Clashes(modFile, k, Before(modFile, k))
  BY DEF Accepts, Refuses
<1>2. Name(modFile, k) \notin NamesAt(modFile, 1..(k - 1))
  <2> SUFFICES ASSUME NEW i \in 1..(k - 1), Name(modFile, i) = Name(modFile, k) PROVE FALSE
    BY DEF NamesAt
  <2>1. i \in DOMAIN modFile /\ i # k
    BY DEF Files
  <2> QED
    BY <2>1 DEF DistinctNames
<1>3. ~Clashes(modFile, k, {made[r] : r \in Current(NoMods)})
  BY NothingCurrent DEF Clashes
<1> QED
  BY <1>1, <1>2, <1>3, NothingCurrent DEF Refuses

-----------------------------------------------------------------------------
(* The parts of the invariant *)

LEMMA TypeParts ==
    ConfigTypeOK <=> /\ up \in BOOLEAN /\ untold \in BOOLEAN /\ verified \in BOOLEAN
                     /\ mods \in [ModName -> 0..MaxLoads]
                     /\ made \in [Object -> Definition]
                     /\ Parts(MadeOf(mods))
                     /\ Files
  BY DEF ConfigTypeOK, MadeSoFar, MadeOf, Parts, Files, ListsOver, Held, FileEntry, Directory

LEMMA TypePartsPrimed ==
    ASSUME up' \in BOOLEAN, untold' \in BOOLEAN, verified' \in BOOLEAN,
           mods' \in [ModName -> 0..MaxLoads], made' \in [Object -> Definition],
           Parts(MadeOf(mods))', Files'
    PROVE  ConfigTypeOK'
  BY DEF ConfigTypeOK, MadeSoFar, MadeOf, Parts, Files, ListsOver, Held, FileEntry, Directory

(* What is held over some objects is held over more. *)
LEMMA PartsGrow ==
    ASSUME NEW objs, NEW more, objs \subseteq more, Parts(objs)
    PROVE  Parts(more)
<1>1. Held(objs) \subseteq Held(more)
  BY DEF Held
<1> QED
  BY <1>1 DEF Parts, ListsOver

(* One request goes on as it should, the others stay. *)
LEMMA HeldExcept ==
    ASSUME NEW objs, reload \in [Reload -> Held(objs)], NEW j \in Reload, NEW r \in Held(objs),
           reload' = [reload EXCEPT ![j] = r]
    PROVE  /\ reload' \in [Reload -> Held(objs)]
           /\ reload'[j] = r
           /\ \A k \in Reload : k # j => reload'[k] = reload[k]
  BY DEF Held

LEMMA NoReloadHeld ==
    ASSUME NEW objs
    PROVE  NoReload \in Held(objs) /\ NoReload.at = "none" /\ NoReload.added = {}
  BY DEF NoReload, Held

(* Loading the modlists and going on with the one of the server. *)
LEMMA GoOnParts ==
    ASSUME NEW m \in [ModName -> 0..MaxLoads], Parts(MadeOf(m)), Files,
           NEW j \in Reload, NEW s \in Server, NEW clean \in BOOLEAN,
           verified \in BOOLEAN,
           clean => StartAccepts,
           GoOn(j, s, m, clean)
    PROVE  /\ ListsOver(MadeOf(m), lists')
           /\ reload' \in [Reload -> Held(MadeOf(m))]
           /\ reload'[j].at # "details"
           /\ \A k \in Reload : k # j => reload'[k] = reload[k]
           /\ verified' \in BOOLEAN
           /\ verified' => verified \/ (DistinctNames(modFile) => Bootable)
<1> DEFINE objs == MadeOf(m)
<1>1. PICK S \in SUBSET DOMAIN listFile :
         /\ ReadLists(S, m)
         /\ lists' = WithLists(S, m)
         /\ verified' = (verified \/ /\ BadLists(m) = {} /\ clean
                                     /\ Defined(m) \subseteq NamesIn(modFile))
         /\ reload' = [reload EXCEPT ![j] =
              IF BadLists(m) = {} /\ ServerList[s] \in DOMAIN WithLists(S, m)
              THEN [NoReload EXCEPT !.at = "check", !.asked = WithLists(S, m)[ServerList[s]]]
              ELSE NoReload]
  BY DEF GoOn
<1>2. ListsOver(objs, WithLists(S, m))
  BY <1>1, WithListsType DEF Parts, Files
<1>3. DEFINE r == IF BadLists(m) = {} /\ ServerList[s] \in DOMAIN WithLists(S, m)
                  THEN [NoReload EXCEPT !.at = "check", !.asked = WithLists(S, m)[ServerList[s]]]
                  ELSE NoReload
<1>4. r \in Held(objs) /\ r.at # "details"
  <2>1. CASE BadLists(m) = {} /\ ServerList[s] \in DOMAIN WithLists(S, m)
    <3>1. WithLists(S, m)[ServerList[s]] \subseteq objs
      BY <1>2, <2>1 DEF ListsOver
    <3> HIDE DEF objs
    <3> QED
      BY <2>1, <3>1 DEF NoReload, Held
  <2>2. CASE ~(BadLists(m) = {} /\ ServerList[s] \in DOMAIN WithLists(S, m))
    BY <2>2 DEF NoReload, Held
  <2> QED
    BY <2>1, <2>2
<1>5. reload \in [Reload -> Held(objs)] /\ reload' = [reload EXCEPT ![j] = r]
  BY <1>1 DEF Parts
<1>6. /\ reload' \in [Reload -> Held(objs)]
      /\ reload'[j] = r
      /\ \A k \in Reload : k # j => reload'[k] = reload[k]
  <2> HIDE DEF r, objs
  <2> QED
    BY <1>4, <1>5, HeldExcept
<1>7. ASSUME BadLists(m) = {}, clean, Defined(m) \subseteq NamesIn(modFile), DistinctNames(modFile)
      PROVE  Bootable
  BY <1>7 DEF BadLists, Bootable, StartAccepts
<1> QED
  BY <1>1, <1>2, <1>4, <1>6, <1>7

(* While nobody writes, the files are accepted as before. *)
LEMMA FilesStay ==
    ASSUME UNCHANGED disk
    PROVE  /\ StartAccepts' <=> StartAccepts
           /\ Bootable' <=> Bootable
           /\ DistinctNames(modFile)' <=> DistinctNames(modFile)
           /\ Files' <=> Files
<1>1. modFile' = modFile /\ listFile' = listFile /\ writes' = writes
  BY DEF disk
<1>2. Current(NoMods) = {} /\ Current(NoMods)' = {}
  BY NothingCurrent DEF Defined, NoMods, Current, Objects
<1>3. ASSUME NEW k \in DOMAIN modFile
      PROVE  Refuses(modFile, k, NoMods, FALSE)' <=> Refuses(modFile, k, NoMods, FALSE)
  <2>1. /\ ~Clashes(modFile, k, {made[r] : r \in Current(NoMods)})
        /\ ~Clashes(modFile, k, {made[r] : r \in Current(NoMods)})'
    BY <1>2 DEF Clashes
  <2>2. Defined(NoMods)' = Defined(NoMods)
    BY DEF Defined, NoMods
  <2>3. /\ Clashes(modFile, k, Before(modFile, k))' <=> Clashes(modFile, k, Before(modFile, k))
        /\ Name(modFile, k)' = Name(modFile, k)
        /\ NamesAt(modFile, 1..(k - 1))' = NamesAt(modFile, 1..(k - 1))
    BY <1>1 DEF Clashes, Before, Name, NamesAt
  <2> QED
    BY <1>1, <2>1, <2>2, <2>3 DEF Refuses
<1>4. Accepts(modFile, NoMods, FALSE)' <=> Accepts(modFile, NoMods, FALSE)
  BY <1>1, <1>3 DEF Accepts
<1>5. DistinctNames(modFile)' <=> DistinctNames(modFile)
  BY <1>1 DEF DistinctNames, Name
<1>6. NamesIn(modFile)' = NamesIn(modFile)
  BY <1>1 DEF NamesIn, NamesAt, Name
<1> QED
  BY <1>1, <1>4, <1>5, <1>6 DEF Bootable, Files, StartAccepts

-----------------------------------------------------------------------------
(* Every step keeps the invariant *)

LEMMA BeginLoadInv ==
    ASSUME ConfigInv, NEW j \in Reload, NEW kind \in {"reload", "update"},
           NEW s \in SUBSET Server, NEW again \in BOOLEAN, kind = "update" => again,
           BeginLoad(j, kind, s, again)
    PROVE  ConfigInv'
<1> DEFINE taken == Taken(modFile, mods, again)
           names == NamesAt(modFile, taken)
           m == Renewed(mods, names)
           new == Objects(m, names)
           ok == Accepts(modFile, mods, again)
           added == Asked(new, made')
           next == [at |-> "details", kind |-> kind, server |-> s,
                    added |-> added, asked |-> {}, clean |-> TRUE]
<1>1. /\ up /\ reload[j].at = "none"
      /\ \A n \in names : mods[n] < MaxLoads
      /\ mods' = m
      /\ UNCHANGED <<up, titled, disk>>
  BY DEF BeginLoad
<1>2. PICK last \in LastOnes(modFile, taken) :
      /\ made' = MadeFrom(modFile, last, new)
      /\ untold' = (untold \/ (~ok /\ added # {}))
      /\ \/ ~ok /\ UNCHANGED <<reload, lists, verified>>
         \/ ok /\ added # {} /\ reload' = [reload EXCEPT ![j] = next] /\ UNCHANGED <<lists, verified>>
         \/ ok /\ added = {} /\ UNCHANGED <<reload, lists, verified>>
         \/ ok /\ kind = "update" /\ added = {} /\ \E x \in s : GoOn(j, x, m, TRUE)
  BY DEF BeginLoad
<1>3. /\ up \in BOOLEAN /\ untold \in BOOLEAN /\ verified \in BOOLEAN
      /\ mods \in [ModName -> 0..MaxLoads] /\ made \in [Object -> Definition]
      /\ Parts(MadeOf(mods)) /\ Files
  BY TypeParts DEF ConfigInv
<1>4. taken \subseteq DOMAIN modFile /\ names \subseteq ModName
  BY <1>3, TakenIndices, NamesAtTyped DEF Files
<1>5. /\ m \in [ModName -> 0..MaxLoads]
      /\ \A x \in ModName : mods[x] <= m[x]
      /\ new \subseteq MadeOf(m)
      /\ \A r \in MadeOf(m) : r \in MadeOf(mods) \/ r \in new
  BY <1>1, <1>3, <1>4, RenewedType
<1>6. Parts(MadeOf(m))
  BY <1>3, <1>5, MadeGrows, PartsGrow
<1>6a. made' \in [Object -> Definition] /\ \A r \in MadeOf(mods) : made'[r] = made[r]
  <2>1. /\ made' \in [Object -> Definition]
        /\ \A r \in Object \ new : made'[r] = made[r]
    <3>1. modFile \in Seq(FileEntry) /\ taken \in SUBSET DOMAIN modFile
      BY <1>3, <1>4 DEF Files
    <3>2. last \in LastOnes(modFile, taken) /\ made' = MadeFrom(modFile, last, new)
      BY <1>2
    <3>3. m \in [ModName -> 0..MaxLoads] /\ made \in [Object -> Definition]
      BY <1>3, <1>5
    <3> HIDE DEF taken, m
    <3>4. /\ MadeFrom(modFile, last, new) \in [Object -> Definition]
          /\ \A r \in Object \ new : MadeFrom(modFile, last, new)[r] = made[r]
      BY <3>1, <3>2, <3>3, MadeFromType
    <3> QED
      BY <3>2, <3>4
  <2>2. \A r \in MadeOf(mods) : r \in Object \ new
    BY <1>3, <1>4, OldIsNotNew DEF MadeOf
  <2> QED
    BY <2>1, <2>2
<1>7. ok /\ kind = "update" => StartAccepts
  BY <1>3, SameFilesAccepted
<1>8. /\ ListsOver(MadeOf(m), lists')
      /\ reload' \in [Reload -> Held(MadeOf(m))]
      /\ verified' \in BOOLEAN /\ (verified' => verified \/ (DistinctNames(modFile) => Bootable))
      /\ \A k \in Reload : k # j => reload'[k] = reload[k]
      /\ reload'[j].at = "details" =>
            /\ reload'[j].added = added
            /\ reload'[j].kind = "update" => StartAccepts
      /\ added # {} /\ ~untold' => reload'[j].at = "details"
  <2>1. CASE ~ok /\ UNCHANGED <<reload, lists, verified>>
    BY <1>1, <1>2, <1>3, <1>6, <2>1 DEF Parts
  <2>2. CASE ok /\ added # {} /\ reload' = [reload EXCEPT ![j] = next] /\ UNCHANGED <<lists, verified>>
    <3>1. next \in Held(MadeOf(m))
      BY <1>5 DEF Held, Asked
    <3>2. /\ reload' \in [Reload -> Held(MadeOf(m))] /\ reload'[j] = next
          /\ \A k \in Reload : k # j => reload'[k] = reload[k]
      <4> HIDE DEF next, m
      <4> QED
        BY <1>6, <2>2, <3>1, HeldExcept DEF Parts
    <3> QED
      BY <1>3, <1>6, <1>7, <2>2, <3>2 DEF Parts
  <2>3. CASE ok /\ added = {} /\ UNCHANGED <<reload, lists, verified>>
    BY <1>1, <1>3, <1>6, <2>3 DEF Parts
  <2>4. CASE ok /\ kind = "update" /\ added = {} /\ \E x \in s : GoOn(j, x, m, TRUE)
    <3>1. PICK x \in Server : GoOn(j, x, m, TRUE)
      BY <2>4
    <3>2. TRUE => StartAccepts
      BY <1>7, <2>4
    <3>3. /\ ListsOver(MadeOf(m), lists')
          /\ reload' \in [Reload -> Held(MadeOf(m))]
          /\ reload'[j].at # "details"
          /\ \A k \in Reload : k # j => reload'[k] = reload[k]
          /\ verified' \in BOOLEAN /\ (verified' => verified \/ (DistinctNames(modFile) => Bootable))
      <4> HIDE DEF m
      <4> QED
        BY <1>3, <1>5, <1>6, <3>1, <3>2, GoOnParts
    <3> QED
      BY <2>4, <3>3
  <2> QED
    BY <1>2, <2>1, <2>2, <2>3, <2>4
<1>9. ConfigTypeOK'
  <2>1. Parts(MadeOf(mods))'
    BY <1>1, <1>6, <1>8 DEF Parts, MadeOf, ListsOver, Held
  <2>2. Files'
    BY <1>1, <1>3 DEF Files, disk
  <2>3. mods' \in [ModName -> 0..MaxLoads] /\ up' \in BOOLEAN /\ untold' \in BOOLEAN
    BY <1>1, <1>2, <1>3, <1>5
  <2> QED
    BY <1>6a, <1>8, <2>1, <2>2, <2>3, TypePartsPrimed
<1>10. Down'
  BY <1>1 DEF Down
<1>11. Told'
  <2> SUFFICES ASSUME ~untold', NEW r \in MadeOf(m)
               PROVE  r \in titled' \/ ~FromWorkshop(r)' \/ Awaited(r)'
    BY <1>1 DEF Told, MadeSoFar, MadeOf
  <2>1. CASE r \in MadeOf(mods)
    <3>1. r \in titled \/ ~FromWorkshop(r) \/ Awaited(r)
      BY <1>2, <2>1 DEF ConfigInv, Told, MadeSoFar, MadeOf
    <3>2. ~FromWorkshop(r) => ~FromWorkshop(r)'
      BY <1>6a, <2>1 DEF FromWorkshop
    <3>3. Awaited(r) => Awaited(r)'
      BY <1>1, <1>8 DEF Awaited
    <3> QED
      BY <1>1, <3>1, <3>2, <3>3
  <2>2. CASE r \in new
    <3>1. CASE r \in added
      <4>1. reload'[j].at = "details"
        BY <1>8, <3>1
      <4> QED
        BY <1>8, <3>1, <4>1 DEF Awaited
    <3>2. CASE r \notin added
      BY <2>2, <3>2 DEF Asked, FromWorkshop
    <3> QED
      BY <3>1, <3>2
  <2> QED
    BY <1>5, <2>1, <2>2
<1>12. CleanIsAccepted'
  BY <1>1, <1>8, FilesStay DEF ConfigInv, CleanIsAccepted
<1>13. ReloadedFilesBoot'
  BY <1>1, <1>8, FilesStay DEF ConfigInv, ReloadedFilesBoot
<1> QED
  BY <1>9, <1>10, <1>11, <1>12, <1>13 DEF ConfigInv

(* What the invariant says of a state, part by part. *)
LEMMA InvParts ==
    ASSUME ConfigInv
    PROVE  /\ up \in BOOLEAN /\ untold \in BOOLEAN /\ verified \in BOOLEAN
           /\ mods \in [ModName -> 0..MaxLoads] /\ made \in [Object -> Definition]
           /\ Parts(MadeOf(mods)) /\ Files
           /\ Down /\ Told /\ CleanIsAccepted /\ ReloadedFilesBoot
  BY TypeParts DEF ConfigInv

LEMMA DetailsInv ==
    ASSUME ConfigInv, NEW j \in Reload, Details(j)
    PROVE  ConfigInv'
<1> USE InvParts
<1>1. PICK found \in SUBSET reload[j].added :
         /\ titled' = titled \union found
         /\ untold' = (untold \/ found # reload[j].added)
  BY DEF Details, Entitled
<1>2. /\ reload[j].at = "details"
      /\ UNCHANGED <<up, mods, made, disk>>
  BY DEF Details
<1>3. found \subseteq MadeOf(mods)
  BY <1>1 DEF Parts, Held
<1>4. /\ ListsOver(MadeOf(mods), lists')
      /\ reload' \in [Reload -> Held(MadeOf(mods))]
      /\ reload'[j].at # "details"
      /\ \A k \in Reload : k # j => reload'[k] = reload[k]
      /\ verified' \in BOOLEAN /\ (verified' => verified \/ (DistinctNames(modFile) => Bootable))
  <2>1. CASE reload' = [reload EXCEPT ![j] = NoReload] /\ UNCHANGED <<lists, verified>>
    <3>1. /\ reload' \in [Reload -> Held(MadeOf(mods))]
          /\ reload'[j] = NoReload
          /\ \A k \in Reload : k # j => reload'[k] = reload[k]
      BY <2>1, NoReloadHeld, HeldExcept DEF Parts
    <3> QED
      BY <2>1, <3>1, NoReloadHeld DEF Parts
  <2>2. CASE reload[j].kind = "update" /\ \E s \in reload[j].server : GoOn(j, s, mods, reload[j].clean)
    <3>1. PICK s \in Server : GoOn(j, s, mods, reload[j].clean)
      BY <2>2 DEF Parts, Held
    <3>2. reload[j].clean \in BOOLEAN
      BY DEF Parts, Held
    <3>3. reload[j].clean => StartAccepts
      BY <1>2, <2>2 DEF CleanIsAccepted
    <3> QED
      BY <3>1, <3>2, <3>3, GoOnParts
  <2> QED
    BY <2>1, <2>2 DEF Details
<1>5. ConfigTypeOK'
  <2>1. Parts(MadeOf(mods))'
    BY <1>1, <1>2, <1>3, <1>4 DEF Parts, MadeOf, ListsOver, Held
  <2>2. Files' /\ mods' \in [ModName -> 0..MaxLoads] /\ made' \in [Object -> Definition] /\ up' \in BOOLEAN /\ untold' \in BOOLEAN
    BY <1>1, <1>2, FilesStay
  <2> QED
    BY <1>4, <2>1, <2>2, TypePartsPrimed
<1>6. Down'
  BY <1>2 DEF Down
<1>7. Told'
  <2> SUFFICES ASSUME ~untold', NEW r \in MadeOf(mods)
               PROVE  r \in titled' \/ ~FromWorkshop(r)' \/ Awaited(r)'
    BY <1>2 DEF Told, MadeSoFar, MadeOf
  <2>1. r \in titled \/ ~FromWorkshop(r) \/ Awaited(r)
    BY <1>1 DEF Told, MadeSoFar, MadeOf
  <2>2. CASE Awaited(r)
    <3>1. PICK k \in Reload : reload[k].at = "details" /\ r \in reload[k].added
      BY <2>2 DEF Awaited
    <3>2. CASE k = j
      BY <1>1, <3>1, <3>2
    <3>3. CASE k # j
      BY <1>4, <3>1, <3>3 DEF Awaited
    <3> QED
      BY <3>2, <3>3
  <2> QED
    BY <1>1, <1>2, <2>1, <2>2 DEF FromWorkshop
<1>8. CleanIsAccepted'
  BY <1>2, <1>4, FilesStay DEF CleanIsAccepted
<1>9. ReloadedFilesBoot'
  BY <1>2, <1>4, FilesStay DEF ReloadedFilesBoot
<1> QED
  BY <1>5, <1>6, <1>7, <1>8, <1>9 DEF ConfigInv

(* A request ends while the workshop is awaited. *)
LEMMA EndsInv ==
    ASSUME ConfigInv, NEW j \in Reload, WorkshopFails(j) \/ Check(j)
    PROVE  ConfigInv'
<1> USE InvParts
<1>1. /\ reload' = [reload EXCEPT ![j] = NoReload]
      /\ untold' = (untold \/ reload[j].at = "details")
      /\ UNCHANGED <<up, memory, disk, verified>>
  BY DEF WorkshopFails, Check
<1>2. /\ reload' \in [Reload -> Held(MadeOf(mods))]
      /\ reload'[j] = NoReload
      /\ \A k \in Reload : k # j => reload'[k] = reload[k]
  BY <1>1, NoReloadHeld, HeldExcept DEF Parts
<1>3. ConfigTypeOK'
  <2>1. Parts(MadeOf(mods))'
    BY <1>1, <1>2 DEF Parts, MadeOf, ListsOver, Held, memory
  <2>2. /\ Files' /\ mods' \in [ModName -> 0..MaxLoads] /\ up' \in BOOLEAN
        /\ made' \in [Object -> Definition] /\ untold' \in BOOLEAN /\ verified' \in BOOLEAN
    BY <1>1, FilesStay DEF memory
  <2> QED
    BY <2>1, <2>2, TypePartsPrimed
<1>4. Down'
  BY <1>1, <1>2, NoReloadHeld DEF Down, memory
<1>5. Told'
  <2> SUFFICES ASSUME ~untold', NEW r \in MadeOf(mods)
               PROVE  r \in titled' \/ ~FromWorkshop(r)' \/ Awaited(r)'
    BY <1>1 DEF Told, MadeSoFar, MadeOf, memory
  <2>1. r \in titled \/ ~FromWorkshop(r) \/ Awaited(r)
    BY <1>1 DEF Told, MadeSoFar, MadeOf
  <2> QED
    BY <1>1, <1>2, <2>1 DEF Awaited, FromWorkshop, memory
<1>6. CleanIsAccepted' /\ ReloadedFilesBoot'
  BY <1>1, <1>2, NoReloadHeld, FilesStay DEF CleanIsAccepted, ReloadedFilesBoot
<1> QED
  BY <1>3, <1>4, <1>5, <1>6 DEF ConfigInv

(* Modlists are read, added, or stay; requests and files stay. *)
LEMMA ListsChangeInv ==
    ASSUME ConfigInv, up, ListsOver(MadeOf(mods), lists'),
           UNCHANGED <<up, mods, titled, made, disk, reload, untold, verified>>
    PROVE  ConfigInv'
<1> USE InvParts
<1>1. Parts(MadeOf(mods))'
  BY DEF Parts, MadeOf, ListsOver, Held
<1>2. ConfigTypeOK'
  BY <1>1, FilesStay, TypePartsPrimed
<1>3. Down' /\ Told' /\ CleanIsAccepted' /\ ReloadedFilesBoot'
  BY FilesStay DEF Down, Told, MadeSoFar, Awaited, FromWorkshop, CleanIsAccepted, ReloadedFilesBoot
<1> QED
  BY <1>2, <1>3 DEF ConfigInv

LEMMA ReloadListsInv ==
    ASSUME ConfigInv, ReloadLists
    PROVE  ConfigInv'
<1>1. PICK S \in SUBSET DOMAIN listFile : ReadLists(S, mods) /\ lists' = WithLists(S, mods)
  BY DEF ReloadLists
<1>2. ListsOver(MadeOf(mods), lists')
  BY <1>1, InvParts, WithListsType DEF Parts, Files
<1> QED
  BY <1>2, ListsChangeInv DEF ReloadLists

LEMMA AddModlistInv ==
    ASSUME ConfigInv, NEW l \in ModlistName, NEW names \in SUBSET ModName, AddModlist(l, names)
    PROVE  ConfigInv'
<1>1. Objects(mods, names) \subseteq MadeOf(mods)
  BY InvParts, ObjectsMade DEF AddModlist
<1>2. ListsOver(MadeOf(mods), lists')
  BY <1>1, InvParts DEF Parts, ListsOver, AddModlist
<1> QED
  BY <1>2, ListsChangeInv DEF AddModlist

LEMMA AddModInv ==
    ASSUME ConfigInv, NEW n \in ModName, NEW def \in Addable, AddMod(n, def)
    PROVE  ConfigInv'
<1> USE InvParts
<1>1. /\ up /\ mods[n] = 0
      /\ mods' = [mods EXCEPT ![n] = 1]
      /\ made' = [made EXCEPT ![<<n, 1>>] = def]
      /\ UNCHANGED <<up, lists, titled, disk, reload, untold, verified>>
  BY DEF AddMod, Defined
<1>2. mods' \in [ModName -> 0..MaxLoads] /\ \A x \in ModName : mods[x] <= mods'[x]
  BY <1>1, ConfigBoundsAssumption
<1>3. MadeOf(mods) \subseteq MadeOf(mods') /\ Parts(MadeOf(mods'))
  <2>1. MadeOf(mods) \subseteq MadeOf(mods')
    BY <1>2, MadeGrows
  <2> QED
    BY <2>1, PartsGrow
<1>4. <<n, 1>> \in Object
  BY ConfigBoundsAssumption DEF Object
<1>5. \A r \in MadeOf(mods') : r \in MadeOf(mods) \/ r = <<n, 1>>
  <2> SUFFICES ASSUME NEW x \in ModName, NEW k \in 1..MaxLoads, k <= mods'[x]
               PROVE  k <= mods[x] \/ (x = n /\ k = 1)
    BY DEF MadeOf, Object
  <2> QED
    BY <1>1
<1>6. def \in Definition /\ def.filename = Unnamed
  BY DefinitionAssumption
<1>7. /\ made' \in [Object -> Definition]
      /\ made'[<<n, 1>>] = def
      /\ \A r \in Object : r # <<n, 1>> => made'[r] = made[r]
  BY <1>1, <1>4, <1>6
<1>8. ConfigTypeOK'
  <2>1. Parts(MadeOf(mods))'
    BY <1>1, <1>3 DEF Parts, MadeOf, ListsOver, Held
  <2> QED
    BY <1>1, <1>2, <1>7, <2>1, FilesStay, TypePartsPrimed
<1>9. Told'
  <2> SUFFICES ASSUME ~untold, NEW r \in MadeOf(mods')
               PROVE  r \in titled' \/ ~FromWorkshop(r)' \/ Awaited(r)'
    BY <1>1 DEF Told, MadeSoFar, MadeOf
  <2>1. CASE r = <<n, 1>>
    BY <1>6, <1>7, <2>1 DEF FromWorkshop
  <2>2. CASE r # <<n, 1>>
    <3>1. r \in titled \/ ~FromWorkshop(r) \/ Awaited(r)
      BY <1>5, <2>2 DEF Told, MadeSoFar, MadeOf
    <3>2. r \in Object
      BY DEF MadeOf
    <3> QED
      BY <1>1, <1>7, <2>2, <3>1, <3>2 DEF Awaited, FromWorkshop
  <2> QED
    BY <2>1, <2>2
<1>10. Down' /\ CleanIsAccepted' /\ ReloadedFilesBoot'
  BY <1>1, FilesStay DEF Down, CleanIsAccepted, ReloadedFilesBoot
<1> QED
  BY <1>8, <1>9, <1>10 DEF ConfigInv

(* Files are written: nothing that was verified or read counts any more.   *)
LEMMA WrittenInv ==
    ASSUME ConfigInv, Written, modFile' \in Seq(FileEntry), listFile' \in Directory,
           UNCHANGED <<up, memory, untold>>
    PROVE  ConfigInv'
<1> USE InvParts
<1>1. /\ writes < MaxWrites /\ writes' = writes + 1 /\ verified' = FALSE
      /\ reload' = [j \in Reload |-> [reload[j] EXCEPT !.clean = FALSE]]
      /\ UNCHANGED <<mods, lists, titled, made>>
  BY DEF Written, memory
<1>2. ASSUME NEW j \in Reload
      PROVE  /\ reload'[j] \in Held(MadeOf(mods)) /\ reload'[j].clean = FALSE
             /\ reload'[j].at = reload[j].at /\ reload'[j].added = reload[j].added
  <2>1. reload[j] \in Held(MadeOf(mods)) /\ reload'[j] = [reload[j] EXCEPT !.clean = FALSE]
    BY <1>1 DEF Parts
  <2> QED
    BY <2>1 DEF Held
<1>3. ConfigTypeOK'
  <2>1. reload' \in [Reload -> Held(MadeOf(mods))]
    BY <1>1, <1>2
  <2>2. Parts(MadeOf(mods))'
    BY <1>1, <2>1 DEF Parts, MadeOf, ListsOver, Held
  <2>3. Files'
    BY <1>1, ConfigBoundsAssumption DEF Files
  <2> QED
    BY <1>1, <2>2, <2>3, TypePartsPrimed
<1>4. Told'
  BY <1>1, <1>2 DEF Told, MadeSoFar, Awaited, FromWorkshop
<1>5. Down' /\ CleanIsAccepted' /\ ReloadedFilesBoot'
  BY <1>1, <1>2 DEF Down, CleanIsAccepted, ReloadedFilesBoot
<1> QED
  BY <1>3, <1>4, <1>5 DEF ConfigInv

LEMMA FlushModsInv ==
    ASSUME ConfigInv, FlushMods
    PROVE  ConfigInv'
<1> DEFINE entry == [key |-> CHOOSE k \in ModKey : TRUE, def |-> CHOOSE d \in Definition : TRUE, valid |-> FALSE]
<1>1. (CHOOSE k \in ModKey : TRUE) \in ModKey /\ (CHOOSE d \in Definition : TRUE) \in Definition
  BY NamesAssumption, DefinitionAssumption
<1>2. entry \in FileEntry
  BY <1>1 DEF FileEntry
<1> HIDE DEF entry
<1>3. modFile' = <<entry>> /\ listFile' = listFile
  BY DEF FlushMods, Spoiled, entry
<1>4. modFile' \in Seq(FileEntry) /\ listFile' \in Directory
  BY <1>2, <1>3, InvParts DEF Files
<1> QED
  BY <1>4, WrittenInv DEF FlushMods

(* What is written into a modlist's file may stand there. *)
LEMMA NamedLine ==
    ASSUME NEW r \in Object, made \in [Object -> Definition]
    PROVE  Named(r) \in Line
<1>1. r[1] \in Line
  BY NamesAssumption DEF Object
<1>2. Title[made[r].id] \in Line
  <2>1. made[r] \in Definition
    OBVIOUS
  <2> QED
    BY <2>1, NamesAssumption DEF Definition
<1> QED
  BY <1>1, <1>2 DEF Named

LEMMA FlushListsInv ==
    ASSUME ConfigInv, FlushLists
    PROVE  ConfigInv'
<1>1. \A l \in DOMAIN lists : {Named(r) : r \in lists[l]} \subseteq Line
  BY InvParts, NamedLine DEF Parts, ListsOver, MadeOf
<1>2. DOMAIN lists \subseteq ModlistName
  BY InvParts DEF Parts, ListsOver
<1>3. DOMAIN listFile \subseteq ModlistName /\ \A l \in DOMAIN listFile : listFile[l] \subseteq Line
  BY InvParts DEF Files, Directory
<1>4. listFile' \in [DOMAIN listFile \union DOMAIN lists -> SUBSET Line]
  BY <1>1, <1>3 DEF FlushLists
<1>5. modFile' \in Seq(FileEntry) /\ listFile' \in Directory
  BY <1>2, <1>3, <1>4, InvParts DEF FlushLists, Files, Directory
<1> QED
  BY <1>5, WrittenInv DEF FlushLists

LEMMA EditInv ==
    ASSUME ConfigInv, Edit
    PROVE  ConfigInv'
<1>1. modFile' \in Seq(FileEntry) /\ listFile' \in Directory
  BY InvParts, FilesAssumption DEF Edit, Files, Directory
<1> QED
  BY <1>1, WrittenInv DEF Edit

LEMMA BootInv ==
    ASSUME ConfigInv, Boot
    PROVE  ConfigInv'
<1> USE InvParts
<1> DEFINE names == NamesIn(modFile)
           m == Renewed(NoMods, names)
           all == Objects(m, names)
           added == Asked(all, made')
<1>1. /\ ~up /\ Bootable /\ up' = TRUE /\ verified' = TRUE
      /\ UNCHANGED <<disk, reload>>
  BY DEF Boot
<1>1a. PICK last \in LastOnes(modFile, DOMAIN modFile) :
      /\ mods' = m /\ made' = MadeFrom(modFile, last, all)
      /\ lists' = [l \in DOMAIN listFile |-> Objects(m, listFile[l])]
      /\ titled' \subseteq added /\ untold' = (titled' # added)
  BY DEF Boot
<1>2. names \subseteq ModName
  BY NamesAtTyped DEF NamesIn, Files
<1>3. NoMods \in [ModName -> 0..MaxLoads] /\ (\A n \in names : NoMods[n] < MaxLoads) /\ Defined(NoMods) = {}
  BY <1>2, ConfigBoundsAssumption DEF NoMods, Defined
<1>4. /\ m \in [ModName -> 0..MaxLoads]
      /\ Defined(m) = names
      /\ all \subseteq MadeOf(m)
      /\ \A r \in MadeOf(m) : r \in MadeOf(NoMods) \/ r \in all
  <2> HIDE DEF names
  <2>1. names \in SUBSET ModName
    BY <1>2
  <2>2. /\ m \in [ModName -> 0..MaxLoads]
        /\ Defined(m) = Defined(NoMods) \union names
        /\ all \subseteq MadeOf(m)
        /\ \A r \in MadeOf(m) : r \in MadeOf(NoMods) \/ r \in all
    BY ONLY <1>3, <2>1, RenewedType
  <2> QED
    BY <1>3, <2>2
<1>5. MadeOf(NoMods) = {}
  BY <1>3, ConfigBoundsAssumption DEF MadeOf, NoMods, Object
<1>6. ListsOver(MadeOf(m), lists')
  <2>1. DOMAIN listFile \subseteq ModlistName
    BY DEF Files, Directory
  <2>2. \A l \in DOMAIN listFile : listFile[l] \subseteq Defined(m)
    BY <1>1, <1>4 DEF Bootable
  <2>3. \A l \in DOMAIN listFile : Objects(m, listFile[l]) \subseteq MadeOf(m)
    BY <1>4, <2>2, ObjectsMade
  <2> QED
    BY <1>1a, <2>1, <2>3 DEF ListsOver
<1>7. Parts(MadeOf(m))
  <2>1. mods = NoMods
    BY <1>1 DEF Down
  <2> QED
    BY <1>5, <2>1, PartsGrow
<1>8. made' \in [Object -> Definition]
  <2>1. NamesIn(modFile) = NamesAt(modFile, DOMAIN modFile)
    BY DEF NamesIn
  <2> HIDE DEF m
  <2> QED
    BY <1>1a, <1>4, <2>1, MadeFromType DEF Files
<1>9. ConfigTypeOK'
  <2>1. titled' \subseteq MadeOf(m) /\ untold' \in BOOLEAN
    BY <1>1a, <1>4 DEF Asked
  <2>2. Parts(MadeOf(mods))'
    BY <1>1, <1>1a, <1>6, <1>7, <2>1 DEF Parts, MadeOf, ListsOver, Held
  <2> QED
    BY <1>1, <1>1a, <1>4, <1>8, <2>1, <2>2, FilesStay, TypePartsPrimed
<1>10. Told'
  <2> SUFFICES ASSUME ~untold', NEW r \in MadeOf(m)
               PROVE  r \in titled' \/ ~FromWorkshop(r)'
    BY <1>1a DEF Told, MadeSoFar, MadeOf
  <2>1. r \in all /\ titled' = added
    BY <1>1a, <1>4, <1>5
  <2> QED
    BY <2>1 DEF Asked, FromWorkshop
<1>11. Down' /\ CleanIsAccepted' /\ ReloadedFilesBoot'
  BY <1>1, FilesStay DEF Down, CleanIsAccepted, ReloadedFilesBoot
<1> QED
  BY <1>9, <1>10, <1>11 DEF ConfigInv

(* Nothing was made before anything was loaded. *)
LEMMA NothingMade == MadeOf(NoMods) = {}
  BY ConfigBoundsAssumption DEF MadeOf, NoMods, Object

LEMMA UnmadeTyped == Unmade \in [Object -> Definition]
  BY DefinitionAssumption DEF Unmade

LEMMA StopInv ==
    ASSUME ConfigInv, Stop
    PROVE  ConfigInv'
<1> USE InvParts
<1>1. /\ up' = FALSE /\ mods' = NoMods /\ lists' = << >> /\ titled' = {} /\ made' = Unmade
      /\ reload' = [j \in Reload |-> NoReload] /\ untold' = FALSE
      /\ UNCHANGED <<disk, verified>>
  BY DEF Stop
<1>2. ConfigTypeOK'
  <2>1. Parts(MadeOf(mods))'
    <3>1. ListsOver(MadeOf(mods'), lists') /\ titled' \subseteq MadeOf(mods')
      BY <1>1 DEF ListsOver
    <3>2. reload' \in [Reload -> Held(MadeOf(mods'))]
      BY <1>1, NoReloadHeld
    <3> QED
      BY <3>1, <3>2 DEF Parts, MadeOf, ListsOver, Held
  <2>2. mods' \in [ModName -> 0..MaxLoads]
    BY <1>1, ConfigBoundsAssumption DEF NoMods
  <2> QED
    BY <1>1, <2>1, <2>2, UnmadeTyped, FilesStay, TypePartsPrimed
<1>3. Told'
  BY <1>1, NothingMade DEF Told, MadeSoFar, MadeOf
<1>4. Down' /\ CleanIsAccepted' /\ ReloadedFilesBoot'
  BY <1>1, NoReloadHeld, FilesStay DEF Down, CleanIsAccepted, ReloadedFilesBoot
<1> QED
  BY <1>2, <1>3, <1>4 DEF ConfigInv

LEMMA ConfigInitInv == ConfigInit => ConfigInv
<1> SUFFICES ASSUME ConfigInit PROVE ConfigInv
  OBVIOUS
<1>1. /\ up = FALSE /\ mods = NoMods /\ lists = << >> /\ titled = {} /\ made = Unmade
      /\ reload = [j \in Reload |-> NoReload]
      /\ writes = 0 /\ untold = FALSE /\ verified = FALSE
      /\ modFile \in Seq(FileEntry) /\ listFile \in Directory
  BY FilesAssumption DEF ConfigInit, Directory
<1>2. mods \in [ModName -> 0..MaxLoads] /\ Files
  BY <1>1, ConfigBoundsAssumption DEF NoMods, Files
<1>3. Parts(MadeOf(mods))
  BY <1>1, NoReloadHeld DEF Parts, ListsOver
<1>4. ConfigTypeOK
  BY <1>1, <1>2, <1>3, UnmadeTyped, TypeParts
<1>5. Told
  BY <1>1, NothingMade DEF Told, MadeSoFar, MadeOf
<1>6. Down /\ CleanIsAccepted /\ ReloadedFilesBoot
  BY <1>1, NoReloadHeld DEF Down, CleanIsAccepted, ReloadedFilesBoot
<1> QED
  BY <1>4, <1>5, <1>6 DEF ConfigInv

(* The invariant is inductive: one case per action. *)
LEMMA ConfigInvStep == ConfigInv /\ [ConfigNext]_configVars => ConfigInv'
<1> SUFFICES ASSUME ConfigInv, [ConfigNext]_configVars
             PROVE  ConfigInv'
  OBVIOUS
<1>1. CASE UpdateServerMods
  <2>1. PICK j \in Reload, s \in Server : BeginLoad(j, "update", {s}, TRUE)
    BY <1>1 DEF UpdateServerMods, BeginUpdate
  <2>2. {s} \in SUBSET Server
    OBVIOUS
  <2> QED
    BY <2>1, <2>2, BeginLoadInv
<1>2. CASE ReloadRequest
  <2>1. CASE ReloadLists
    BY <2>1, ReloadListsInv
  <2>2. CASE \E j \in Reload : BeginReload(j)
    <3>1. PICK j \in Reload : BeginLoad(j, "reload", {}, FALSE)
      BY <2>2 DEF BeginReload
    <3>2. {} \in SUBSET Server
      OBVIOUS
    <3> QED
      BY <3>1, <3>2, BeginLoadInv
  <2> QED
    BY <1>2, <2>1, <2>2 DEF ReloadRequest
<1>3. CASE FlushRequest
  BY <1>3, FlushModsInv, FlushListsInv DEF FlushRequest
<1>4. CASE AddRequest
  BY <1>4, AddModInv, AddModlistInv DEF AddRequest
<1>5. CASE \E j \in Reload : Details(j) \/ WorkshopFails(j) \/ Check(j)
  BY <1>5, DetailsInv, EndsInv
<1>6. CASE Edit
  BY <1>6, EditInv
<1>7. CASE Boot
  BY <1>7, BootInv
<1>8. CASE Stop
  BY <1>8, StopInv
<1>9. CASE UNCHANGED configVars
  <2>1. UNCHANGED <<up, mods, lists, titled, made, modFile, listFile, reload, writes, untold, verified>>
    BY <1>9 DEF configVars
  <2>2. ConfigTypeOK'
    BY <2>1 DEF ConfigInv, ConfigTypeOK, MadeSoFar
  <2>3. Down' /\ Told' /\ CleanIsAccepted' /\ ReloadedFilesBoot'
    BY <2>1, FilesStay DEF ConfigInv, Down, Told, MadeSoFar, Awaited, FromWorkshop, CleanIsAccepted,
                           ReloadedFilesBoot, disk
  <2> QED
    BY <2>2, <2>3 DEF ConfigInv
<1> QED
  BY <1>1, <1>2, <1>3, <1>4, <1>5, <1>6, <1>7, <1>8, <1>9 DEF ConfigNext

-----------------------------------------------------------------------------
(* Theorems *)

(* The inductive invariant holds of every behaviour: what is held are      *)
(* objects that were made, a stopped backend holds nothing, every object   *)
(* without its title is accounted for, and the file a clean update has     *)
(* read is one a start accepts.                                            *)
THEOREM ConfigInvariant == ConfigSpec => []ConfigInv
  BY ConfigInitInv, ConfigInvStep, PTL DEF ConfigSpec

(* Every variable has its type: loads that overlap, writes and stops never *)
(* leave a modlist or a request with an object that was not made.          *)
THEOREM ConfigTypeCorrect == ConfigSpec => []ConfigTypeOK
<1>1. ConfigInv => ConfigTypeOK
  BY DEF ConfigInv
<1> QED
  BY <1>1, ConfigInvariant, PTL

(* Files a running backend loaded, and that define every mod it has, are   *)
(* accepted by its next start, if no two of their keys become one name:    *)
(* but for that update_server_mods and State.__init__ refuse the same      *)
(* files.                                                                  *)
THEOREM ReloadedFilesBootCorrect == ConfigSpec => []ReloadedFilesBoot
<1>1. ConfigInv => ReloadedFilesBoot
  BY DEF ConfigInv
<1> QED
  BY <1>1, ConfigInvariant, PTL

(* An update finds every server that has one of its mods under an equal    *)
(* definition, as long as the workshop told every title and no load waits  *)
(* for it: has_mods_from compares objects field by field, and these all    *)
(* have their title.                                                       *)
THEOREM AffectedAreFoundCorrect == ConfigSpec => []AffectedAreFound
<1>1. ConfigInv => AffectedAreFound
  <2> SUFFICES ASSUME ConfigInv, ~untold,
                      NEW j \in Reload, NEW r \in reload[j].asked, NEW s \in Server,
                      FromWorkshop(r), ~Awaited(r),
                      NEW q \in MadeSoFar, HasMod(s, q), made[q] = made[r], ~Awaited(q)
               PROVE  s \in Affected(r)
    BY DEF AffectedAreFound
  <2>1. r \in MadeSoFar
    BY DEF ConfigInv, ConfigTypeOK
  <2>2. FromWorkshop(q)
    BY DEF FromWorkshop
  <2>3. q \in titled /\ r \in titled
    BY <2>1, <2>2 DEF ConfigInv, Told
  <2>4. SameMod(q, r)
    BY <2>3 DEF SameMod, Named
  <2> QED
    BY <2>4 DEF Affected
<1> QED
  BY <1>1, ConfigInvariant, PTL

(* A modlist's contents for a request: names of objects that were made are *)
(* defined.                                                                *)
LEMMA MadeIsDefined ==
    ASSUME NEW m \in [ModName -> 0..MaxLoads], NEW r \in MadeOf(m)
    PROVE  r[1] \in Defined(m)
  BY ConfigBoundsAssumption DEF MadeOf, Object, Defined

(* What is defined stays defined when more is loaded. *)
LEMMA DefinedGrows ==
    ASSUME NEW m \in [ModName -> 0..MaxLoads], NEW n \in [ModName -> 0..MaxLoads],
           \A x \in ModName : m[x] <= n[x]
    PROVE  Defined(m) \subseteq Defined(n) /\ Defined(n) \subseteq ModName
  BY ConfigBoundsAssumption DEF Defined

(* What the registry sees of a modlist: the names of its mods. *)
NamesOf(L) == [l \in DOMAIN L |-> {r[1] : r \in L[l]}]

(* A step that only adds objects, and lists over what is known or keeps    *)
(* them, is a Change of the registry.                                      *)
LEMMA ChangesRegistry ==
    ASSUME mods \in [ModName -> 0..MaxLoads], mods' \in [ModName -> 0..MaxLoads],
           \A x \in ModName : mods[x] <= mods'[x],
           DOMAIN lists \subseteq DOMAIN lists', ListsOver(MadeOf(mods'), lists')
    PROVE  Registry!Change
<1>1. Defined(mods) \subseteq Defined(mods') /\ Defined(mods') \subseteq ModName
  BY DefinedGrows
<1>2. \A l \in DOMAIN lists' : {r[1] : r \in lists'[l]} \subseteq Defined(mods')
  BY MadeIsDefined DEF ListsOver
<1>3. /\ Defined(mods)' = Defined(mods')
      /\ NamesOf(lists)' = NamesOf(lists')
  BY DEF Defined, NamesOf
<1>4. DOMAIN NamesOf(lists) \subseteq DOMAIN NamesOf(lists')
      /\ DOMAIN NamesOf(lists') \subseteq ModlistName
  BY DEF NamesOf, ListsOver
<1>5. \A l \in DOMAIN NamesOf(lists') : NamesOf(lists')[l] \subseteq Defined(mods')
  BY <1>2 DEF NamesOf
<1> QED
  BY <1>1, <1>3, <1>4, <1>5 DEF Registry!Change, Registry!OnlyKnown, NamesOf

(* Loading modlists keeps those there are. *)
LEMMA GoOnKeepsLists ==
    ASSUME NEW j, NEW s, NEW m, NEW clean, GoOn(j, s, m, clean)
    PROVE  DOMAIN lists \subseteq DOMAIN lists'
  BY DEF GoOn, WithLists

(* Every step of a running backend adds; a stop forgets. *)
LEMMA StepImplements ==
    ASSUME ConfigInv, ConfigInv', [ConfigNext]_configVars
    PROVE  [Registry!RegistryNext]_(Registry!registry)
<1>1. /\ mods \in [ModName -> 0..MaxLoads] /\ mods' \in [ModName -> 0..MaxLoads]
      /\ ListsOver(MadeOf(mods'), lists')
  BY DEF ConfigInv, ConfigTypeOK, MadeSoFar, MadeOf, ListsOver
<1>2. CASE Stop
  BY <1>2 DEF Stop, Registry!RegistryNext, Registry!Forget, Defined, NoMods
<1>3. ASSUME \A x \in ModName : mods[x] <= mods'[x], DOMAIN lists \subseteq DOMAIN lists'
      PROVE  Registry!Change
  BY <1>1, <1>3, ChangesRegistry
<1>4. ASSUME UNCHANGED mods, DOMAIN lists \subseteq DOMAIN lists'
      PROVE  Registry!Change
  BY <1>1, <1>3, <1>4, ConfigBoundsAssumption
<1>5. CASE \E j \in Reload : \E kind, s, again : BeginLoad(j, kind, s, again)
  <2>1. PICK j \in Reload : \E kind, s, again : BeginLoad(j, kind, s, again)
    BY <1>5
  <2> PICK kind, s, again : BeginLoad(j, kind, s, again)
    BY <2>1
  <2>2. mods' = Renewed(mods, NamesAt(modFile, Taken(modFile, mods, again)))
    BY DEF BeginLoad
  <2>3. \A x \in ModName : mods[x] <= mods'[x]
    BY <1>1, <2>2, ConfigBoundsAssumption DEF Renewed
  <2>4. DOMAIN lists \subseteq DOMAIN lists'
    BY GoOnKeepsLists DEF BeginLoad
  <2> QED
    BY <1>3, <2>3, <2>4 DEF Registry!RegistryNext
<1>6. CASE ReloadLists \/ \E l \in ModlistName, names \in SUBSET ModName : AddModlist(l, names)
  BY <1>4, <1>6 DEF ReloadLists, AddModlist, WithLists, Registry!RegistryNext
<1>7. CASE \E n \in ModName, def \in Addable : AddMod(n, def)
  <2>1. \A x \in ModName : mods[x] <= mods'[x]
    BY <1>1, <1>7, ConfigBoundsAssumption DEF AddMod, Defined
  <2> QED
    BY <1>3, <1>7, <2>1 DEF AddMod, Registry!RegistryNext
<1>8. CASE \E j \in Reload : Details(j)
  BY <1>4, <1>8, GoOnKeepsLists DEF Details, Registry!RegistryNext
<1>9. CASE FlushRequest \/ Edit \/ \E j \in Reload : WorkshopFails(j) \/ Check(j)
  BY <1>4, <1>9 DEF FlushRequest, FlushMods, FlushLists, Edit, WorkshopFails, Check, memory,
                    Registry!RegistryNext
<1>10. CASE Boot
  <2>1. mods = NoMods /\ lists = << >>
    BY <1>10 DEF Boot, ConfigInv, Down
  <2> QED
    BY <1>1, <1>3, <2>1, ConfigBoundsAssumption DEF NoMods, Registry!RegistryNext
<1>11. CASE UNCHANGED configVars
  BY <1>4, <1>11 DEF configVars, Registry!RegistryNext
<1> QED
  BY <1>2, <1>5, <1>6, <1>7, <1>8, <1>9, <1>10, <1>11
     DEF ConfigNext, UpdateServerMods, BeginUpdate, ReloadRequest, BeginReload, AddRequest

(* The maps of mods and modlists implement the registry: under any         *)
(* interleaving of loads, reloads, additions, flushes and edits, no name   *)
(* and no modlist of a running backend is lost, and every modlist names    *)
(* mods that are defined.                                                  *)
THEOREM ImplementsRegistryCorrect == ConfigSpec => ImplementsRegistry
<1>1. ConfigInit => Registry!RegistryInit
  BY DEF ConfigInit, Registry!RegistryInit, Defined, NoMods
<1>2. ConfigInv /\ ConfigInv' /\ [ConfigNext]_configVars => [Registry!RegistryNext]_(Registry!registry)
  BY StepImplements
<1> QED
  BY <1>1, <1>2, ConfigInvariant, PTL DEF ConfigSpec, ImplementsRegistry, Registry!RegistrySpec
=============================================================================
