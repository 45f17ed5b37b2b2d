----------------------------- MODULE ModConfig -----------------------------
(***************************************************************************)
(* The configuration of mods and modlists: the global maps MODS and        *)
(* MODLISTS (bw/server_ops/arma/mod.py), the files they are loaded from    *)
(* and flushed to, and the requests that change them                       *)
(* (bw/server_ops/arma/api.py).                                            *)
(*                                                                         *)
(* Loading mods awaits the Steam workshop, which supplies their titles, so *)
(* loads of several requests overlap.  A Mod object is shared by the maps  *)
(* and named in place: an object is its key in MODS and which load made it *)
(* from which definition.  Modlists hold the objects, not the keys, and    *)
(* update_mods finds the servers to stop by comparing objects field by     *)
(* field.                                                                  *)
(***************************************************************************)
EXTENDS Integers, Sequences, FiniteSets

CONSTANTS
    ModName,        \* keys of MODS
    ModlistName,    \* keys of MODLISTS
    Server,         \* the configured servers
    ServerList,     \* per server: the name of its modlist
    ModKey,         \* keys of the tables in the mods file
    NameOf,         \* per key: the name it is turned into (dashes become spaces)
    WorkshopId,     \* numbers of mods on the workshop
    Filename,       \* filenames of mods
    Unnamed,        \* the filename of a mod made by add_mod
    Place,          \* directories and kinds of mods
    Addable,        \* definitions that add_mod is asked to make
    Line,           \* what may stand on a line of a modlist file
    Title,          \* per workshop id: the title that is its name on the workshop
    ModFiles,       \* contents of the mods file: sequences of entries
    ListFiles,      \* contents of the directory of modlists
    Reload,         \* reload and update requests that may run at the same time
    ConfigFaults,   \* subset of {"workshop", "details", "stop"}
    MaxLoads,       \* bound: how often one mod is loaded in one process
    MaxWrites       \* bound: writes to the files

ASSUME ServerListAssumption == ServerList \in [Server -> ModlistName]

(* What a mod is defined to be: every field of a Mod but its name.         *)
Definition == [id : WorkshopId, filename : Filename, place : Place, manual : BOOLEAN]
FileEntry == [key : ModKey, def : Definition, valid : BOOLEAN]

ASSUME NamesAssumption == /\ ModKey # {} /\ NameOf \in [ModKey -> ModName]
                          /\ ModName \subseteq Line
                          /\ Title \in [WorkshopId -> Line]
ASSUME DefinitionAssumption == /\ Definition # {}
                               /\ Addable \subseteq {d \in Definition : d.filename = Unnamed}
ASSUME FilesAssumption == /\ ModFiles \subseteq Seq(FileEntry)
                          /\ ListFiles \subseteq UNION {[S -> SUBSET Line] : S \in SUBSET ModlistName}
ASSUME ConfigBoundsAssumption == MaxLoads \in Nat \ {0} /\ MaxWrites \in Nat
ASSUME ConfigFaultsAssumption == ConfigFaults \subseteq {"workshop", "details", "stop"}

VARIABLES
    up,             \* whether the backend runs
    mods,           \* MODS: per key which of its objects is current, 0 if undefined
    lists,          \* MODLISTS: per modlist that exists its set of Mod objects
    titled,         \* objects whose name is their title
    made,           \* per object: the definition it was made from
    modFile,        \* the mods file
    listFile,       \* the modlist files that exist, with their lines
    reload,         \* per request: the await it is suspended in
    writes,         \* writes to the files so far
    untold,         \* history: a load of this process did not learn all its titles
    verified        \* history: the files were loaded as they are and define all mods

configVars == <<up, mods, lists, titled, made, modFile, listFile, reload, writes, untold, verified>>
memory == <<mods, lists, titled, made>>
disk == <<modFile, listFile, writes>>

Object == ModName \X (1..MaxLoads)

(* kind: the request; added: the objects whose details are fetched; asked: *)
(* the modlist an update works on; clean: no file was written meanwhile.   *)
NoReload == [at |-> "none", kind |-> "reload", server |-> {}, added |-> {}, asked |-> {}, clean |-> TRUE]

NoMods == [n \in ModName |-> 0]
Defined(m) == {n \in ModName : m[n] # 0}
Objects(m, names) == {<<n, m[n]>> : n \in names}
Current(m) == Objects(m, Defined(m))

Name(file, k) == NameOf[file[k].key]
NamesAt(file, S) == {Name(file, k) : k \in S}
NamesIn(file) == NamesAt(file, DOMAIN file)

Unmade == [r \in Object |-> CHOOSE d \in Definition : TRUE]

ConfigInit ==
    /\ up = FALSE
    /\ mods = NoMods /\ lists = << >>
    /\ titled = {} /\ made = Unmade
    /\ modFile \in ModFiles /\ listFile \in ListFiles
    /\ reload = [j \in Reload |-> NoReload]
    /\ writes = 0
    /\ untold = FALSE /\ verified = FALSE

-----------------------------------------------------------------------------
(* load_mod_configs *)

(* The k-th entry has what no two mods may share: a workshop_id or a       *)
(* filename of one of these definitions.                                   *)
Clashes(file, k, defs) ==
    \E d \in defs : d.id = file[k].def.id \/ d.filename = file[k].def.filename

Before(file, k) == {file[i].def : i \in 1..(k - 1)}

(* Faulty variant: what this file repeats is only looked for by a load     *)
(* into maps that may not have the mods already.                           *)
RefusesDefined(file, k, m, again) ==
    \/ ~file[k].valid
    \/ /\ ~again
       /\ \/ Name(file, k) \in Defined(m) \union NamesAt(file, 1..(k - 1))
          \/ Clashes(file, k, Before(file, k) \union {made[r] : r \in Current(m)})

(* The k-th entry raises: a field is missing or wrong, an earlier entry of *)
(* the file has its id or filename, or, unless defined mods may be loaded  *)
(* again, its name, id or filename is in MODS.  The entries before it are  *)
(* in MODS by then, so that two keys may not be turned into one name.      *)
Refuses(file, k, m, again) ==
    \/ ~file[k].valid
    \/ Clashes(file, k, Before(file, k))
    \/ /\ ~again
       /\ \/ Name(file, k) \in Defined(m) \union NamesAt(file, 1..(k - 1))
          \/ Clashes(file, k, {made[r] : r \in Current(m)})

(* The entries before the first that raises are in MODS by then.           *)
Taken(file, m, again) == {k \in DOMAIN file : \A h \in 1..k : ~Refuses(file, h, m, again)}

Accepts(file, m, again) == \A k \in DOMAIN file : ~Refuses(file, k, m, again)

Renewed(m, names) == [n \in ModName |-> IF n \in names THEN m[n] + 1 ELSE m[n]]

(* Of entries with one name the last is in MODS, and nothing holds the     *)
(* objects of the others.                                                  *)
LastOnes(file, taken) ==
    {last \in [NamesAt(file, taken) -> taken] :
        \A n \in DOMAIN last : /\ Name(file, last[n]) = n
                               /\ \A k \in taken : Name(file, k) = n => k <= last[n]}

MadeFrom(file, last, new) ==
    [r \in Object |-> IF r \in new THEN file[last[r[1]]].def ELSE made[r]]

(* The workshop is asked for the details of mods it installs, when a file  *)
(* defines them: what add_mod makes is never given a title.                *)
FromWorkshop(r) == ~made[r].manual /\ made[r].filename # Unnamed
Asked(new, defs) == {r \in new : ~defs[r].manual}

-----------------------------------------------------------------------------
(* load_modlists *)

(* A line names a mod that is not defined: ModNotDefined. *)
BadLists(m) == {l \in DOMAIN listFile : ~(listFile[l] \subseteq Defined(m))}

(* Faulty variant: MODLISTS is emptied first. *)
AfterListsCleared(S, m) == [l \in S |-> Objects(m, listFile[l])]

WithLists(S, m) ==
    [l \in DOMAIN lists \union S |-> IF l \in S THEN Objects(m, listFile[l]) ELSE lists[l]]

(* Files are read in any order up to the first with a bad line; modlists   *)
(* without a file stay as they are.                                        *)
ReadLists(S, m) ==
    IF BadLists(m) = {} THEN S = DOMAIN listFile
    ELSE S \subseteq DOMAIN listFile \ BadLists(m)

(* The rest of update_server_mods after its mods were loaded: modlists,    *)
(* then the modlist of the server is given to update_mods.                 *)
GoOn(j, s, m, clean) ==
    \E S \in SUBSET DOMAIN listFile :
        /\ ReadLists(S, m)
        /\ lists' = WithLists(S, m)
        /\ verified' = (verified \/ /\ BadLists(m) = {} /\ clean
                                    /\ Defined(m) \subseteq NamesIn(modFile))
        /\ reload' = [reload EXCEPT ![j] =
              IF BadLists(m) = {} /\ ServerList[s] \in DOMAIN WithLists(S, m)
              THEN [NoReload EXCEPT !.at = "check", !.asked = WithLists(S, m)[ServerList[s]]]
              ELSE NoReload]

-----------------------------------------------------------------------------
(* Requests that load *)

(* Both requests load the mods first; what was taken before an entry       *)
(* raises stays, and is never given its title.                             *)
BeginLoad(j, kind, s, again) ==
    LET taken == Taken(modFile, mods, again)
        names == NamesAt(modFile, taken)
        m == Renewed(mods, names)
        new == Objects(m, names)
        ok == Accepts(modFile, mods, again)
    IN  /\ up /\ reload[j].at = "none"
        /\ \A n \in names : mods[n] < MaxLoads
        /\ mods' = m
        /\ \E last \in LastOnes(modFile, taken) :
              LET defs == MadeFrom(modFile, last, new)
                  added == Asked(new, defs)
              IN  /\ made' = defs
                  /\ untold' = (untold \/ (~ok /\ added # {}))
                  /\ \/ /\ ~ok
                        /\ UNCHANGED <<reload, lists, verified>>
                     \/ /\ ok /\ added # {}
                        /\ reload' = [reload EXCEPT ![j] =
                              [at |-> "details", kind |-> kind, server |-> s,
                               added |-> added, asked |-> {}, clean |-> TRUE]]
                        /\ UNCHANGED <<lists, verified>>
                     \/ /\ ok /\ added = {} /\ kind = "reload"
                        /\ UNCHANGED <<reload, lists, verified>>
                     \/ /\ ok /\ added = {} /\ kind = "update"
                        /\ \E x \in s : GoOn(j, x, m, TRUE)
        /\ UNCHANGED <<up, titled, disk>>

(* reload_mod_configuration: MODS may not have the mods already. *)
BeginReload(j) == BeginLoad(j, "reload", {}, FALSE)

(* update_server_mods: defined mods are replaced by new objects. *)
BeginUpdate(j, s) == BeginLoad(j, "update", {s}, TRUE)

(* Faulty variant: a mod that has a record is not given its title again. *)
EntitledOnce(added, found) ==
    titled \union {r \in found : \A q \in titled : made[q].id # made[r].id}

(* The workshop answers: the objects it knows get their title.  A status   *)
(* other than 200 is an empty answer.                                      *)
Entitled(added, found) == titled \union found

Details(j) ==
    /\ reload[j].at = "details"
    /\ \E found \in IF "details" \in ConfigFaults THEN SUBSET reload[j].added ELSE {reload[j].added} :
          /\ titled' = Entitled(reload[j].added, found)
          /\ untold' = (untold \/ found # reload[j].added)
    /\ \/ /\ reload[j].kind = "reload"
          /\ reload' = [reload EXCEPT ![j] = NoReload]
          /\ UNCHANGED <<lists, verified>>
       \/ /\ reload[j].kind = "update"
          /\ \E s \in reload[j].server : GoOn(j, s, mods, reload[j].clean)
    /\ UNCHANGED <<up, mods, made, disk>>

(* The workshop cannot be reached: the error ends the request. *)
WorkshopFails(j) ==
    /\ "workshop" \in ConfigFaults
    /\ reload[j].at # "none"
    /\ untold' = (untold \/ reload[j].at = "details")
    /\ reload' = [reload EXCEPT ![j] = NoReload]
    /\ UNCHANGED <<up, memory, disk, verified>>

(* The workshop tells which mods are out of date; ServerUpdate goes on.    *)
Check(j) ==
    /\ reload[j].at = "check"
    /\ reload' = [reload EXCEPT ![j] = NoReload]
    /\ UNCHANGED <<up, memory, disk, untold, verified>>

(* reload_modlist_configuration *)
ReloadLists ==
    /\ up
    /\ \E S \in SUBSET DOMAIN listFile : ReadLists(S, mods) /\ lists' = WithLists(S, mods)
    /\ UNCHANGED <<up, mods, titled, made, disk, reload, untold, verified>>

-----------------------------------------------------------------------------
(* Requests that add and flush *)

AddMod(n, def) ==
    /\ up
    /\ n \notin Defined(mods) /\ \A r \in Current(mods) : made[r].id # def.id
    /\ mods' = [mods EXCEPT ![n] = 1]
    /\ made' = [made EXCEPT ![<<n, 1>>] = def]
    /\ UNCHANGED <<up, lists, titled, disk, reload, untold, verified>>

(* Faulty variant: the names are not looked up first. *)
AddModlistUnchecked(l, names) ==
    /\ up
    /\ l \notin DOMAIN lists
    /\ lists' = [k \in DOMAIN lists \union {l} |-> IF k = l THEN Objects(mods, names) ELSE lists[k]]
    /\ UNCHANGED <<up, mods, titled, made, disk, reload, untold, verified>>

AddModlist(l, names) ==
    /\ up
    /\ l \notin DOMAIN lists
    /\ names \subseteq Defined(mods)
    /\ lists' = [k \in DOMAIN lists \union {l} |-> IF k = l THEN Objects(mods, names) ELSE lists[k]]
    /\ UNCHANGED <<up, mods, titled, made, disk, reload, untold, verified>>

Written ==
    /\ writes < MaxWrites
    /\ writes' = writes + 1
    /\ verified' = FALSE
    /\ reload' = [j \in Reload |-> [reload[j] EXCEPT !.clean = FALSE]]

(* save_mod_configs cannot write a WorkshopId, and its file is truncated   *)
(* by then; a mod without one is written with a text no load accepts.      *)
Spoiled == <<[key |-> CHOOSE k \in ModKey : TRUE, def |-> CHOOSE d \in Definition : TRUE, valid |-> FALSE]>>

FlushMods ==
    /\ up /\ Defined(mods) # {}
    /\ Written
    /\ modFile' = Spoiled
    /\ UNCHANGED <<up, memory, listFile, untold>>

(* save_modlists writes the name of the object, which may be its title.    *)
Named(r) == IF r \in titled THEN Title[made[r].id] ELSE r[1]

FlushLists ==
    /\ up /\ DOMAIN lists # {}
    /\ Written
    /\ listFile' = [l \in DOMAIN listFile \union DOMAIN lists |->
                       IF l \in DOMAIN lists THEN {Named(r) : r \in lists[l]} ELSE listFile[l]]
    /\ UNCHANGED <<up, memory, modFile, untold>>

-----------------------------------------------------------------------------
(* The administrator, and the process *)

Edit ==
    /\ Written
    /\ \/ modFile' \in ModFiles \ {modFile} /\ UNCHANGED listFile
       \/ listFile' \in ListFiles \ {listFile} /\ UNCHANGED modFile
    /\ UNCHANGED <<up, memory, untold>>

(* What State._load_arma_configs accepts: it loads into empty maps. *)
Bootable ==
    /\ Accepts(modFile, NoMods, FALSE)
    /\ \A l \in DOMAIN listFile : listFile[l] \subseteq NamesIn(modFile)

(* The backend starts; files it does not accept keep it from starting. *)
Boot ==
    /\ ~up /\ Bootable
    /\ up' = TRUE
    /\ \E last \in LastOnes(modFile, DOMAIN modFile) :
          LET m == Renewed(NoMods, NamesIn(modFile))
              all == Objects(m, NamesIn(modFile))
              defs == MadeFrom(modFile, last, all)
              added == Asked(all, defs)
          IN  /\ mods' = m /\ made' = defs
              /\ lists' = [l \in DOMAIN listFile |-> Objects(m, listFile[l])]
              /\ \E found \in IF "details" \in ConfigFaults THEN SUBSET added ELSE {added} :
                    titled' = found /\ untold' = (found # added)
    /\ verified' = TRUE
    /\ UNCHANGED <<disk, reload>>

Stop ==
    /\ "stop" \in ConfigFaults /\ up
    /\ up' = FALSE
    /\ mods' = NoMods /\ lists' = << >>
    /\ titled' = {} /\ made' = Unmade
    /\ reload' = [j \in Reload |-> NoReload]
    /\ untold' = FALSE
    /\ UNCHANGED <<disk, verified>>

(* The requests of the API: users who may manage servers make them.        *)
UpdateServerMods == \E j \in Reload, s \in Server : BeginUpdate(j, s)

ReloadRequest == ReloadLists \/ \E j \in Reload : BeginReload(j)

FlushRequest == FlushMods \/ FlushLists

AddRequest ==
    \/ \E n \in ModName, def \in Addable : AddMod(n, def)
    \/ \E l \in ModlistName, names \in SUBSET ModName : AddModlist(l, names)

ConfigNext ==
    \/ UpdateServerMods \/ ReloadRequest \/ FlushRequest \/ AddRequest
    \/ \E j \in Reload : Details(j) \/ WorkshopFails(j) \/ Check(j)
    \/ Edit \/ Boot \/ Stop

ConfigSpec == ConfigInit /\ [][ConfigNext]_configVars

-----------------------------------------------------------------------------
(* Properties *)

(* Every variable has its type: what a modlist, a title or a request       *)
(* refers to is an object that was made.                                   *)
MadeSoFar == {r \in Object : r[2] <= mods[r[1]]}

ConfigTypeOK ==
    /\ up \in BOOLEAN
    /\ mods \in [ModName -> 0..MaxLoads]
    /\ DOMAIN lists \subseteq ModlistName
    /\ \A l \in DOMAIN lists : lists[l] \subseteq MadeSoFar
    /\ titled \subseteq MadeSoFar
    /\ made \in [Object -> Definition]
    /\ modFile \in Seq(FileEntry)
    /\ listFile \in UNION {[S -> SUBSET Line] : S \in SUBSET ModlistName}
    /\ reload \in [Reload -> [at : {"none", "details", "check"}, kind : {"reload", "update"},
                              server : SUBSET Server, added : SUBSET MadeSoFar,
                              asked : SUBSET MadeSoFar, clean : BOOLEAN]]
    /\ writes \in 0..MaxWrites
    /\ untold \in BOOLEAN /\ verified \in BOOLEAN

(* The maps are a registry of known names and modlists over them.          *)
Registry == INSTANCE ModRegistry WITH
    Names <- ModName, ListNames <- ModlistName,
    known <- Defined(mods),
    contents <- [l \in DOMAIN lists |-> {r[1] : r \in lists[l]}]

ImplementsRegistry == Registry!RegistrySpec

(* Dataclass equality of two Mod objects: directory, kind, filename,       *)
(* workshop_id, manual_install and name.                                   *)
SameMod(q, r) == made[q] = made[r] /\ Named(q) = Named(r)

(* Modlist.has_mods_from over SERVER_MAP: the servers an update of r stops. *)
HasMod(s, q) == ServerList[s] \in DOMAIN lists /\ q \in lists[ServerList[s]]

Affected(r) == {s \in Server : \E q \in MadeSoFar : HasMod(s, q) /\ SameMod(q, r)}

Awaited(r) == \E j \in Reload : reload[j].at = "details" /\ r \in reload[j].added

(* "Used to identify server dependencies when updating mods": as long as   *)
(* the workshop told every title, an update finds every server that has    *)
(* one of the mods it downloads, although the modlists hold objects of     *)
(* different loads and under different names.  It does not find the server *)
(* while a load still waits for the title of one of the two objects, nor   *)
(* when the mod's definition was changed between the two loads.            *)
AffectedAreFound ==
    ~untold =>
        \A j \in Reload : \A r \in reload[j].asked : \A s \in Server :
            FromWorkshop(r) /\ ~Awaited(r)
                /\ (\E q \in MadeSoFar : HasMod(s, q) /\ made[q] = made[r] /\ ~Awaited(q))
                => s \in Affected(r)

(* No two keys of the file become one name. *)
DistinctNames(file) == \A i, k \in DOMAIN file : Name(file, i) = Name(file, k) => i = k

(* Files that a running backend loaded, and that define every mod it has,  *)
(* will be accepted when it starts again, if no two of their keys become   *)
(* one name: but for that the two ways to load refuse the same files, and  *)
(* a crash at any point does not change that.                              *)
ReloadedFilesBoot == verified /\ DistinctNames(modFile) => Bootable
=============================================================================
