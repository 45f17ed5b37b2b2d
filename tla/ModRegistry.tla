---------------------------- MODULE ModRegistry ----------------------------
(***************************************************************************)
(* What the configuration of mods promises: names of mods, and modlists    *)
(* over the names that are known.  While the backend runs, a name stays    *)
(* known and a modlist stays; each may only be replaced as a whole.        *)
(***************************************************************************)
CONSTANTS Names, ListNames

VARIABLES
    known,      \* names of the mods that are defined
    contents    \* per modlist that exists: the names of its mods

registry == <<known, contents>>

RegistryInit == known = {} /\ contents = << >>

(* Modlists over known names are added or replaced. *)
OnlyKnown(old, new) ==
    /\ DOMAIN old \subseteq DOMAIN new /\ DOMAIN new \subseteq ListNames
    /\ \A l \in DOMAIN new :
          \/ new[l] \subseteq known'
          \/ l \in DOMAIN old /\ new[l] = old[l]

Change ==
    /\ known \subseteq known' /\ known' \subseteq Names
    /\ OnlyKnown(contents, contents')

(* What was not saved is gone when the process ends. *)
Forget == known' = {} /\ contents' = << >>

RegistryNext == Change \/ Forget

RegistrySpec == RegistryInit /\ [][RegistryNext]_registry
=============================================================================
