----------------------------- MODULE PluginTable -----------------------------
(***************************************************************************)
(* The plugins of the shell: the table of src/core/aelion_plugin.c, filled *)
(* from the manifest by aelion_plugin_autoload.c and then changed by the   *)
(* commands "plugin load" and "plugin unload".  One thread does it all.    *)
(*                                                                         *)
(* The loader counts how often each library is in use and unmaps it at     *)
(* zero.  "plugin call" and "plugin list" change nothing; a call jumps     *)
(* into the library of its slot.                                           *)
(***************************************************************************)
EXTENDS Naturals, Sequences, FiniteSets

CONSTANTS
    Name,        \* the names users and manifests give
    Stored,      \* Stored[n]: n cut to the 127 characters of a name field
    Dll,         \* the libraries, some of which have an aelion_plugin_entry
    NoPlugin,    \* no library, or one without that entry
    Library,     \* Library[n]: what "plugins/n.dll" names
    Manifest,    \* the manifests there may be
    MaxPlugins   \* MAX_PLUGINS

(* An entry of a manifest: its name, its flag if it has one, and whether   *)
(* the flag stands before the name.                                        *)
Entry == [name : Name, flag : {"true", "false", "none"}, first : {"name", "flag"}]

ASSUME PluginAssumption ==
    /\ IsFiniteSet(Name)
    /\ Stored \in [Name -> Name] /\ \A n \in Name : Stored[Stored[n]] = Stored[n]
    /\ NoPlugin \notin Dll
    /\ Library \in [Name -> Dll \cup {NoPlugin}]
    /\ Manifest \subseteq Seq(Entry)
    /\ MaxPlugins \in Nat

VARIABLES
    plugins,   \* the first plugin_count slots of the table
    uses,      \* uses[d]: the loader's count for library d
    manifest,  \* what read_file found
    entry,     \* the entry that is read next, 0 when the shell takes over
    overrun    \* history: a slot behind the table was written

vars == <<plugins, uses, manifest, entry, overrun>>

Slot == [name : Name, handle : Dll]

Init ==
    /\ plugins = <<>>
    /\ uses = [d \in Dll |-> 0]
    /\ manifest \in Manifest
    /\ entry = 1
    /\ overrun = FALSE

-------------------------------------------------------------------------------
(* A mutant of find_plugin: it compares with the last slot only. *)
find_last(n, i) == i = Len(plugins) /\ plugins[i].name = n

(* Slot i is the first with the name n. *)
find_plugin(n, i) ==
    plugins[i].name = n /\ \A j \in 1 .. i - 1 : plugins[j].name # n

Loaded(n) == \E i \in DOMAIN plugins : find_plugin(n, i)

(* A mutant of Loadable: what is loaded already can be loaded again. *)
LoadableAgain(n) == Library[n] # NoPlugin

Loadable(n) == ~Loaded(n) /\ Library[n] # NoPlugin

(* A mutant of Load: the library is not counted. *)
LoadUncounted(n) ==
    /\ Loadable(n) /\ Len(plugins) < MaxPlugins
    /\ plugins' = Append(plugins, [name |-> Stored[n], handle |-> Library[n]])
    /\ UNCHANGED <<uses, overrun>>

(* A mutant of Load: the test of the bound is off by one. *)
LoadOneMore(n) ==
    /\ Loadable(n) /\ Len(plugins) <= MaxPlugins
    /\ plugins' = Append(plugins, [name |-> Stored[n], handle |-> Library[n]])
    /\ uses' = [uses EXCEPT ![Library[n]] = @ + 1]
    /\ UNCHANGED overrun

(* aelion_plugin_load *)
Load(n) ==
    /\ Loadable(n) /\ Len(plugins) < MaxPlugins
    /\ plugins' = Append(plugins, [name |-> Stored[n], handle |-> Library[n]])
    /\ uses' = [uses EXCEPT ![Library[n]] = @ + 1]
    /\ UNCHANGED overrun

(* The table is full: the slot is written behind it.  The behaviour is     *)
(* undefined from here on and the model ends.                              *)
LoadBeyond(n) ==
    /\ Loadable(n) /\ Len(plugins) = MaxPlugins
    /\ overrun' = TRUE
    /\ UNCHANGED <<plugins, uses>>

(* Already loaded, no library, or a library without the entry, which is    *)
(* freed at once.                                                          *)
Refuse(n) == ~Loadable(n) /\ UNCHANGED <<plugins, uses, overrun>>

(* A mutant of aelion_plugin_unload: only the name of the last slot moves. *)
UnloadNameOnly(n) ==
    \E i \in DOMAIN plugins :
        /\ find_plugin(n, i)
        /\ uses' = [uses EXCEPT ![plugins[i].handle] = @ - 1]
        /\ plugins' = [j \in 1 .. Len(plugins) - 1 |->
              [plugins[j] EXCEPT !.name = IF j = i THEN plugins[Len(plugins)].name ELSE @]]
        /\ UNCHANGED <<manifest, entry, overrun>>

(* The library is freed and the last slot moves into the hole. *)
aelion_plugin_unload(n) ==
    \E i \in DOMAIN plugins :
        /\ find_plugin(n, i)
        /\ uses' = [uses EXCEPT ![plugins[i].handle] = @ - 1]
        /\ plugins' = [j \in 1 .. Len(plugins) - 1 |->
                          plugins[IF j = i THEN Len(plugins) ELSE j]]
        /\ UNCHANGED <<manifest, entry, overrun>>

-------------------------------------------------------------------------------
(* A mutant of Autoload: the flag is searched from the start of the file. *)
AutoloadFirst(i) ==
    \E j \in DOMAIN manifest :
        /\ \A k \in 1 .. j - 1 : manifest[k].flag = "none"
        /\ manifest[j].flag = "true"

(* strstr finds the first flag behind the name, in whichever entry. *)
FlagBehind(i, j) ==
    /\ i <= j /\ manifest[j].flag # "none"
    /\ i = j => manifest[j].first = "name"

Autoload(i) ==
    \E j \in DOMAIN manifest :
        /\ FlagBehind(i, j) /\ \A k \in 1 .. j - 1 : ~FlagBehind(i, k)
        /\ manifest[j].flag = "true"

(* One round of autoload_from_manifest. *)
ReadEntry ==
    /\ entry \in DOMAIN manifest /\ ~overrun
    /\ entry' = entry + 1
    /\ UNCHANGED manifest
    /\ LET n == Stored[manifest[entry].name] IN
       \/ Autoload(entry) /\ (Load(n) \/ LoadBeyond(n) \/ Refuse(n))
       \/ ~Autoload(entry) /\ UNCHANGED <<plugins, uses, overrun>>

StartShell ==
    /\ entry = Len(manifest) + 1 /\ ~overrun
    /\ entry' = 0
    /\ UNCHANGED <<plugins, uses, manifest, overrun>>

LoadCommand(n) ==
    /\ Load(n) \/ LoadBeyond(n)
    /\ UNCHANGED <<manifest, entry>>

Command ==
    /\ entry = 0 /\ ~overrun
    /\ \E n \in Name : LoadCommand(n) \/ aelion_plugin_unload(n)

Next == ReadEntry \/ StartShell \/ Command

Spec == Init /\ [][Next]_vars

-------------------------------------------------------------------------------
(* Properties *)

TypeOK ==
    /\ plugins \in Seq(Slot) /\ Len(plugins) <= MaxPlugins
    /\ uses \in [Dll -> Nat]
    /\ manifest \in Manifest
    /\ entry \in 0 .. Len(manifest) + 1
    /\ overrun \in BOOLEAN

(* The name was not cut: nothing that is typed is stored as n but n. *)
Plain(n) == \A m \in Name : Stored[m] = n => m = n

(* A plugin is in the table once: find_plugin keeps a second copy out      *)
(* wherever the slots have moved.  A name that was cut is the exception,   *)
(* because find_plugin looks for the whole of it.                          *)
NamesUnique ==
    \A i, j \in DOMAIN plugins :
        plugins[i].name = plugins[j].name /\ Plain(plugins[i].name) => i = j

Slots(d) == {i \in DOMAIN plugins : plugins[i].handle = d}

(* Every slot holds one use of its library and nothing else does: the      *)
(* entry that "plugin call" jumps to is mapped, and a library that no slot *)
(* needs is not, through any sequence of loads and unloads, of two names   *)
(* of one library too.                                                     *)
HandlesBalanced == \A d \in Dll : uses[d] = Cardinality(Slots(d))

(* Wherever its slot has moved, a plugin is called in its own library.     *)
HandleOfName ==
    \A i \in DOMAIN plugins :
        \E n \in Name : Stored[n] = plugins[i].name /\ Library[n] = plugins[i].handle

(* No sequence of loads and unloads overruns the table as long as there    *)
(* are no more plugins than slots, unless a name was cut: nothing is       *)
(* loaded twice and every unload gives its slot back.                      *)
OverrunNeedsPlugins ==
    overrun => \/ Cardinality({n \in Name : Library[n] # NoPlugin}) > MaxPlugins
               \/ \E i \in DOMAIN plugins : ~Plain(plugins[i].name)

(* Each entry has a flag, behind its name, as in plugins/manifest.json. *)
InOrder == \A i \in DOMAIN manifest : manifest[i].flag # "none" /\ manifest[i].first = "name"

(* From such a manifest exactly the plugins are loaded whose own entries   *)
(* say so, as far as they can be.                                          *)
AutoloadAsWritten ==
    InOrder /\ entry # 0 /\ ~overrun =>
        {plugins[i].name : i \in DOMAIN plugins} =
        {Stored[manifest[j].name] : j \in
            {k \in 1 .. entry - 1 : /\ manifest[k].flag = "true"
                                    /\ Library[Stored[manifest[k].name]] # NoPlugin}}
===============================================================================
