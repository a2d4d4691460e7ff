-------------------------- MODULE PluginTable_proofs --------------------------
(***************************************************************************)
(* The plugin table for every set of names and libraries, every manifest   *)
(* and every size: the names in it are unique, the loader's counts agree   *)
(* with it, and it overflows only where the assumptions of its users fail. *)
(***************************************************************************)
EXTENDS PluginTable, FiniteSetTheorems, TLAPS

(* TypeOK is not inductive alone: that an unload leaves a count in Nat     *)
(* follows from HandlesBalanced.                                           *)
IInv == TypeOK /\ NamesUnique /\ HandlesBalanced /\ HandleOfName

(* A slot of the table keeps its library counted. *)
LEMMA SlotsFinite ==
    ASSUME TypeOK, NEW d
    PROVE  IsFiniteSet(Slots(d)) /\ Cardinality(Slots(d)) \in Nat
<1>1. Len(plugins) \in Nat
    BY DEF TypeOK
<1>2. IsFiniteSet(1 .. Len(plugins))
    BY <1>1, FS_Interval
<1>3. Slots(d) \in SUBSET (1 .. Len(plugins))
    BY DEF Slots, TypeOK
<1>4. IsFiniteSet(Slots(d))
    BY <1>2, <1>3, FS_Subset
<1> QED
    BY <1>4, FS_CardinalityType

(* The first states. *)
LEMMA Start == Init => IInv
<1> SUFFICES ASSUME Init PROVE IInv
    OBVIOUS
<1>1. TypeOK
    <2>1. plugins \in Seq(Slot) /\ Len(plugins) <= MaxPlugins
        BY PluginAssumption DEF Init
    <2>2. Len(manifest) \in Nat
        <3>1. manifest \in Seq(Entry)
            BY PluginAssumption DEF Init
        <3> QED
            BY <3>1
    <2>3. entry \in 0 .. Len(manifest) + 1
        BY <2>2 DEF Init
    <2> QED
        BY <2>1, <2>3 DEF Init, TypeOK
<1>2. HandlesBalanced
    <2> SUFFICES ASSUME NEW d \in Dll PROVE uses[d] = Cardinality(Slots(d))
        BY DEF HandlesBalanced
    <2>1. Slots(d) = {}
        BY DEF Init, Slots
    <2> QED
        BY <2>1, FS_EmptySet DEF Init
<1>3. NamesUnique /\ HandleOfName
    BY DEF Init, NamesUnique, HandleOfName
<1> QED
    BY <1>1, <1>2, <1>3 DEF IInv

-------------------------------------------------------------------------------
(* Loading *)

(* aelion_plugin_load appends one slot and counts its library once. *)
LEMMA LoadCounts ==
    ASSUME IInv, NEW n \in Name, Load(n)
    PROVE  HandlesBalanced'
<1> DEFINE L == Len(plugins)
           e == [name |-> Stored[n], handle |-> Library[n]]
<1>1. /\ TypeOK /\ HandlesBalanced /\ L \in Nat /\ e \in Slot
      /\ plugins' = Append(plugins, e) /\ uses' = [uses EXCEPT ![Library[n]] = @ + 1]
      /\ DOMAIN plugins = 1 .. L /\ DOMAIN plugins' = 1 .. L + 1
      /\ \A i \in 1 .. L : plugins'[i] = plugins[i]
      /\ plugins'[L + 1] = e
    BY PluginAssumption DEF IInv, TypeOK, Load, Loadable, Slot
<1> HIDE DEF L
<1> SUFFICES ASSUME NEW d \in Dll PROVE uses'[d] = Cardinality(Slots(d)')
    BY DEF HandlesBalanced
<1>2. IsFiniteSet(Slots(d)) /\ Cardinality(Slots(d)) \in Nat /\ uses[d] = Cardinality(Slots(d))
    BY <1>1, SlotsFinite DEF HandlesBalanced
<1>3. L + 1 \notin Slots(d)
    BY <1>1 DEF Slots
<1>4. CASE d = Library[n]
    <2>1. Slots(d)' = Slots(d) \cup {L + 1}
        BY <1>1, <1>4 DEF Slots
    <2>2. Cardinality(Slots(d)') = Cardinality(Slots(d)) + 1
        BY <1>2, <1>3, <2>1, FS_AddElement
    <2>3. uses'[d] = uses[d] + 1
        BY <1>1, <1>4 DEF TypeOK
    <2> QED
        BY <1>2, <2>2, <2>3
<1>5. CASE d # Library[n]
    <2>1. Slots(d)' = Slots(d)
        BY <1>1, <1>5 DEF Slots
    <2>2. uses'[d] = uses[d]
        BY <1>1, <1>5 DEF TypeOK
    <2> QED
        BY <1>2, <2>1, <2>2
<1> QED
    BY <1>4, <1>5

(* What is loaded twice has a name that was cut. *)
LEMMA LoadKeeps ==
    ASSUME IInv, NEW n \in Name, Load(n)
    PROVE  /\ plugins' \in Seq(Slot) /\ Len(plugins') <= MaxPlugins
           /\ uses' \in [Dll -> Nat]
           /\ NamesUnique' /\ HandleOfName'
<1> DEFINE e == [name |-> Stored[n], handle |-> Library[n]]
<1>1. /\ e \in Slot /\ plugins \in Seq(Slot) /\ uses \in [Dll -> Nat]
      /\ plugins' = Append(plugins, e) /\ uses' = [uses EXCEPT ![Library[n]] = @ + 1]
      /\ Len(plugins) \in Nat /\ Len(plugins) < MaxPlugins
      /\ DOMAIN plugins = 1 .. Len(plugins) /\ DOMAIN plugins' = 1 .. Len(plugins) + 1
      /\ \A i \in 1 .. Len(plugins) : plugins'[i] = plugins[i]
      /\ plugins'[Len(plugins) + 1] = e
    BY PluginAssumption DEF IInv, TypeOK, Load, Loadable, Slot
<1>2. plugins' \in Seq(Slot) /\ Len(plugins') <= MaxPlugins /\ uses' \in [Dll -> Nat]
    <2>1. Library[n] \in Dll /\ uses[Library[n]] \in Nat
        BY <1>1, PluginAssumption DEF Load, Loadable
    <2>2. Len(plugins') = Len(plugins) + 1 /\ plugins' \in Seq(Slot)
        BY <1>1
    <2>3. MaxPlugins \in Nat
        BY PluginAssumption
    <2> QED
        BY <1>1, <2>1, <2>2, <2>3
<1>3. NamesUnique'
    <2> SUFFICES ASSUME NEW i \in DOMAIN plugins', NEW j \in DOMAIN plugins',
                        plugins'[i].name = plugins'[j].name, Plain(plugins'[i].name)
                 PROVE  i = j
        BY DEF NamesUnique, Plain
    <2>1. CASE i = Len(plugins) + 1 \/ j = Len(plugins) + 1
        <3>1. Plain(Stored[n]) /\ plugins'[i].name = Stored[n]
            BY <1>1, <2>1
        <3>2. n = Stored[n]
            BY <3>1 DEF Plain
        <3>3. \A k \in 1 .. Len(plugins) : plugins[k].name # n
            <4> SUFFICES ASSUME NEW k \in 1 .. Len(plugins), plugins[k].name = n PROVE FALSE
                OBVIOUS
            <4>1. \A l \in 1 .. k - 1 : plugins[l].name # n
                <5> SUFFICES ASSUME NEW l \in 1 .. k - 1, plugins[l].name = n PROVE FALSE
                    OBVIOUS
                <5>1. l \in DOMAIN plugins /\ l # k
                    BY <1>1
                <5> QED
                    BY <1>1, <3>1, <3>2, <5>1 DEF IInv, NamesUnique
            <4> QED
                BY <1>1, <4>1 DEF Load, Loadable, Loaded, find_plugin
        <3> QED
            BY <1>1, <3>1, <3>2, <3>3
    <2>2. CASE i # Len(plugins) + 1 /\ j # Len(plugins) + 1
        BY <1>1, <2>2 DEF IInv, NamesUnique
    <2> QED
        BY <2>1, <2>2
<1>4. HandleOfName'
    BY <1>1 DEF IInv, HandleOfName
<1> QED
    BY <1>2, <1>3, <1>4

-------------------------------------------------------------------------------
(* Unloading *)

(* aelion_plugin_unload takes slot i away and moves the last slot to i:    *)
(* the slots of a library are those of before, renamed, less one.          *)
LEMMA UnloadCounts ==
    ASSUME IInv, NEW i \in DOMAIN plugins,
           uses' = [uses EXCEPT ![plugins[i].handle] = @ - 1],
           plugins' = [j \in 1 .. Len(plugins) - 1 |->
                          plugins[IF j = i THEN Len(plugins) ELSE j]]
    PROVE  HandlesBalanced' /\ uses' \in [Dll -> Nat]
<1> DEFINE L == Len(plugins)
           h == plugins[i].handle
           l == plugins[L].handle
<1>0. /\ TypeOK /\ HandlesBalanced /\ plugins \in Seq(Slot) /\ uses \in [Dll -> Nat]
      /\ L \in Nat /\ DOMAIN plugins = 1 .. L /\ i \in 1 .. L /\ L \in 1 .. L
    BY DEF IInv, TypeOK
<1>1. /\ TypeOK /\ HandlesBalanced /\ L \in Nat /\ i \in 1 .. L /\ L >= 1
      /\ DOMAIN plugins = 1 .. L /\ DOMAIN plugins' = 1 .. L - 1
      /\ h \in Dll /\ l \in Dll /\ uses \in [Dll -> Nat]
      /\ \A j \in 1 .. L - 1 : plugins'[j] = plugins[IF j = i THEN L ELSE j]
    <2>1. plugins[i] \in Slot /\ plugins[L] \in Slot
        BY <1>0
    <2>2. h \in Dll /\ l \in Dll
        BY <2>1 DEF Slot
    <2> QED
        BY <1>0, <2>2
<1>2. uses' = [uses EXCEPT ![h] = @ - 1]
    OBVIOUS
<1> HIDE DEF L, h, l
<1>3. ASSUME NEW d \in Dll
      PROVE  /\ IsFiniteSet(Slots(d)) /\ Cardinality(Slots(d)) \in Nat
             /\ uses[d] = Cardinality(Slots(d))
    BY <1>1, SlotsFinite DEF HandlesBalanced
<1>4. ASSUME NEW d \in Dll
      PROVE  /\ d = h => Cardinality(Slots(d)') = Cardinality(Slots(d)) - 1
             /\ d # h => Cardinality(Slots(d)') = Cardinality(Slots(d))
    <2>1. \A j \in 1 .. L : j \in Slots(d) <=> plugins[j].handle = d
        BY <1>1 DEF Slots
    <2>0. plugins[i].handle = h /\ plugins[L].handle = l
        BY DEF h, l
    <2>2. \A j : j \in Slots(d)' <=>
              j \in 1 .. L - 1 /\ plugins[IF j = i THEN L ELSE j].handle = d
        BY <1>1 DEF Slots
    <2>3. Slots(d) \subseteq 1 .. L
        BY <1>1 DEF Slots
    <2> DEFINE R == Slots(d) \ {L}
    <2>4. IsFiniteSet(R) /\ Cardinality(R) \in Nat
          /\ Cardinality(R) = IF L \in Slots(d) THEN Cardinality(Slots(d)) - 1
                                                ELSE Cardinality(Slots(d))
        BY <1>3, FS_RemoveElement, FS_CardinalityType
    <2>5. CASE i = L
        <3>1. Slots(d)' = R
            <4>1. ASSUME NEW j PROVE j \in Slots(d)' <=> j \in R
                <5>1. j \in 1 .. L - 1 => j \in 1 .. L /\ j # L
                    BY <1>1
                <5>2. j \in 1 .. L /\ j # L => j \in 1 .. L - 1
                    BY <1>1
                <5> QED
                    BY <2>1, <2>2, <2>3, <2>5, <5>1, <5>2
            <4> QED
                BY <4>1
        <3>2. L \in Slots(d) <=> d = h
            BY <2>0, <1>1, <2>1, <2>5
        <3> QED
            BY <2>4, <3>1, <3>2
    <2>6. CASE i # L
        <3>1. i \in 1 .. L - 1 /\ (i \in R <=> h = d) /\ (L \in Slots(d) <=> l = d)
            BY <2>0, <1>1, <2>1, <2>6
        <3>2. ASSUME NEW j, j # i PROVE j \in Slots(d)' <=> j \in R
            <4>1. CASE j \in 1 .. L - 1
                BY <1>1, <2>1, <2>2, <3>2, <4>1
            <4>2. CASE j \notin 1 .. L - 1
                <5>1. j \in 1 .. L => j = L
                    BY <1>1, <4>2
                <5> QED
                    BY <2>2, <2>3, <4>2, <5>1
            <4> QED
                BY <4>1, <4>2
        <3>3. i \in Slots(d)' <=> l = d
            BY <2>0, <2>2, <3>1
        <3> HIDE DEF R
        <3>4. CASE l = d
            <4>1. Slots(d)' = R \cup {i}
                BY <3>2, <3>3, <3>4
            <4>2. Cardinality(R \cup {i}) = IF i \in R THEN Cardinality(R) ELSE Cardinality(R) + 1
                BY <2>4, FS_AddElement
            <4> QED
                BY <1>3, <2>4, <3>1, <3>4, <4>1, <4>2
        <3>5. CASE l # d
            <4>1. Slots(d)' = R \ {i}
                BY <3>2, <3>3, <3>5
            <4>2. Cardinality(R \ {i}) = IF i \in R THEN Cardinality(R) - 1 ELSE Cardinality(R)
                BY <2>4, FS_RemoveElement
            <4> QED
                BY <1>3, <2>4, <3>1, <3>5, <4>1, <4>2
        <3> QED
            BY <3>4, <3>5
    <2> QED
        BY <2>5, <2>6
<1>5. Cardinality(Slots(h)) >= 1
    <2>1. i \in Slots(h)
        BY <1>1 DEF Slots, h
    <2>2. Cardinality(Slots(h)) # 0
        BY <1>1, <1>3, <2>1, FS_EmptySet
    <2> QED
        BY <1>1, <1>3, <2>2
<1>6. uses' \in [Dll -> Nat]
    BY <1>1, <1>2, <1>3, <1>5
<1>7. HandlesBalanced'
    <2> SUFFICES ASSUME NEW d \in Dll PROVE uses'[d] = Cardinality(Slots(d)')
        BY DEF HandlesBalanced
    <2>1. uses'[d] = IF d = h THEN uses[d] - 1 ELSE uses[d]
        BY <1>1, <1>2
    <2> QED
        BY <1>3, <1>4, <2>1
<1> QED
    BY <1>6, <1>7

(* A function on 1 .. n is a sequence.                                     *)
LEMMA FunctionIsSeq ==
    ASSUME NEW S, NEW n \in Nat, NEW f \in [1 .. n -> S]
    PROVE  f \in Seq(S)
OBVIOUS

(* The slots that are left are slots of before, each at most once. *)
LEMMA UnloadKeeps ==
    ASSUME IInv, NEW i \in DOMAIN plugins,
           plugins' = [j \in 1 .. Len(plugins) - 1 |->
                          plugins[IF j = i THEN Len(plugins) ELSE j]]
    PROVE  /\ plugins' \in Seq(Slot) /\ Len(plugins') <= MaxPlugins
           /\ NamesUnique' /\ HandleOfName'
<1> DEFINE L == Len(plugins)
           old(j) == IF j = i THEN L ELSE j
<1>1. /\ plugins \in Seq(Slot) /\ L \in Nat /\ L <= MaxPlugins /\ i \in 1 .. L /\ L >= 1
      /\ DOMAIN plugins = 1 .. L /\ DOMAIN plugins' = 1 .. L - 1
      /\ \A j \in 1 .. L - 1 : /\ plugins'[j] = plugins[old(j)]
                               /\ old(j) \in 1 .. L
    BY DEF IInv, TypeOK
<1>2. \A j, k \in 1 .. L - 1 : old(j) = old(k) => j = k
    BY <1>1
<1>3. plugins' \in [1 .. L - 1 -> Slot] /\ L - 1 \in Nat
    BY <1>1
<1>4. plugins' \in Seq(Slot) /\ Len(plugins') = L - 1 /\ L - 1 <= MaxPlugins
    <2>1. MaxPlugins \in Nat
        BY PluginAssumption
    <2>2. plugins' \in Seq(Slot)
        BY <1>3, FunctionIsSeq
    <2>3. Len(plugins') = L - 1
        BY <1>1, <1>3, <2>2
    <2> QED
        BY <1>1, <2>1, <2>2, <2>3
<1> HIDE DEF old, L
<1>5. NamesUnique'
    <2> SUFFICES ASSUME NEW j \in 1 .. L - 1, NEW k \in 1 .. L - 1,
                        plugins'[j].name = plugins'[k].name, Plain(plugins'[j].name)
                 PROVE  j = k
        BY <1>1 DEF NamesUnique, Plain
    <2>1. /\ old(j) \in DOMAIN plugins /\ old(k) \in DOMAIN plugins
          /\ plugins'[j] = plugins[old(j)] /\ plugins'[k] = plugins[old(k)]
        BY <1>1
    <2>2. old(j) = old(k)
        BY <2>1 DEF IInv, NamesUnique
    <2> QED
        BY <1>2, <2>2
<1>6. HandleOfName'
    BY <1>1 DEF IInv, HandleOfName
<1> QED
    BY <1>1, <1>4, <1>5, <1>6

-------------------------------------------------------------------------------
(* The invariant *)

(* What Load, LoadBeyond and Refuse share. *)
LEMMA LoaderStep ==
    ASSUME IInv, NEW n \in Name, Load(n) \/ LoadBeyond(n) \/ Refuse(n)
    PROVE  /\ plugins' \in Seq(Slot) /\ Len(plugins') <= MaxPlugins
           /\ uses' \in [Dll -> Nat] /\ overrun' \in BOOLEAN
           /\ NamesUnique' /\ HandlesBalanced' /\ HandleOfName'
<1>1. CASE Load(n)
    BY <1>1, LoadCounts, LoadKeeps DEF Load, IInv, TypeOK
<1>2. CASE LoadBeyond(n) \/ Refuse(n)
    <2>1. UNCHANGED <<plugins, uses>> /\ overrun' \in BOOLEAN
        BY <1>2 DEF LoadBeyond, Refuse, IInv, TypeOK
    <2> QED
        BY <2>1 DEF IInv, TypeOK, NamesUnique, Plain, HandlesBalanced, Slots, HandleOfName
<1> QED
    BY <1>1, <1>2

(* Every command and every entry of the manifest keeps IInv. *)
LEMMA Step == IInv /\ [Next]_vars => IInv'
<1> SUFFICES ASSUME IInv, [Next]_vars PROVE IInv'
    OBVIOUS
<1>0. /\ manifest \in Manifest /\ manifest \in Seq(Entry) /\ Len(manifest) \in Nat
      /\ entry \in 0 .. Len(manifest) + 1 /\ overrun \in BOOLEAN
    BY PluginAssumption DEF IInv, TypeOK
<1>1. CASE ReadEntry
    <2>1. /\ manifest' = manifest /\ entry' = entry + 1 /\ entry \in 1 .. Len(manifest)
        BY <1>0, <1>1 DEF ReadEntry
    <2>2. entry' \in 0 .. Len(manifest') + 1
        BY <1>0, <2>1
    <2>3. Stored[manifest[entry].name] \in Name
        <3>1. manifest[entry] \in Entry
            BY <1>0, <2>1
        <3>2. manifest[entry].name \in Name
            BY <3>1 DEF Entry
        <3> QED
            BY <3>2, PluginAssumption
    <2>4. CASE Autoload(entry)
        <3>1. \/ Load(Stored[manifest[entry].name]) \/ LoadBeyond(Stored[manifest[entry].name])
              \/ Refuse(Stored[manifest[entry].name])
            BY <1>1, <2>4 DEF ReadEntry
        <3> QED
            BY <1>0, <2>1, <2>2, <2>3, <3>1, LoaderStep DEF IInv, TypeOK
    <2>5. CASE ~Autoload(entry)
        <3>1. UNCHANGED <<plugins, uses, overrun>>
            BY <1>1, <2>5 DEF ReadEntry
        <3> QED
            BY <1>0, <2>1, <2>2, <3>1
               DEF IInv, TypeOK, NamesUnique, Plain, HandlesBalanced, Slots, HandleOfName
    <2> QED
        BY <2>4, <2>5
<1>2. CASE StartShell
    BY <1>0, <1>2 DEF StartShell, IInv, TypeOK, NamesUnique, Plain, HandlesBalanced, Slots,
                      HandleOfName
<1>3. CASE Command
    <2>1. PICK n \in Name : LoadCommand(n) \/ aelion_plugin_unload(n)
        BY <1>3 DEF Command
    <2>2. CASE LoadCommand(n)
        BY <1>0, <2>2, LoaderStep DEF LoadCommand, IInv, TypeOK
    <2>3. CASE aelion_plugin_unload(n)
        <3>1. PICK i \in DOMAIN plugins :
                  /\ uses' = [uses EXCEPT ![plugins[i].handle] = @ - 1]
                  /\ plugins' = [j \in 1 .. Len(plugins) - 1 |->
                                    plugins[IF j = i THEN Len(plugins) ELSE j]]
                  /\ UNCHANGED <<manifest, entry, overrun>>
            BY <2>3 DEF aelion_plugin_unload
        <3>2. HandlesBalanced' /\ uses' \in [Dll -> Nat]
            BY <3>1, UnloadCounts
        <3>3. plugins' \in Seq(Slot) /\ Len(plugins') <= MaxPlugins /\ NamesUnique' /\ HandleOfName'
            BY <3>1, UnloadKeeps
        <3> QED
            BY <1>0, <3>1, <3>2, <3>3 DEF IInv, TypeOK
    <2> QED
        BY <2>1, <2>2, <2>3
<1>4. CASE UNCHANGED vars
    BY <1>4 DEF vars, IInv, TypeOK, NamesUnique, Plain, HandlesBalanced, Slots, HandleOfName
<1> QED
    BY <1>1, <1>2, <1>3, <1>4 DEF Next

(* The invariant that all the theorems come from. *)
LEMMA Invariant == Spec => []IInv
    BY Start, Step, PTL DEF Spec

-------------------------------------------------------------------------------
(* The bound of the table *)

Plugin == {n \in Name : Library[n] # NoPlugin}

(* Names that were not cut, in slots of their own, are as many plugins; so *)
(* a table that is full and still misses one has fewer slots than plugins. *)
LEMMA FullTableMisses ==
    ASSUME IInv, NEW n \in Name, LoadBeyond(n),
           \A i \in DOMAIN plugins : Plain(plugins[i].name)
    PROVE  Cardinality(Plugin) > MaxPlugins
<1> DEFINE name == [i \in 1 .. MaxPlugins |-> plugins[i].name]
           P == Plugin \ {n}
<1>1. /\ MaxPlugins \in Nat /\ DOMAIN plugins = 1 .. MaxPlugins /\ n \in Plugin
      /\ ~Loaded(n) /\ plugins \in Seq(Slot)
    BY PluginAssumption DEF IInv, TypeOK, LoadBeyond, Loadable, Plugin
<1>2. ASSUME NEW i \in 1 .. MaxPlugins PROVE plugins[i].name \in P
    <2>1. plugins[i] \in Slot
        BY <1>1
    <2>2. PICK m \in Name : Stored[m] = plugins[i].name /\ Library[m] = plugins[i].handle
        BY <1>1 DEF IInv, HandleOfName
    <2>3. m = plugins[i].name
        BY <1>1, <2>2 DEF Plain
    <2>4. plugins[i].name \in Plugin
        BY <2>1, <2>2, <2>3, PluginAssumption DEF Plugin, Slot
    <2>5. ASSUME plugins[i].name = n PROVE FALSE
        <3>1. \A j \in 1 .. i - 1 : j \in DOMAIN plugins /\ j # i
            BY <1>1
        <3>2. \A j \in 1 .. i - 1 : plugins[j].name # n
            BY <1>1, <2>5, <3>1 DEF IInv, NamesUnique
        <3> QED
            BY <1>1, <2>5, <3>2 DEF Loaded, find_plugin
    <2> QED
        BY <2>4, <2>5
<1>3. name \in Injection(1 .. MaxPlugins, P)
    <2>1. name \in [1 .. MaxPlugins -> P]
        BY <1>2
    <2>2. \A i, j \in 1 .. MaxPlugins : name[i] = name[j] => i = j
        BY <1>1 DEF IInv, NamesUnique
    <2> QED
        BY <2>1, <2>2 DEF Injection, IsInjective
<1>4. IsFiniteSet(Plugin)
    BY PluginAssumption, FS_Subset DEF Plugin
<1>5. /\ IsFiniteSet(P) /\ Cardinality(P) = Cardinality(Plugin) - 1
      /\ Cardinality(Plugin) \in Nat
    BY <1>1, <1>4, FS_RemoveElement, FS_CardinalityType
<1> HIDE DEF name, P
<1>6. MaxPlugins = Cardinality(1 .. MaxPlugins) /\ IsFiniteSet(1 .. MaxPlugins)
    BY <1>1, FS_Interval
<1>7. Cardinality(1 .. MaxPlugins) <= Cardinality(P)
    BY <1>3, <1>5, FS_Injection
<1> QED
    BY <1>1, <1>5, <1>6, <1>7

(* An overrun ends the model, so that its reason stays.                    *)
LEMMA OverrunStep == IInv /\ OverrunNeedsPlugins /\ [Next]_vars => OverrunNeedsPlugins'
<1> SUFFICES ASSUME IInv, OverrunNeedsPlugins, [Next]_vars PROVE OverrunNeedsPlugins'
    OBVIOUS
<1>1. CASE UNCHANGED <<plugins, overrun>>
    BY <1>1 DEF OverrunNeedsPlugins, Plain
<1>2. CASE ~overrun'
    BY <1>2 DEF OverrunNeedsPlugins
<1>3. ASSUME NEW n \in Name, LoadBeyond(n) PROVE OverrunNeedsPlugins'
    <2>1. plugins' = plugins
        BY <1>3 DEF LoadBeyond
    <2>2. CASE \A i \in DOMAIN plugins : Plain(plugins[i].name)
        BY <1>3, <2>2, FullTableMisses DEF OverrunNeedsPlugins, Plugin
    <2>3. CASE \E i \in DOMAIN plugins : ~Plain(plugins[i].name)
        BY <2>1, <2>3 DEF OverrunNeedsPlugins, Plain
    <2> QED
        BY <2>2, <2>3
<1>4. CASE ReadEntry
    <2>1. ~overrun /\ entry \in DOMAIN manifest
        BY <1>4 DEF ReadEntry
    <2>2. Stored[manifest[entry].name] \in Name
        <3>1. manifest \in Seq(Entry)
            BY PluginAssumption DEF IInv, TypeOK
        <3>2. manifest[entry] \in Entry
            BY <2>1, <3>1
        <3>3. manifest[entry].name \in Name
            BY <3>2 DEF Entry
        <3> QED
            BY <3>3, PluginAssumption
    <2>3. LoadBeyond(Stored[manifest[entry].name]) \/ overrun' = overrun
        BY <1>4 DEF ReadEntry, Load, Refuse
    <2> QED
        BY <1>2, <1>3, <2>1, <2>2, <2>3
<1>5. CASE StartShell
    BY <1>1, <1>5 DEF StartShell
<1>6. CASE Command
    <2>1. ~overrun
        BY <1>6 DEF Command
    <2>2. PICK n \in Name : LoadCommand(n) \/ aelion_plugin_unload(n)
        BY <1>6 DEF Command
    <2>3. LoadBeyond(n) \/ overrun' = overrun
        BY <2>2 DEF LoadCommand, Load, aelion_plugin_unload
    <2> QED
        BY <1>2, <1>3, <2>1, <2>3
<1> QED
    BY <1>1, <1>4, <1>5, <1>6 DEF Next, vars

-------------------------------------------------------------------------------
(* The manifest *)

InTable == {plugins[i].name : i \in DOMAIN plugins}
Wanted(k) == manifest[k].flag = "true" /\ Library[Stored[manifest[k].name]] # NoPlugin
Written == {Stored[manifest[j].name] : j \in {k \in 1 .. entry - 1 : Wanted(k)}}

(* In an orderly manifest the first flag behind a name is its own.         *)
LEMMA OwnFlag ==
    ASSUME InOrder, NEW i \in DOMAIN manifest, manifest \in Seq(Entry)
    PROVE  Autoload(i) <=> manifest[i].flag = "true"
<1>1. FlagBehind(i, i)
    BY DEF FlagBehind, InOrder
<1>2. \A k \in 1 .. i - 1 : ~FlagBehind(i, k)
    BY DEF FlagBehind
<1>3. ASSUME NEW j \in DOMAIN manifest, FlagBehind(i, j),
             \A k \in 1 .. j - 1 : ~FlagBehind(i, k)
      PROVE  j = i
    <2>1. i \in Nat /\ j \in Nat /\ i <= j
        BY <1>3 DEF FlagBehind
    <2>2. CASE i < j
        <3>1. i \in DOMAIN manifest /\ 1 <= i
            BY DEF InOrder
        <3> QED
            BY <1>1, <1>3, <2>1, <2>2, <3>1
    <2> QED
        BY <2>1, <2>2
<1> QED
    BY <1>1, <1>2, <1>3 DEF Autoload

(* What one more entry adds to the plugins that are wanted.                *)
LEMMA WrittenGrows ==
    ASSUME TypeOK, entry \in DOMAIN manifest, entry' = entry + 1, manifest' = manifest
    PROVE  Written' = Written \cup {Stored[manifest[entry].name] : j \in {k \in {entry} : Wanted(k)}}
<1>1. entry \in Nat /\ 1 <= entry
    BY PluginAssumption DEF TypeOK
<1>2. 1 .. entry' - 1 = (1 .. entry - 1) \cup {entry}
    BY <1>1
<1>3. \A k : Wanted(k)' <=> Wanted(k)
    BY DEF Wanted
<1> QED
    BY <1>2, <1>3 DEF Written

LEMMA AutoloadStep == TypeOK /\ AutoloadAsWritten /\ [Next]_vars => AutoloadAsWritten'
<1> SUFFICES ASSUME TypeOK, AutoloadAsWritten, [Next]_vars,
                    InOrder', entry' # 0, ~overrun'
             PROVE  InTable' = Written'
    BY DEF AutoloadAsWritten, InTable, Written, Wanted
<1>1. CASE UNCHANGED vars
    <2>1. /\ plugins' = plugins /\ manifest' = manifest
          /\ entry' = entry /\ overrun' = overrun
        BY <1>1 DEF vars
    <2>2. InTable' = InTable /\ Written' = Written /\ (InOrder' <=> InOrder)
        BY <2>1 DEF InTable, Written, Wanted, InOrder
    <2>3. InTable = Written
        BY <2>1, <2>2 DEF AutoloadAsWritten, InTable, Written, Wanted
    <2> QED
        BY <2>2, <2>3
<1>2. CASE ReadEntry
    <2> DEFINE n == Stored[manifest[entry].name]
    <2>1. /\ manifest \in Seq(Entry) /\ manifest' = manifest /\ entry' = entry + 1
          /\ entry \in DOMAIN manifest /\ ~overrun
        BY <1>2, PluginAssumption DEF ReadEntry, TypeOK
    <2>2. entry # 0 /\ InOrder
        BY <2>1 DEF InOrder
    <2>3. InTable = Written
        BY <2>1, <2>2 DEF AutoloadAsWritten, InTable, Written, Wanted
    <2>4. Autoload(entry) <=> manifest[entry].flag = "true"
        BY <2>1, <2>2, OwnFlag
    <2>5. n \in Name /\ Stored[n] = n
        <3>1. manifest[entry] \in Entry
            BY <2>1
        <3>2. manifest[entry].name \in Name
            BY <3>1 DEF Entry
        <3> QED
            BY <3>2, PluginAssumption
    <2>6. Written' = Written \cup {n : j \in {k \in {entry} : Wanted(k)}}
        BY <2>1, WrittenGrows
    <2>7. CASE ~Autoload(entry)
        <3>1. plugins' = plugins
            BY <1>2, <2>7 DEF ReadEntry
        <3>2. Written' = Written
            BY <2>4, <2>6, <2>7 DEF Wanted
        <3> QED
            BY <2>3, <3>1, <3>2 DEF InTable
    <2>8. CASE Autoload(entry) /\ Load(n)
        <3>1. plugins' = Append(plugins, [name |-> n, handle |-> Library[n]])
            BY <2>5, <2>8 DEF Load
        <3>2. InTable' = InTable \cup {n}
            <4>1. plugins \in Seq(Slot) /\ Len(plugins) \in Nat
                BY DEF TypeOK
            <4>2. /\ DOMAIN plugins' = (DOMAIN plugins) \cup {Len(plugins) + 1}
                  /\ \A i \in DOMAIN plugins : plugins'[i] = plugins[i]
                  /\ plugins'[Len(plugins) + 1].name = n
                BY <3>1, <4>1
            <4> QED
                BY <4>2 DEF InTable
        <3>3. Wanted(entry)
            BY <2>4, <2>8 DEF Wanted, Load, Loadable
        <3>4. Written' = Written \cup {n}
            BY <2>6, <3>3
        <3> QED
            BY <2>3, <3>2, <3>4
    <2>9. CASE Autoload(entry) /\ Refuse(n)
        <3>1. plugins' = plugins
            BY <2>9 DEF Refuse
        <3>2. Wanted(entry) => Loaded(n)
            BY <2>9 DEF Refuse, Loadable, Wanted
        <3>3. Loaded(n) => n \in InTable
            BY DEF Loaded, find_plugin, InTable
        <3>4. Written' = Written
            BY <2>3, <2>6, <3>2, <3>3
        <3> QED
            BY <2>3, <3>1, <3>4 DEF InTable
    <2> QED
        BY <1>2, <2>7, <2>8, <2>9 DEF ReadEntry, LoadBeyond
<1>3. CASE StartShell \/ Command
    BY <1>3 DEF StartShell, Command, LoadCommand, aelion_plugin_unload
<1> QED
    BY <1>1, <1>2, <1>3 DEF Next

-------------------------------------------------------------------------------
(* The theorems *)

(* The slots in use are never more than the table has, and the loader's    *)
(* counts never go below zero.                                             *)
THEOREM TableTypeCorrect == Spec => []TypeOK
<1>1. IInv => TypeOK
    BY DEF IInv
<1> QED
    BY <1>1, Invariant, PTL

(* A plugin whose name was not cut is in the table at most once.           *)
THEOREM NamesAreUnique == Spec => []NamesUnique
<1>1. IInv => NamesUnique
    BY DEF IInv
<1> QED
    BY <1>1, Invariant, PTL

(* Through any sequence of loads and unloads the loader counts for each    *)
(* library exactly the slots that use it.                                  *)
THEOREM CountsAreSlots == Spec => []HandlesBalanced
<1>1. IInv => HandlesBalanced
    BY DEF IInv
<1> QED
    BY <1>1, Invariant, PTL

(* A slot that unload has moved still pairs a name with its own library.   *)
THEOREM PluginsKeepLibrary == Spec => []HandleOfName
<1>1. IInv => HandleOfName
    BY DEF IInv
<1> QED
    BY <1>1, Invariant, PTL

(* As long as there are no more plugins than slots and no name was cut, no *)
(* sequence of loads and unloads writes behind the table.                  *)
THEOREM OverrunHasReason == Spec => []OverrunNeedsPlugins
<1>1. Init => OverrunNeedsPlugins
    BY DEF Init, OverrunNeedsPlugins
<1> QED
    BY <1>1, OverrunStep, Invariant, PTL DEF Spec

(* A manifest whose entries have each their own flag behind the name loads *)
(* exactly the plugins whose entries say so, for every manifest.           *)
THEOREM AutoloadLoadsAsWritten == Spec => []AutoloadAsWritten
<1>1. Init => AutoloadAsWritten
    BY DEF Init, AutoloadAsWritten
<1>2. IInv => TypeOK
    BY DEF IInv
<1> QED
    BY <1>1, <1>2, AutoloadStep, Invariant, PTL DEF Spec
===============================================================================
