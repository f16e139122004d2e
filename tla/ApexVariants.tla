----------------------------- MODULE ApexVariants -----------------------------
(***************************************************************************)
(* The mutators that give modules a variant for the APEXes they are in:    *)
(* apex_info, apex_unique, apex and apex_directly_in_any, of apex/apex.go, *)
(* apex/prebuilt.go and android/apex.go.  Each mutator goes through all    *)
(* the modules, in parallel, before the next one starts; a bottom up one   *)
(* visits a module after its dependencies.  Blueprint, which does this and *)
(* moves dependencies from a module to its variants, is not part of the    *)
(* repository and is modelled from what the mutators rely on.              *)
(*                                                                         *)
(* The name of a variation is a tuple: <<>> for the platform, <<name>> for *)
(* an APEX, <<"apex", ...>> for a merged one.  Lists are sets.             *)
(***************************************************************************)
EXTENDS Naturals, Sequences

CONSTANTS
    Modules,     \* the modules that can have APEX variants
    Worlds       \* the trees, which are as described by World

\* The tags of dependencies between modules.  "link" is in the same APEX,
\* "content" too, and is a CopyDirectlyInAnyApexTag; "stub" is not; "sdk" is
\* an AlwaysRequireApexVariantTag and excluded from the contents.
Tags == {"none", "link", "content", "stub", "sdk"}

\* A tree: [bundles, tag, unique, vndk], a bundle being [type, name,
\* minSdkVersion, apis, useVndkAsStable, deps], apis "private" if it uses
\* platform APIs.  Dependencies go from smaller to larger modules; bundles of
\* one name are alternatives, built for the same API.
WellFormed(w) ==
    /\ w.unique \subseteq Modules /\ w.vndk \subseteq Modules
    /\ w.tag \in [Modules \X Modules -> Tags]
    /\ \A d \in DOMAIN w.tag : w.tag[d] # "none" => d[1] < d[2]
    /\ \A b \in DOMAIN w.bundles :
          /\ w.bundles[b].type \in {"apex", "prebuilt_apex"}
          /\ w.bundles[b].apis \in {"private", "public"}
          /\ w.bundles[b].deps \subseteq Modules
    /\ \A b, c \in DOMAIN w.bundles : w.bundles[b].name = w.bundles[c].name =>
          /\ w.bundles[b].minSdkVersion = w.bundles[c].minSdkVersion
          /\ w.bundles[b].apis = w.bundles[c].apis
          /\ w.bundles[b].type = w.bundles[c].type
    /\ \A b \in DOMAIN w.bundles :
          w.bundles[b].useVndkAsStable =>
              w.bundles[b].type = "apex" /\ w.bundles[b].deps \cap w.vndk = {}

ASSUME WorldsAssumption == Modules \subseteq Nat /\ \A w \in Worlds : WellFormed(w)

VARIABLES
    world,       \* the tree that is built
    mutator,     \* the one that runs
    visited,     \* the modules it has visited
    marked,      \* marked[b]: the modules that b's walk has marked
    apexInfos,   \* apexInfos[m]: the ApexInfos of module m
    uniqueForDeps, \* the modules with UniqueApexVariationsForDeps
    variants,    \* variants[m]: the ApexInfos of its variants, <<>> the platform's
    aliases,     \* aliases[m]: [from variation -> to variation]
    direct,      \* direct[m]: its variations with DirectlyInAnyApex
    anyDirect    \* the modules with AnyVariantDirectlyInAnyApex

variantsVars == <<world, mutator, visited, marked, apexInfos, uniqueForDeps, variants, aliases,
                  direct, anyDirect>>

Mutators == <<"apex_info", "apex_unique", "apex", "apex_directly_in_any", "done">>

Bundles == DOMAIN world.bundles
Tag(m, d) == world.tag[<<m, d>>]
Deps(m) == {d \in Modules : Tag(m, d) # "none"}

\* An ApexInfo.
Info(name, minSdkVersion, apis, type, inApexVariants, inApexModules, contents) ==
    [name |-> name, minSdkVersion |-> minSdkVersion, apis |-> apis, type |-> type,
     inApexVariants |-> inApexVariants, inApexModules |-> inApexModules, contents |-> contents]

Platform == Info(<<>>, 0, "private", "apex", {}, {}, {})

Variations(m) == {i.name : i \in variants[m]}

VariantsInit ==
    /\ world \in Worlds
    /\ mutator = 1
    /\ visited = {}
    /\ marked = [b \in DOMAIN world.bundles |-> {}]
    /\ apexInfos = [m \in Modules |-> {}]
    /\ uniqueForDeps = {}
    /\ variants = [m \in Modules |-> {Platform}]
    /\ aliases = [m \in Modules |-> <<>>]
    /\ direct = [m \in Modules |-> {}]
    /\ anyDirect = {}

At(name) == Mutators[mutator] = name
-----------------------------------------------------------------------------
(* apex_info, for all bundles in parallel *)

\* The dependencies that the walk from bundle b follows: continueApexDepsWalk,
\* and the function that prebuiltCommon.apexInfoMutator walks with.
InSameApex(m, d) == Tag(m, d) \in {"link", "content"}

Follows(b, m, d) ==
    \/ world.bundles[b].type = "apex" /\ Tag(m, d) = "sdk"
    \/ /\ InSameApex(m, d)
       /\ ~ (world.bundles[b].useVndkAsStable /\ d \in world.vndk)

\* The ApexInfo that bundle b marks modules with.  Its ApexContents are those
\* of b.
ApexInfo(b) ==
    LET bundle == world.bundles[b] IN
    IF bundle.type = "prebuilt_apex"
    THEN Info(<<bundle.name>>, 0, "public", bundle.type, {<<bundle.name>>}, {b}, {b})
    ELSE Info(<<bundle.name>>, bundle.minSdkVersion, bundle.apis, bundle.type,
              {<<bundle.name>>}, {b}, {b})

\* Defect: a second APEX of the same variation name is dropped.
BuildForApexDropping(infos, info) ==
    IF \E i \in infos : i.name = info.name THEN infos ELSE infos \cup {info}

\* The contents of the APEX that comes first are kept.
BuildForApex(infos, info) ==
    IF \E i \in infos : i.name = info.name
    THEN {IF i.name = info.name
          THEN Info(i.name, i.minSdkVersion, i.apis, i.type, i.inApexVariants,
                    i.inApexModules \cup info.inApexModules, i.contents)
          ELSE i : i \in infos}
    ELSE infos \cup {info}

ToMark(b) ==
    {m \in Modules \ marked[b] :
        m \in world.bundles[b].deps \/ \E p \in marked[b] : Follows(b, p, m)}

\* One call of BuildForApex from the walk of bundle b, under apexInfosLock.
Mark(b, m) ==
    /\ At("apex_info") /\ m \in ToMark(b)
    /\ marked' = [marked EXCEPT ![b] = @ \cup {m}]
    /\ apexInfos' = [apexInfos EXCEPT ![m] = BuildForApex(@, ApexInfo(b))]
    /\ UNCHANGED <<world, mutator, visited, uniqueForDeps, variants, aliases, direct, anyDirect>>
-----------------------------------------------------------------------------
(* The bottom up mutators *)

\* Blueprint: a module is visited after its dependencies.
Visit(name, m) ==
    /\ At(name) /\ m \notin visited /\ Deps(m) \subseteq visited
    /\ visited' = visited \cup {m}
    /\ UNCHANGED <<world, mutator, marked>>

\* Blueprint: the next mutator starts when all modules have been visited.
NextMutator ==
    /\ IF At("apex_info") THEN \A b \in Bundles : ToMark(b) = {} ELSE visited = Modules
    /\ mutator < Len(Mutators)
    /\ mutator' = mutator + 1
    /\ visited' = {}
    /\ UNCHANGED <<world, marked, apexInfos, uniqueForDeps, variants, aliases, direct, anyDirect>>

InApexVariants(infos) == UNION {i.inApexVariants : i \in infos}

AnyInSameApex(a, b) == InApexVariants(a) \cap InApexVariants(b) # {}

Unique(m) == m \in world.unique \cup uniqueForDeps

\* Defect: only the dependencies' own property is looked at.
NeedsUniqueDirect(m) ==
    \E d \in Deps(m) : AnyInSameApex(apexInfos[d], apexInfos[m]) /\ d \in world.unique

NeedsUnique(m) == \E d \in Deps(m) : AnyInSameApex(apexInfos[d], apexInfos[m]) /\ Unique(d)

UpdateUniqueApexVariationsForDeps(m) ==
    /\ Visit("apex_unique", m)
    /\ uniqueForDeps' = IF NeedsUnique(m) THEN uniqueForDeps \cup {m} ELSE uniqueForDeps
    /\ UNCHANGED <<apexInfos, variants, aliases, direct, anyDirect>>

MergedName(info) == <<"apex", info.minSdkVersion, info.apis>>

\* Those that are not for a prebuilt_apex are merged.
Merging(infos) == {i \in infos : i.type # "prebuilt_apex"}

\* Those of them that have the same merged name become one.
Merge(infos, name) ==
    LET same == {i \in Merging(infos) : MergedName(i) = name}
        first == CHOOSE i \in same : TRUE
    IN  Info(name, first.minSdkVersion, first.apis, first.type, InApexVariants(same),
             UNION {i.inApexModules : i \in same}, UNION {i.contents : i \in same})

MergeApexVariations(infos) ==
    (infos \ Merging(infos)) \cup {Merge(infos, MergedName(i)) : i \in Merging(infos)}

MergedAliases(infos) ==
    [name \in {i.name : i \in Merging(infos)} |->
        MergedName(CHOOSE i \in Merging(infos) : i.name = name)]

\* Defect: memberships are not merged, that in one of the APEXes counts.
DirectlyInOne(m, infos) ==
    infos # {} /\ m \in world.bundles[CHOOSE b \in Bundles : \E i \in infos : b \in i.contents].deps

DirectlyIn(m, infos) ==
    \E i \in infos, b \in Bundles : b \in i.contents /\ m \in world.bundles[b].deps

CreateApexVariations(m) ==
    LET infos == IF Unique(m) THEN apexInfos[m] ELSE MergeApexVariations(apexInfos[m])
        names == {i.name : i \in infos} \cup {<<>>}
    IN  /\ Visit("apex", m)
        /\ variants' = [variants EXCEPT ![m] = infos \cup {Platform}]
        /\ aliases' = [aliases EXCEPT ![m] = IF Unique(m) THEN <<>> ELSE MergedAliases(apexInfos[m])]
        /\ apexInfos' = [apexInfos EXCEPT ![m] = {}]
        /\ direct' = [direct EXCEPT ![m] = IF DirectlyIn(m, infos) THEN names ELSE {}]
        /\ UNCHANGED <<uniqueForDeps, anyDirect>>

\* Blueprint: which variant of d a module's variant v depends on: that of the
\* same name, that of which it is an alias, or the default one.
Resolve(d, v) ==
    IF v \in Variations(d) THEN v
    ELSE IF v \in DOMAIN aliases[d] THEN aliases[d][v]
    ELSE <<>>

\* UpdateDirectlyInAnyApex for the variants of m, which are visited in turn.
UpdateDirectlyInAnyApex(m) ==
    LET contents == {d \in Modules : Tag(m, d) = "content"} IN
    /\ Visit("apex_directly_in_any", m)
    /\ direct' = [d \in Modules |->
            IF d \notin contents THEN direct[d]
            ELSE {w \in Variations(d) :
                    LET from == {v \in Variations(m) : Resolve(d, v) = w}
                    IN  IF from = {} THEN w \in direct[d] ELSE from \cap direct[m] # {}}]
    /\ anyDirect' = IF direct[m] # {} THEN anyDirect \cup {m} ELSE anyDirect
    /\ UNCHANGED <<apexInfos, uniqueForDeps, variants, aliases>>

VariantsNext ==
    \/ \E b \in Bundles, m \in Modules : Mark(b, m)
    \/ NextMutator
    \/ \E m \in Modules :
          \/ UpdateUniqueApexVariationsForDeps(m)
          \/ CreateApexVariations(m)
          \/ UpdateDirectlyInAnyApex(m)

VariantsSpec == VariantsInit /\ [][VariantsNext]_variantsVars
-----------------------------------------------------------------------------
Variant(m, name) == CHOOSE i \in variants[m] : i.name = name

(***************************************************************************)
(* A variant of a module is built with the right variant of what it needs  *)
(* ("so that the module can link against the right variant",               *)
(* android/apex.go:631; "for every APEX variant created for the `from`     *)
(* module", sdk/sdk.go:307): whatever was merged or kept unique on either  *)
(* side, the dependency's variant is in each of the APEXes for which the   *)
(* walk followed the dependency, and is built for the same API.            *)
(***************************************************************************)
LinksWithinApex ==
    At("done") =>
        \A m \in Modules : \A d \in Deps(m), i \in variants[m] : \A b \in i.inApexModules :
            Follows(b, m, d) =>
                LET to == Variant(d, Resolve(d, i.name))
                IN  /\ b \in to.inApexModules
                    /\ to.minSdkVersion = i.minSdkVersion /\ to.apis = i.apis
                    /\ d \in world.unique => to.inApexVariants = {to.name}

(***************************************************************************)
(* No APEX is lost, "add the apex name to the list so that it's not lost"  *)
(* (android/apex.go:388): each module that a walk has marked has exactly   *)
(* one variant for the APEX, in whatever order the walks of several APEXes *)
(* came by, and it is the one that the APEX itself depends on.             *)
(***************************************************************************)
NoApexLost ==
    At("done") =>
        \A b \in Bundles, m \in Modules :
            {v \in Variations(m) : \E i \in variants[m] : i.name = v /\ b \in i.inApexModules} =
                IF m \in marked[b] THEN {Resolve(m, <<world.bundles[b].name>>)} ELSE {}

(***************************************************************************)
(* DirectlyInAnyApex and AnyVariantDirectlyInAnyApex say whether some APEX *)
(* depends on the module directly.  It depends on the order of the walks   *)
(* when APEXes share their variation name, as only the contents of the     *)
(* first are kept, and on the modules a module is a content of; so this is *)
(* for modules that are no contents, in trees where names are distinct.    *)
(***************************************************************************)
DirectMembershipIsExact ==
    At("done") /\ (\A b, c \in Bundles : world.bundles[b].name = world.bundles[c].name => b = c) =>
        \A m \in Modules :
            (\A p \in Modules : Tag(p, m) # "content") =>
                LET directly == \E b \in Bundles : m \in world.bundles[b].deps
                IN  /\ direct[m] = IF directly THEN Variations(m) ELSE {}
                    /\ m \in anyDirect <=> directly
=============================================================================
