----------------------------- MODULE AddonDesk -----------------------------
(***************************************************************************)
(* The addons a household installed (addon_api.go, addon.go): a list in    *)
(* the order of preference, its file, and the registry of providers that   *)
(* is made to match it.  Every change is made and saved under the store's  *)
(* lock; the registry has a lock of its own, and the list it is given was  *)
(* read before that lock was taken.  The addons are external.              *)
(***************************************************************************)
EXTENDS Integers, FiniteSets, SequencesExt, Lines

CONSTANTS
    Addons,          \* by id
    Configurations,  \* what the pasted URL says besides the id
    Searchable,      \* those whose manifest has a searchable catalog
    Homes,           \* browsers of the owner, one request at a time each
    MaxInstalled,    \* addonMaxInstalled
    MaxUnsaved       \* bound: saves that fail

ASSUME AddonAssumption ==
    Searchable \subseteq Addons /\ MaxInstalled \in Nat /\ MaxUnsaved \in Nat

VARIABLES
    installed,   \* addonStore.items
    onDisk,      \* the file of the list
    registry,    \* the addon-backed providers of the registry
    home,        \* per browser: its request
    unsaved      \* saves that failed

addonVars == <<installed, onDisk, registry, home, unsaved>>

Idling == [at |-> "idle", list |-> <<>>, waits |-> {}, silent |-> {}, told |-> "nothing"]

Position(a) == {i \in DOMAIN installed : installed[i].addon = a}
Has(a) == Position(a) # {}
Place(a) == CHOOSE i \in Position(a) : TRUE
Entry(a) == installed[Place(a)]
Listed(s) == {s[i].addon : i \in DOMAIN s}

\* addonProviders: what the registry is to hold.
TurnedOn(list) == {i \in DOMAIN list : list[i].enabled}
Enabled(list) == Kept(list, TurnedOn(list))

AddonsInit ==
    /\ installed = <<>> /\ onDisk = <<>> /\ registry = <<>> /\ unsaved = 0
    /\ home = [h \in Homes |-> Idling]

Goes(h, place) == home' = [home EXCEPT ![h] = [Idling EXCEPT !.at = place]]
Replies(h, told) == home' = [home EXCEPT ![h] = [Idling EXCEPT !.told = told]]

-----------------------------------------------------------------------------
(* Changes to the list.                                                    *)

Saved(list) == onDisk' = list /\ UNCHANGED unsaved
NotSaved == unsaved < MaxUnsaved /\ unsaved' = unsaved + 1 /\ UNCHANGED onDisk

\* Slip: what is pasted again is listed again.
WithAddonAgain(a, c) == Append(installed, [addon |-> a, config |-> c, enabled |-> TRUE])

\* Add: an addon that is there keeps its place, and is switched on again.
WithAddon(a, c) ==
    LET row == [addon |-> a, config |-> c, enabled |-> TRUE]
    IN  IF Has(a)
        THEN [i \in DOMAIN installed |-> IF i \in Position(a) THEN row ELSE installed[i]]
        ELSE Append(installed, row)

\* handleAdd, once the manifest was read: no room, or a failed save, is refused (409), which
\* leaves the registry as it is, and the list changed in the second case.
InstallAddon(h, a, c) ==
    /\ home[h].at = "idle"
    /\ UNCHANGED registry
    /\ IF ~Has(a) /\ Len(installed) >= MaxInstalled
       THEN Replies(h, "no") /\ UNCHANGED <<installed, onDisk, unsaved>>
       ELSE /\ installed' = WithAddon(a, c)
            /\ \/ Saved(installed') /\ Goes(h, "changed")
               \/ NotSaved /\ Replies(h, "no")

\* handleAdd: the URL is refused, or what answers is no manifest.
RefuseAddon(h) ==
    /\ home[h].at = "idle"
    /\ Replies(h, "no")
    /\ UNCHANGED <<installed, onDisk, registry, unsaved>>

\* The other changes: a failed save is only logged.
Changes(h, list) ==
    /\ home[h].at = "idle"
    /\ installed' = list
    /\ Saved(list) \/ NotSaved
    /\ Goes(h, "changed") /\ UNCHANGED registry

Others(a) == RemoveAt(installed, Place(a))

RemoveAddon(h, a) == Has(a) /\ Changes(h, Others(a))

SwitchAddon(h, a, on) ==
    Has(a) /\ Changes(h, [i \in DOMAIN installed |->
        IF i \in Position(a) THEN [installed[i] EXCEPT !.enabled = on] ELSE installed[i]])

Unknown(h, a) ==
    /\ home[h].at = "idle" /\ ~Has(a) /\ Replies(h, "no")
    /\ UNCHANGED <<installed, onDisk, registry, unsaved>>

\* Slip: the list becomes what this browser knows of it.
ReorderedAsNamed(ids) ==
    LET known == SelectSeq(ids, LAMBDA a : Has(a))
    IN  [i \in DOMAIN known |-> Entry(known[i])]

\* Reorder, a stable sort: the named ones first, in that order; the others follow in theirs.
\* An id that is named twice counts where it is named first.
NamedAs(ids, a) ==
    IF a \in ToSet(ids) THEN CHOOSE i \in DOMAIN ids : ids[i] = a /\ \A j \in 1..(i - 1) : ids[j] # a
    ELSE Len(ids) + 1
Ahead(ids, i) ==
    LET named(k) == NamedAs(ids, installed[k].addon)
    IN  {k \in DOMAIN installed : named(k) < named(i) \/ (named(k) = named(i) /\ k < i)}
Reordered(ids) ==
    [n \in DOMAIN installed |->
        installed[CHOOSE i \in DOMAIN installed : Cardinality(Ahead(ids, i)) = n - 1]]

ReorderAddons(h, ids) == Changes(h, Reordered(ids))

\* syncRegistry: addonProviders reads the list under the store's lock,
ReadForRegistry(h) ==
    /\ home[h].at = "changed"
    /\ home' = [home EXCEPT ![h].at = "syncing", ![h].list = Enabled(installed)]
    /\ UNCHANGED <<installed, onDisk, registry, unsaved>>

\* and ReplaceAddons puts it in under the registry's.  (The domains it checks are those of
\* addonDomains, canonical already: the check turns nobody away.)
ReplaceAddons(h) ==
    /\ home[h].at = "syncing"
    /\ registry' = home[h].list /\ Replies(h, "yes")
    /\ UNCHANGED <<installed, onDisk, unsaved>>

-----------------------------------------------------------------------------
(* Questions to the addons.                                                *)

\* handleSearch: every addon that is on and can search is asked at once.
SearchAddons(h) ==
    /\ home[h].at = "idle"
    /\ LET able == {i \in TurnedOn(installed) : installed[i].addon \in Searchable}
       IN  home' = [home EXCEPT ![h] = [Idling EXCEPT !.at = "searching",
                        !.list = Kept(installed, able), !.waits = {installed[i].addon : i \in able}]]
    /\ UNCHANGED <<installed, onDisk, registry, unsaved>>

\* One that errs, panics or takes too long is named among those that failed.
Silent(h, a) ==
    home' = [home EXCEPT ![h].waits = @ \ {a}, ![h].silent = @ \cup {a}]

AddonAnswers(h, a) ==
    /\ home[h].at = "searching" /\ a \in home[h].waits
    /\ \/ home' = [home EXCEPT ![h].waits = @ \ {a}]
       \/ Silent(h, a)
    /\ UNCHANGED <<installed, onDisk, registry, unsaved>>

SearchAnswered(h) ==
    /\ home[h].at = "searching" /\ home[h].waits = {} /\ Replies(h, "yes")
    /\ UNCHANGED <<installed, onDisk, registry, unsaved>>

\* handleMeta, handleStream, handleSubtitles: resolve, then one question.
AskAddon(h, a) ==
    /\ home[h].at = "idle" /\ Has(a)
    /\ \/ Entry(a).enabled /\ Replies(h, "yes")
       \/ Replies(h, "no")    \* it is off, or does not answer
    /\ UNCHANGED <<installed, onDisk, registry, unsaved>>

\* newAddonStore and registerAddonRoutesWith.
AddonRestart ==
    /\ installed' = onDisk /\ registry' = Enabled(onDisk)
    /\ home' = [h \in Homes |-> Idling]
    /\ UNCHANGED <<onDisk, unsaved>>

AddonStep(h) ==
    \/ \E a \in Addons :
        \/ \E c \in Configurations : InstallAddon(h, a, c)
        \/ RemoveAddon(h, a) \/ Unknown(h, a) \/ AskAddon(h, a) \/ AddonAnswers(h, a)
        \/ \E on \in BOOLEAN : SwitchAddon(h, a, on)
        \/ \E b \in Addons : ReorderAddons(h, <<a, b>>)
    \/ RefuseAddon(h) \/ ReadForRegistry(h) \/ ReplaceAddons(h)
    \/ SearchAddons(h) \/ SearchAnswered(h)

AddonsNext == AddonRestart \/ \E h \in Homes : AddonStep(h)
AddonsSpec == AddonsInit /\ [][AddonsNext]_addonVars

-----------------------------------------------------------------------------
Rosters == BoundedSeq([addon : Addons, config : Configurations, enabled : BOOLEAN],
                      MaxInstalled)
OneRowEach(s) == Cardinality(Listed(s)) = Len(s)

\* Every variable has its type, and no addon is listed twice, whoever installs.
AddonsTypeOK ==
    /\ \A s \in {installed, onDisk, registry} \cup {home[h].list : h \in Homes} :
         s \in Rosters /\ OneRowEach(s)
    /\ \A h \in Homes :
         /\ home[h].at \in {"idle", "changed", "syncing", "searching"}
         /\ home[h].waits \cap home[h].silent = {}
         /\ home[h].waits \cup home[h].silent \subseteq Listed(home[h].list)
    /\ unsaved \in 0..MaxUnsaved

\* A list that is reordered from what one browser remembers of it loses nothing that
\* another installed meanwhile, and what it does not name keeps its order: an addon only
\* leaves when it is removed or the service restarts (Reorder, Remove, newAddonStore).
NoBrowserDropsAnothersAddon ==
    [][\A a \in Addons : Has(a) /\ ~Has(a)' =>
        AddonRestart \/ \E h \in Homes : RemoveAddon(h, a)]_addonVars

=============================================================================
