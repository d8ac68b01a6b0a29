---------------------------- MODULE ServiceHealth ----------------------------
(***************************************************************************)
(* The settings screen and the activity screen (providers_api.go): every   *)
(* registered service is asked at once, each with its own deadline, while  *)
(* the services break and are repaired.  Each adapter climbs its own       *)
(* ladder of questions (provider_arr_common.go, provider_jellyfin.go,      *)
(* provider_plex.go, provider_romarr.go, provider_romm.go, addon.go,       *)
(* linear_epg.go) and says one of the six states of schema.json.  The      *)
(* services are external: a set of faults, and what they answer with them. *)
(***************************************************************************)
EXTENDS Integers, FiniteSets, Sequences, FiniteSetsExt, Lines

CONSTANTS
    Households,   \* the configurations: sequences of records [id, kind]
    Troubles,     \* the faults that befall the services of this instance
    MaxFaults,    \* bound: what is wrong at the start
    MaxTurns,     \* bound: how often something breaks or is repaired
    MaxPanics     \* bound: checks that panic

ASSUME HealthAssumption == MaxFaults \in Nat /\ MaxTurns \in Nat /\ MaxPanics \in Nat

VARIABLES
    registry,   \* Registry.providers, in the order of registration
    faults,     \* external: pairs <<id, what is wrong with it>>
    busy,       \* external: the services with work in flight
    turns,
    panics,
    page,       \* the settings screen: per service how far its check is, and its row
    screen      \* the activity screen: who has yet to answer, whose rows came, who failed

healthVars == <<registry, faults, busy, turns, panics, page, screen>>

Arrs == {"radarr", "sonarr", "lidarr"}
Kinds == Arrs \cup {"jellyfin", "plex", "romarr", "romm", "addon", "linear"}

\* What can be wrong: with the configuration; with the service.
Unset == {"noAddress", "noKey"}
Broken == {"down", "failing", "foreign", "webPage", "sibling", "old", "wrongKey", "unfinished",
           "ailing"}
Wrong == Unset \cup Broken
ASSUME TroublesAssumption == Troubles \subseteq Wrong

\* What can befall which kind: channels only lack definitions or programmes, an addon needs
\* no key of ours, and so on.
Befalls(kind) ==
    IF kind = "linear" THEN {"noAddress", "ailing"}
    ELSE {"down", "failing", "foreign", "webPage", "old", "wrongKey"}
         \cup (IF kind # "addon" THEN Unset ELSE {})
         \cup (IF kind \in Arrs \cup {"plex"} THEN {"sibling"} ELSE {})
         \cup (IF kind \in {"jellyfin", "romm", "addon"} THEN {"unfinished"} ELSE {})
         \cup (IF kind # "romm" THEN {"ailing"} ELSE {})

HealthStates == {"healthy", "not_configured", "unreachable", "auth_failed", "incompatible",
                 "degraded"}

-----------------------------------------------------------------------------
(* The registry.                                                           *)

ActivityKinds == Arrs \cup {"romarr"}

\* Registry.Add: an id is registered once; who claims it again is left out.
Admitted(list) == {i \in DOMAIN list : \A j \in DOMAIN list : j < i => list[j].id # list[i].id}
Registered(configured) == Kept(configured, Admitted(configured))

\* Everything that is registered has an adapter.
ASSUME HouseholdsAssumption ==
    \A h \in Households : /\ h \in Seq({h[i] : i \in DOMAIN h})
                          /\ \A i \in DOMAIN Registered(h) : Registered(h)[i].kind \in Kinds

Ids == {registry[i].id : i \in DOMAIN registry}
KindOf(id) == registry[CHOOSE i \in DOMAIN registry : registry[i].id = id].kind

-----------------------------------------------------------------------------
(* What a service answers (external): a document that is not asked for the *)
(* key is given to anyone.                                                 *)

FaultsOf(id) == {w \in Wrong : <<id, w>> \in faults}
Reply(wrong, keyed) ==
    IF "down" \in wrong THEN "silence"
    ELSE IF "failing" \in wrong THEN "error"
    ELSE IF "foreign" \in wrong THEN "notFound"
    ELSE IF "webPage" \in wrong THEN "page"
    ELSE IF keyed /\ "wrongKey" \in wrong THEN "refused"
    ELSE "document"

-----------------------------------------------------------------------------
(* The ladders: the rungs of each adapter are climbed in their order, and  *)
(* the first that has a verdict says it; nobody falls off the last one.  A *)
(* ladder with two questions says "goOn" after the first.                  *)

Rung(condition, verdict) == IF condition THEN verdict ELSE "next"
Climb(rungs) ==
    LET told == {i \in DOMAIN rungs : rungs[i] # "next"}
    IN  IF told = {} THEN "next" ELSE rungs[CHOOSE i \in told : \A j \in told : i <= j]
NotSet(wrong) == Rung(wrong \cap Unset # {}, "not_configured")

\* A body that is no JSON reads like no answer in every client but the addons'.
Silence == {"silence", "page"}

\* A document of something else, or of a version that cannot be read or is too old.
NotOurs == {"sibling", "old"}

\* arrClient.health: system/status, asked with the key.
ArrStatus(wrong) ==
    LET reply == Reply(wrong, TRUE)
    IN  Climb(<<NotSet(wrong),
                Rung(reply = "refused", "auth_failed"),
                Rung(reply = "notFound", "incompatible"),
                Rung(reply = "error", "degraded"),
                Rung(reply \in Silence, "unreachable"),
                Rung(wrong \cap NotOurs # {}, "incompatible"),
                "goOn">>)

\* Then what it thinks of itself.
ArrHealth(wrong) ==
    IF Reply(wrong, TRUE) # "document" \/ "ailing" \in wrong THEN "degraded" ELSE "healthy"

\* What the media servers and RomM tell anyone.
OpenRungs(wrong) ==
    LET reply == Reply(wrong, FALSE)
    IN  Climb(<<NotSet(wrong),
                Rung(reply = "notFound", "incompatible"),
                Rung(reply = "error", "degraded"),
                Rung(reply \in Silence, "unreachable")>>)

\* What they tell the holder of a key; the verdict on silence is their own.
KeyRungs(wrong, silence) ==
    LET reply == Reply(wrong, TRUE)
    IN  Climb(<<Rung(reply = "refused", "auth_failed"),
                Rung(reply = "notFound", "incompatible"),
                Rung(reply = "error", "degraded"),
                Rung(reply \in Silence, silence),
                Rung("ailing" \in wrong, "degraded"),
                "healthy">>)

\* /System/Info/Public, then /System/Info.
JellyfinPublic(wrong) ==
    Climb(<<OpenRungs(wrong), Rung("old" \in wrong, "incompatible"),
            Rung("unfinished" \in wrong, "degraded"), "goOn">>)
JellyfinInfo(wrong) == KeyRungs(wrong, "degraded")

\* Slip: any server of a good version is taken for Plex.
PlexIdentityOfAny(wrong) ==
    Climb(<<OpenRungs(wrong), Rung("old" \in wrong, "incompatible"), "goOn">>)

\* /identity, then /library/sections.
PlexIdentity(wrong) ==
    Climb(<<OpenRungs(wrong), Rung(wrong \cap NotOurs # {}, "incompatible"), "goOn">>)
PlexSections(wrong) == KeyRungs(wrong, "degraded")

\* Romarr asks one question, with the key.
RomarrHealth(wrong) ==
    LET reply == Reply(wrong, TRUE)
    IN  Climb(<<NotSet(wrong),
                Rung(reply = "refused", "auth_failed"),
                Rung(reply = "notFound", "incompatible"),
                Rung(reply = "error", "degraded"),
                Rung(reply \in Silence, "unreachable"),
                Rung("old" \in wrong, "incompatible"),
                Rung("ailing" \in wrong, "degraded"),
                "healthy">>)

\* /api/heartbeat, then /api/platforms, whose silence is unreachable still.
RommHeartbeat(wrong) == JellyfinPublic(wrong)
RommPlatforms(wrong) == KeyRungs(wrong, "unreachable")

\* The manifest is fetched anew; its stored copy says whether it must be configured first.
AddonHealthFromError(reply) ==
    CASE reply = "refused" -> "auth_failed" [] reply \in {"notFound", "page"} -> "incompatible"
      [] OTHER -> "unreachable"
AddonHealth(wrong) ==
    LET reply == Reply(wrong, TRUE)
    IN  Climb(<<Rung("unfinished" \in wrong, "not_configured"),
                Rung(reply # "document", AddonHealthFromError(reply)),
                Rung("old" \in wrong, "incompatible"),
                Rung("ailing" \in wrong, "degraded"),
                "healthy">>)

\* The channels: none defined or all switched off; some have nothing to play.
LinearHealth(wrong) ==
    Climb(<<NotSet(wrong), Rung("ailing" \in wrong, "degraded"), "healthy">>)

First(kind, wrong) ==
    CASE kind \in Arrs -> ArrStatus(wrong)
      [] kind = "jellyfin" -> JellyfinPublic(wrong)
      [] kind = "plex" -> PlexIdentity(wrong)
      [] kind = "romarr" -> RomarrHealth(wrong)
      [] kind = "romm" -> RommHeartbeat(wrong)
      [] kind = "addon" -> AddonHealth(wrong)
      [] kind = "linear" -> LinearHealth(wrong)

Second(kind, wrong) ==
    CASE kind \in Arrs -> ArrHealth(wrong)
      [] kind = "jellyfin" -> JellyfinInfo(wrong)
      [] kind = "plex" -> PlexSections(wrong)
      [] kind = "romm" -> RommPlatforms(wrong)

-----------------------------------------------------------------------------
(* The two screens.                                                        *)

\* One check: how far it is, what it says, whether it lost the id of its service, and
\* (for the property) the faults at some and at every moment of it.
NewCheck(id) ==
    [at |-> "first", says |-> "nothing", lost |-> FALSE, ever |-> FaultsOf(id),
     always |-> FaultsOf(id)]
NoScreen == [open |-> FALSE, waits |-> {}, rows |-> {}, failed |-> {}, stayed |-> {}]

HealthInit ==
    /\ registry \in {Registered(h) : h \in Households}
    /\ faults \in UNION {kSubset(n, {f \in Ids \X Troubles : f[2] \in Befalls(KindOf(f[1]))})
                            : n \in 0..MaxFaults}
    /\ busy \in SUBSET {id \in Ids : KindOf(id) \in ActivityKinds}
    /\ turns = 0 /\ panics = 0 /\ page = <<>> /\ screen = NoScreen

\* External: something breaks or is repaired, work begins or ends.
SeenBy(id, now) ==
    [page[id] EXCEPT !.ever = IF page[id].at = "done" THEN @ ELSE @ \cup now,
                     !.always = IF page[id].at = "done" THEN @ ELSE @ \cap now]
TurnOn(id) ==
    /\ turns < MaxTurns /\ turns' = turns + 1
    /\ \/ /\ \E w \in (Troubles \ Unset) \cap Befalls(KindOf(id)) :
                faults' = IF <<id, w>> \in faults THEN faults \ {<<id, w>>}
                          ELSE faults \cup {<<id, w>>}
          /\ page' = [i \in DOMAIN page |-> SeenBy(i, {w \in Wrong : <<i, w>> \in faults'})]
          /\ UNCHANGED <<busy, screen>>
       \/ /\ KindOf(id) \in ActivityKinds
          /\ busy' = IF id \in busy THEN busy \ {id} ELSE busy \cup {id}
          /\ screen' = [screen EXCEPT !.stayed = IF screen.waits = {} THEN @ ELSE @ \ {id}]
          /\ UNCHANGED <<faults, page>>
    /\ UNCHANGED <<registry, panics>>

\* handleProviders: the owner's screen checks every service, anybody else's is empty.
AskPage(owner) ==
    /\ \A id \in DOMAIN page : page[id].at = "done"
    /\ page' = IF owner THEN [id \in Ids |-> NewCheck(id)] ELSE <<>>
    /\ UNCHANGED <<registry, faults, busy, turns, panics, screen>>

\* One question of a check and its answer, or its deadline.
Settled(id, verdict) ==
    page' = [page EXCEPT ![id].at = IF verdict = "goOn" THEN "second" ELSE "done",
                         ![id].says = IF verdict = "goOn" THEN "nothing" ELSE verdict]
CheckStep(id) ==
    /\ id \in DOMAIN page
    /\ \/ page[id].at = "first" /\ Settled(id, First(KindOf(id), FaultsOf(id)))
       \/ page[id].at = "second" /\ Settled(id, Second(KindOf(id), FaultsOf(id)))
    /\ UNCHANGED <<registry, faults, busy, turns, panics, screen>>

\* A check that panics leaves a degraded row, without the name of its service.
CheckPanics(id) ==
    /\ id \in DOMAIN page /\ page[id].at # "done"
    /\ panics < MaxPanics /\ panics' = panics + 1
    /\ page' = [page EXCEPT ![id].at = "done", ![id].says = "degraded", ![id].lost = TRUE]
    /\ UNCHANGED <<registry, faults, busy, turns, screen>>

\* handleActivity: everyone that reports work is asked.
AskActivity ==
    /\ screen.waits = {}
    /\ screen' = [open |-> TRUE, waits |-> {id \in Ids : KindOf(id) \in ActivityKinds},
                   rows |-> {}, failed |-> {}, stayed |-> busy]
    /\ UNCHANGED <<registry, faults, busy, turns, panics, page>>

\* One service's rows, or its name among those that could not be asked.
Reported(id, answered, rows) ==
    screen' = [screen EXCEPT !.waits = @ \ {id}, !.rows = IF rows THEN @ \cup {id} ELSE @,
                             !.failed = IF answered THEN @ ELSE @ \cup {id}]
ActivityStep(id) ==
    /\ id \in screen.waits
    /\ LET answered == FaultsOf(id) \cap (Unset \cup (Broken \ {"old", "ailing", "sibling"})) = {}
       IN  Reported(id, answered, answered /\ id \in busy)
    /\ UNCHANGED <<registry, faults, busy, turns, panics, page>>

\* A service whose report panics is named among those that could not be asked.
ActivityPanics(id) ==
    /\ id \in screen.waits
    /\ panics < MaxPanics /\ panics' = panics + 1
    /\ Reported(id, FALSE, FALSE)
    /\ UNCHANGED <<registry, faults, busy, turns, page>>

HealthNext ==
    \/ \E owner \in BOOLEAN : AskPage(owner)
    \/ AskActivity
    \/ \E id \in Ids : TurnOn(id) \/ CheckStep(id) \/ CheckPanics(id)
                     \/ ActivityStep(id) \/ ActivityPanics(id)

HealthSpec == HealthInit /\ [][HealthNext]_healthVars

-----------------------------------------------------------------------------
(* Properties.                                                             *)

\* The shapes.
HealthTypeOK ==
    /\ faults \subseteq Ids \X Wrong /\ busy \subseteq Ids
    /\ Cardinality(Ids) = Len(registry)
    /\ turns \in 0..MaxTurns /\ panics \in 0..MaxPanics
    /\ page = <<>> \/ DOMAIN page = Ids
    /\ \A id \in DOMAIN page :
          /\ page[id].at \in {"first", "second", "done"}
          /\ page[id].at = "done" <=> page[id].says \in HealthStates
          /\ page[id].always \subseteq page[id].ever
    /\ screen.waits \cup screen.rows \cup screen.failed \subseteq Ids

\* The state of schema.json that names a fault.
Names(kind, w) ==
    CASE w \in Unset -> "not_configured"
      [] w = "down" -> "unreachable"
      [] w = "failing" -> IF kind = "addon" THEN "unreachable" ELSE "degraded"
      [] w = "wrongKey" -> "auth_failed"
      [] w \in {"foreign", "webPage", "sibling", "old"} -> "incompatible"
      [] w = "unfinished" -> IF kind = "addon" THEN "not_configured" ELSE "degraded"
      [] w = "ailing" -> "degraded"

\* A row of the settings screen names a repair the service needed: healthy is said only of
\* a service that no fault kept ill throughout the check, any other state is the name of a
\* fault it had meanwhile, and only one that changed during the check is called degraded
\* for something else.
SettingsNameTheRepair ==
    \A id \in DOMAIN page :
        page[id].at = "done" /\ ~page[id].lost =>
            page[id].says \in
                {Names(KindOf(id), w) : w \in page[id].ever}
                \cup (IF page[id].ever # page[id].always THEN {"degraded"} ELSE {})
                \cup (IF page[id].always = {} THEN {"healthy"} ELSE {})

\* Nothing is downloading and we could not ask do not look alike: a service with work in
\* flight from the question to the answer has its rows on the screen or is named.
EmptyMeansIdle ==
    \A id \in screen.stayed \ screen.waits :
        screen.open /\ KindOf(id) \in ActivityKinds => id \in screen.rows \cup screen.failed

\* Neither screen says what was not so.
ScreensAreHonest == SettingsNameTheRepair /\ EmptyMeansIdle
=============================================================================
