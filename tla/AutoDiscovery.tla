----------------------------- MODULE AutoDiscovery -----------------------------
(***************************************************************************)
(* AutoConfig (pkg/autodiscovery): how templates of a config provider and  *)
(* services of a listener become scheduled configurations.                 *)
(*                                                                         *)
(* Two goroutines work on one store, each of whose operations takes the    *)
(* store's mutex for itself only: the provider's poller and                *)
(* serviceListening.  A goroutine stands at the operation it executes next *)
(* (pc) and keeps what its functions have in local variables.              *)
(* A resolved configuration is the template, the service and the version of *)
(* the service's tags: its digest differs if one of them does.  All the     *)
(* templates have the AD identifier of all the services.                    *)
(***************************************************************************)
EXTENDS Naturals

CONSTANTS
    Templates,
    Services,
    MaxTags          \* bound on the changes of the tags of a service

ASSUME DiscoveryAssumption == MaxTags \in Nat

Goroutines == {"poller", "listener"}
TagVersions == 0..MaxTags
ResolvedConfigs == [tpl : Templates, svc : Services, tags : TagVersions]

VARIABLES
    \* the outside
    provided,             \* the templates the provider returns
    tagger,               \* the tags of each service
    \* the store
    templateCache,
    entityToService,      \* the services that are known, and ...
    serviceReady,         \* ... those of them that are ready
    adIDToServices,
    serviceToConfigs, templateToConfigs,
    serviceToTagsHash,    \* a set with the hash of each service, or empty
    loadedConfigs,
    \* the poller
    polledTemplates,      \* configPoller.configs
    removedTemplates, addedTemplates,   \* those of removedConfigs, newConfigs that are left
    services,             \* those of serviceIds that are left
    \* the listener
    templates,            \* the templates that are left
    again,                \* checkTagFreshness: the service comes back after processDelService
    \* each goroutine
    pc,
    tpl, svc, ready,      \* the template, the service and whether that is ready
    storing,              \* the configuration it stores, as a set
    removing,             \* the configurations it removes
    resolved,             \* what it has resolved and not yet scheduled
    \* the schedulers
    scheduledConfigs,
    overlapped            \* the two goroutines have been at work at the same time

outsideVars  == <<provided, tagger>>
serviceVars  == <<entityToService, serviceReady, adIDToServices>>
indexVars    == <<serviceToConfigs, templateToConfigs, serviceToTagsHash, loadedConfigs>>
storeVars    == <<templateCache, serviceVars, indexVars>>
pollerVars   == <<polledTemplates, removedTemplates, addedTemplates, services>>
listenerVars == <<templates, again>>
subjectVars  == <<tpl, svc, ready>>
configVars   == <<storing, removing, resolved>>
localVars    == <<pollerVars, listenerVars, subjectVars, configVars>>
adVars == <<outsideVars, storeVars, localVars, pc, scheduledConfigs, overlapped>>

\* Where the goroutines stand: in resolveTemplateForService and schedule, in
\* processRemovedConfigs and what surrounds it, and the rest of each.
StoringPoints  == {"setLoaded", "addForService", "addForTemplate", "setTagsHash"}
RemovingPoints == {"removeConfigs", "unschedule", "removeLoaded"}
PollerPoints   == {"nextTemplate", "delTemplate", "getServices", "nextService"}
ListenerPoints == {"setService", "setServiceHash", "setADID", "getTemplates", "nextMatch",
                   "removeService", "getConfigs", "removeTagsHash"}
Points == {"idle", "resolve", "schedule"} \cup StoringPoints \cup RemovingPoints
              \cup PollerPoints \cup ListenerPoints

DiscoveryInit ==
    /\ provided = {}
    /\ tagger = [s \in Services |-> 0]
    /\ templateCache = {}
    /\ entityToService = {} /\ serviceReady = {} /\ adIDToServices = {}
    /\ serviceToConfigs = [s \in Services |-> {}]
    /\ templateToConfigs = [t \in Templates |-> {}]
    /\ serviceToTagsHash = [s \in Services |-> {}]
    /\ loadedConfigs = {}
    /\ polledTemplates = {} /\ removedTemplates = {} /\ addedTemplates = {} /\ services = {}
    /\ templates = {} /\ again = FALSE
    /\ pc = [g \in Goroutines |-> "idle"]
    /\ tpl = [g \in Goroutines |-> "none"]
    /\ svc = [g \in Goroutines |-> "none"]
    /\ ready = [g \in Goroutines |-> FALSE]
    /\ storing = [g \in Goroutines |-> {}]
    /\ removing = [g \in Goroutines |-> {}]
    /\ resolved = [g \in Goroutines |-> {}]
    /\ scheduledConfigs = {}
    /\ overlapped = FALSE

Idle(g) == pc[g] = "idle"

\* Goroutine g, which waits in its select, takes up the work that begins at p.
Begin(g, p) ==
    /\ Idle(g)
    /\ pc' = [pc EXCEPT ![g] = p]
    /\ overlapped' = (overlapped \/ \E h \in Goroutines \ {g} : ~Idle(h))

\* Goroutine g has executed the operation at p and goes on at q.
Go(g, p, q) ==
    /\ pc[g] = p
    /\ pc' = [pc EXCEPT ![g] = q]
    /\ UNCHANGED overlapped

-----------------------------------------------------------------------------
(* The outside: the provider, the tagger. *)

Provide ==
    /\ provided' \in SUBSET Templates
    /\ UNCHANGED <<tagger, storeVars, localVars, pc, scheduledConfigs, overlapped>>

ChangeTags(s) ==
    /\ tagger[s] < MaxTags
    /\ tagger' = [tagger EXCEPT ![s] = @ + 1]
    /\ UNCHANGED <<provided, storeVars, localVars, pc, scheduledConfigs, overlapped>>

-----------------------------------------------------------------------------
(* The poller. *)

\* poll, when the provider is not up to date, and collect.
Poll ==
    /\ provided # polledTemplates
    /\ Begin("poller", "nextTemplate")
    /\ polledTemplates' = provided
    /\ removedTemplates' = polledTemplates \ provided
    /\ addedTemplates' = provided \ polledTemplates
    /\ UNCHANGED <<outsideVars, storeVars, services, listenerVars, subjectVars, configVars,
                   scheduledConfigs>>

\* removeConfigTemplates: the removed templates first, ...
GetConfigsForTemplate(t) ==
    /\ Go("poller", "nextTemplate", "removeConfigs")
    /\ t \in removedTemplates
    /\ removedTemplates' = removedTemplates \ {t}
    /\ tpl' = [tpl EXCEPT !["poller"] = t]
    /\ removing' = [removing EXCEPT !["poller"] = templateToConfigs[t]]
    /\ UNCHANGED <<outsideVars, storeVars, polledTemplates, addedTemplates, services,
                   listenerVars, svc, ready, storing, resolved, scheduledConfigs>>

RemoveConfigsForTemplate ==
    /\ Go("poller", "removeConfigs", "unschedule")
    /\ templateToConfigs' = [templateToConfigs EXCEPT ![tpl["poller"]] = {}]
    /\ UNCHANGED <<outsideVars, templateCache, serviceVars, serviceToConfigs,
                   serviceToTagsHash, loadedConfigs, localVars, scheduledConfigs>>

DelTemplate ==
    /\ Go("poller", "delTemplate", "nextTemplate")
    /\ templateCache' = templateCache \ {tpl["poller"]}
    /\ UNCHANGED <<outsideVars, serviceVars, indexVars, localVars, scheduledConfigs>>

\* ... then the new ones: processNewConfig, ...
SetTemplate(t) ==
    /\ Go("poller", "nextTemplate", "getServices")
    /\ removedTemplates = {}
    /\ t \in addedTemplates
    /\ addedTemplates' = addedTemplates \ {t}
    /\ tpl' = [tpl EXCEPT !["poller"] = t]
    /\ templateCache' = templateCache \cup {t}
    /\ UNCHANGED <<outsideVars, serviceVars, indexVars, polledTemplates, removedTemplates,
                   services, listenerVars, svc, ready, configVars, scheduledConfigs>>

\* ... resolveTemplate, ...
GetServices ==
    /\ Go("poller", "getServices", "nextService")
    /\ services' = adIDToServices
    /\ UNCHANGED <<outsideVars, storeVars, polledTemplates, removedTemplates, addedTemplates,
                   listenerVars, subjectVars, configVars, scheduledConfigs>>

\* ... which skips a service that is gone, ...
GetService(s) ==
    /\ s \in services
    /\ services' = services \ {s}
    /\ \/ /\ s \in entityToService
          /\ Go("poller", "nextService", "resolve")
          /\ svc' = [svc EXCEPT !["poller"] = s]
          /\ ready' = [ready EXCEPT !["poller"] = s \in serviceReady]
       \/ /\ s \notin entityToService
          /\ Go("poller", "nextService", "nextService")
          /\ UNCHANGED <<svc, ready>>
    /\ UNCHANGED <<outsideVars, storeVars, polledTemplates, removedTemplates, addedTemplates,
                   listenerVars, tpl, configVars, scheduledConfigs>>

\* ... and returns what is then scheduled.
ResolvedAll ==
    /\ services = {}
    /\ Go("poller", "nextService", "schedule")
    /\ UNCHANGED <<outsideVars, storeVars, localVars, scheduledConfigs>>

PollEnds ==
    /\ removedTemplates = {} /\ addedTemplates = {}
    /\ Go("poller", "nextTemplate", "idle")
    /\ UNCHANGED <<outsideVars, storeVars, localVars, scheduledConfigs>>

-----------------------------------------------------------------------------
(* The listener's goroutine: serviceListening. *)

\* A listener announces a service, or again once it is ready, ...
ServiceFound(s, isReady) ==
    /\ s \notin serviceReady
    /\ Begin("listener", "setService")
    /\ svc' = [svc EXCEPT !["listener"] = s]
    /\ ready' = [ready EXCEPT !["listener"] = isReady]
    /\ UNCHANGED <<outsideVars, storeVars, pollerVars, listenerVars, tpl, configVars,
                   scheduledConfigs>>

\* ... or its end, ...
ServiceGone(s) ==
    /\ s \in entityToService
    /\ Begin("listener", "removeService")
    /\ svc' = [svc EXCEPT !["listener"] = s]
    /\ UNCHANGED <<outsideVars, storeVars, pollerVars, listenerVars, tpl, ready, configVars,
                   scheduledConfigs>>

\* Mutant: only the hash is brought up to date.
TagFreshnessHashOnly(s) ==
    /\ s \in entityToService
    /\ Idle("listener")
    /\ serviceToTagsHash[s] # {tagger[s]}
    /\ serviceToTagsHash' = [serviceToTagsHash EXCEPT ![s] = {tagger[s]}]
    /\ UNCHANGED <<outsideVars, templateCache, serviceVars, serviceToConfigs,
                   templateToConfigs, loadedConfigs, localVars, pc, scheduledConfigs,
                   overlapped>>

\* ... or the ticker fires: checkTagFreshness.
TagFreshness(s) ==
    /\ s \in entityToService
    /\ serviceToTagsHash[s] # {tagger[s]}
    /\ Begin("listener", "removeService")
    /\ serviceToTagsHash' = [serviceToTagsHash EXCEPT ![s] = {tagger[s]}]
    /\ svc' = [svc EXCEPT !["listener"] = s]
    /\ ready' = [ready EXCEPT !["listener"] = s \in serviceReady]
    /\ again' = TRUE
    /\ UNCHANGED <<outsideVars, templateCache, serviceVars, serviceToConfigs,
                   templateToConfigs, loadedConfigs, pollerVars, templates, tpl, configVars,
                   scheduledConfigs>>

\* processNewService: the service, ...
SetService ==
    /\ Go("listener", "setService", "setServiceHash")
    /\ LET s == svc["listener"] IN
       /\ entityToService' = entityToService \cup {s}
       /\ serviceReady' = IF ready["listener"] THEN serviceReady \cup {s} ELSE serviceReady \ {s}
    /\ UNCHANGED <<outsideVars, templateCache, adIDToServices, indexVars, localVars,
                   scheduledConfigs>>

\* ... the hash of its tags, ...
SetServiceHash ==
    /\ Go("listener", "setServiceHash", "setADID")
    /\ LET s == svc["listener"] IN
       serviceToTagsHash' = [serviceToTagsHash EXCEPT ![s] = {tagger[s]}]
    /\ UNCHANGED <<outsideVars, templateCache, serviceVars, serviceToConfigs,
                   templateToConfigs, loadedConfigs, localVars, scheduledConfigs>>

\* ... its AD identifier (resolveTemplate may be in a loop over that very map, which then
\* produces a new entry or skips it), ...
SetADID ==
    /\ Go("listener", "setADID", "getTemplates")
    /\ LET s == svc["listener"] IN
       /\ adIDToServices' = adIDToServices \cup {s}
       /\ \/ UNCHANGED services
          \/ /\ pc["poller"] \in {"nextService", "resolve"} \cup StoringPoints
             /\ s \notin adIDToServices
             /\ services' = services \cup {s}
    /\ UNCHANGED <<outsideVars, templateCache, entityToService, serviceReady, indexVars,
                   polledTemplates, removedTemplates, addedTemplates, listenerVars,
                   subjectVars, configVars, scheduledConfigs>>

\* ... and every template of that identifier.
GetTemplates ==
    /\ Go("listener", "getTemplates", "nextMatch")
    /\ templates' = templateCache
    /\ UNCHANGED <<outsideVars, storeVars, pollerVars, again, subjectVars, configVars,
                   scheduledConfigs>>

NextMatch(t) ==
    /\ t \in templates
    /\ Go("listener", "nextMatch", "resolve")
    /\ templates' = templates \ {t}
    /\ tpl' = [tpl EXCEPT !["listener"] = t]
    /\ UNCHANGED <<outsideVars, storeVars, pollerVars, again, svc, ready, configVars,
                   scheduledConfigs>>

NewServiceEnds ==
    /\ templates = {}
    /\ Go("listener", "nextMatch", "idle")
    /\ ready' = [ready EXCEPT !["listener"] = FALSE]
    /\ UNCHANGED <<outsideVars, storeVars, pollerVars, listenerVars, tpl, svc, configVars,
                   scheduledConfigs>>

\* processDelService: the service, ...
RemoveService ==
    /\ Go("listener", "removeService", "getConfigs")
    /\ entityToService' = entityToService \ {svc["listener"]}
    /\ serviceReady' = serviceReady \ {svc["listener"]}
    /\ UNCHANGED <<outsideVars, templateCache, adIDToServices, indexVars, localVars,
                   scheduledConfigs>>

\* Mutant: the service is forgotten, its checks go on.
GetConfigsForServiceNone ==
    /\ Go("listener", "getConfigs", "removeTagsHash")
    /\ UNCHANGED <<outsideVars, storeVars, localVars, scheduledConfigs>>

\* ... its configurations ...
GetConfigsForService ==
    /\ Go("listener", "getConfigs", "removeConfigs")
    /\ removing' = [removing EXCEPT !["listener"] = serviceToConfigs[svc["listener"]]]
    /\ UNCHANGED <<outsideVars, storeVars, pollerVars, listenerVars, subjectVars, storing,
                   resolved, scheduledConfigs>>

RemoveConfigsForService ==
    /\ Go("listener", "removeConfigs", "unschedule")
    /\ serviceToConfigs' = [serviceToConfigs EXCEPT ![svc["listener"]] = {}]
    /\ UNCHANGED <<outsideVars, templateCache, serviceVars, templateToConfigs,
                   serviceToTagsHash, loadedConfigs, localVars, scheduledConfigs>>

\* ... and the hash; checkTagFreshness goes on with processNewService.
RemoveTagsHash ==
    /\ Go("listener", "removeTagsHash", IF again THEN "setService" ELSE "idle")
    /\ serviceToTagsHash' = [serviceToTagsHash EXCEPT ![svc["listener"]] = {}]
    /\ again' = FALSE
    /\ UNCHANGED <<outsideVars, templateCache, serviceVars, serviceToConfigs,
                   templateToConfigs, loadedConfigs, pollerVars, templates, subjectVars,
                   configVars, scheduledConfigs>>

-----------------------------------------------------------------------------
(* What both goroutines call. *)

\* resolveTemplateForService: Resolve fails for a service that is not ready, ...
ResolveTemplate(g) ==
    /\ \/ /\ ready[g]
          /\ Go(g, "resolve", "setLoaded")
          /\ storing' = [storing EXCEPT ![g] =
                            {[tpl |-> tpl[g], svc |-> svc[g], tags |-> tagger[svc[g]]]}]
       \/ /\ ~ready[g]
          /\ Go(g, "resolve", IF g = "poller" THEN "nextService" ELSE "nextMatch")
          /\ UNCHANGED storing
    /\ UNCHANGED <<outsideVars, storeVars, pollerVars, listenerVars, subjectVars, removing,
                   resolved, scheduledConfigs>>

\* ... and the configuration is stored and indexed.
SetLoaded(g) ==
    /\ Go(g, "setLoaded", "addForService")
    /\ loadedConfigs' = loadedConfigs \cup storing[g]
    /\ UNCHANGED <<outsideVars, templateCache, serviceVars, serviceToConfigs,
                   templateToConfigs, serviceToTagsHash, localVars, scheduledConfigs>>

AddConfigForService(g) ==
    /\ Go(g, "addForService", "addForTemplate")
    /\ serviceToConfigs' = [serviceToConfigs EXCEPT ![svc[g]] = @ \cup storing[g]]
    /\ UNCHANGED <<outsideVars, templateCache, serviceVars, templateToConfigs,
                   serviceToTagsHash, loadedConfigs, localVars, scheduledConfigs>>

AddConfigForTemplate(g) ==
    /\ Go(g, "addForTemplate", "setTagsHash")
    /\ templateToConfigs' = [templateToConfigs EXCEPT ![tpl[g]] = @ \cup storing[g]]
    /\ UNCHANGED <<outsideVars, templateCache, serviceVars, serviceToConfigs,
                   serviceToTagsHash, loadedConfigs, localVars, scheduledConfigs>>

SetTagsHash(g) ==
    /\ Go(g, "setTagsHash", IF g = "poller" THEN "nextService" ELSE "schedule")
    /\ serviceToTagsHash' = [serviceToTagsHash EXCEPT ![svc[g]] = {c.tags : c \in storing[g]}]
    /\ resolved' = [resolved EXCEPT ![g] = @ \cup storing[g]]
    /\ storing' = [storing EXCEPT ![g] = {}]
    /\ UNCHANGED <<outsideVars, templateCache, serviceVars, serviceToConfigs,
                   templateToConfigs, loadedConfigs, pollerVars, listenerVars, subjectVars,
                   removing, scheduledConfigs>>

\* MetaScheduler.Schedule, of what g has resolved.
Schedule(g) ==
    /\ Go(g, "schedule", IF g = "poller" THEN "nextTemplate" ELSE "nextMatch")
    /\ scheduledConfigs' = scheduledConfigs \cup resolved[g]
    /\ resolved' = [resolved EXCEPT ![g] = {}]
    /\ UNCHANGED <<outsideVars, storeVars, pollerVars, listenerVars, subjectVars, storing,
                   removing>>

\* processRemovedConfigs: MetaScheduler.Unschedule and the loaded configurations.
Unschedule(g) ==
    /\ Go(g, "unschedule", "removeLoaded")
    /\ scheduledConfigs' = scheduledConfigs \ removing[g]
    /\ UNCHANGED <<outsideVars, storeVars, localVars>>

RemoveLoaded(g) ==
    /\ Go(g, "removeLoaded", IF g = "poller" THEN "delTemplate" ELSE "removeTagsHash")
    /\ loadedConfigs' = loadedConfigs \ removing[g]
    /\ removing' = [removing EXCEPT ![g] = {}]
    /\ UNCHANGED <<outsideVars, templateCache, serviceVars, serviceToConfigs,
                   templateToConfigs, serviceToTagsHash, pollerVars, listenerVars, subjectVars,
                   storing, resolved, scheduledConfigs>>

-----------------------------------------------------------------------------

PollerStep ==
    \/ \E t \in Templates : GetConfigsForTemplate(t) \/ SetTemplate(t)
    \/ RemoveConfigsForTemplate
    \/ DelTemplate
    \/ GetServices
    \/ \E s \in Services : GetService(s)
    \/ ResolvedAll
    \/ PollEnds

ListenerStep ==
    \/ SetService
    \/ SetServiceHash
    \/ SetADID
    \/ GetTemplates
    \/ \E t \in Templates : NextMatch(t)
    \/ NewServiceEnds
    \/ RemoveService
    \/ GetConfigsForService
    \/ RemoveConfigsForService
    \/ RemoveTagsHash

CommonStep(g) ==
    \/ ResolveTemplate(g)
    \/ SetLoaded(g)
    \/ AddConfigForService(g)
    \/ AddConfigForTemplate(g)
    \/ SetTagsHash(g)
    \/ Schedule(g)
    \/ Unschedule(g)
    \/ RemoveLoaded(g)

DiscoveryNext ==
    \/ Provide
    \/ \E s \in Services :
          \/ ChangeTags(s)
          \/ ServiceFound(s, TRUE)
          \/ ServiceFound(s, FALSE)
          \/ ServiceGone(s)
          \/ TagFreshness(s)
    \/ Poll
    \/ PollerStep
    \/ ListenerStep
    \/ \E g \in Goroutines : CommonStep(g)

\* The tickers fire and the goroutines go on; the freshness ticker needs strong fairness
\* because the goroutine's select may serve the listeners first, but not always.
DiscoveryFairness ==
    /\ WF_adVars(PollerStep \/ CommonStep("poller"))
    /\ WF_adVars(ListenerStep \/ CommonStep("listener"))
    /\ WF_adVars(Poll)
    /\ \A s \in Services : SF_adVars(TagFreshness(s))

DiscoverySpec == DiscoveryInit /\ [][DiscoveryNext]_adVars /\ DiscoveryFairness

-----------------------------------------------------------------------------
(* Properties. *)

Quiet == \A g \in Goroutines : Idle(g)

\* The values the variables range over.
DiscoveryTypeOK ==
    /\ provided \subseteq Templates /\ templateCache \subseteq Templates
    /\ polledTemplates \subseteq Templates
    /\ tagger \in [Services -> TagVersions]
    /\ serviceReady \subseteq entityToService /\ entityToService \subseteq Services
    /\ adIDToServices \subseteq Services
    /\ serviceToConfigs \in [Services -> SUBSET ResolvedConfigs]
    /\ templateToConfigs \in [Templates -> SUBSET ResolvedConfigs]
    /\ serviceToTagsHash \in [Services -> SUBSET TagVersions]
    /\ loadedConfigs \subseteq ResolvedConfigs /\ scheduledConfigs \subseteq ResolvedConfigs
    /\ removedTemplates \subseteq Templates /\ addedTemplates \subseteq Templates
    /\ templates \subseteq Templates /\ services \subseteq Services
    /\ again \in BOOLEAN /\ overlapped \in BOOLEAN
    /\ pc \in [Goroutines -> Points]
    /\ tpl \in [Goroutines -> Templates \cup {"none"}]
    /\ svc \in [Goroutines -> Services \cup {"none"}]
    /\ ready \in [Goroutines -> BOOLEAN]
    /\ storing \in [Goroutines -> SUBSET ResolvedConfigs]
    /\ removing \in [Goroutines -> SUBSET ResolvedConfigs]
    /\ resolved \in [Goroutines -> SUBSET ResolvedConfigs]

\* As long as the two have not been at work at the same time, nothing is left behind
\* either: what is scheduled is what is loaded, of known services and templates, and
\* every service has its configurations once, with the tags of its last resolution.
\* (An overlap can leave a configuration scheduled for a service, or of a template,
\* that is gone: it is resolved before and scheduled after the removal.)
NothingLeft ==
    (Quiet /\ ~overlapped) =>
        /\ scheduledConfigs = loadedConfigs
        /\ \A c \in scheduledConfigs : c.tpl \in templateCache /\ c.svc \in entityToService
        /\ \A c, d \in scheduledConfigs : (c.tpl = d.tpl /\ c.svc = d.svc) => c = d

\* A template and a service that stay are monitored in the end, with the tags the
\* service has in the end.
EventuallyMonitored ==
    \A t \in Templates, s \in Services :
        <>[](s \in serviceReady /\ t \in templateCache) =>
            <>[]([tpl |-> t, svc |-> s, tags |-> tagger[s]] \in scheduledConfigs)
===============================================================================
