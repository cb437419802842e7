------------------------------ MODULE K8sTools ------------------------------
(***************************************************************************)
(* klyde-agent's mcp-server: the tools k8s_get and k8s_describe, which     *)
(* read a cluster that changes while they read.  k8s_describe reads twice, *)
(* first the object and then the events of its namespace, from which it    *)
(* picks the object's by kind, name and namespace.                         *)
(*                                                                         *)
(* Of the fifteen kinds three stand for what the code tells apart: pods    *)
(* and services, which may share a name, and nodes, which have no          *)
(* namespace.  What is shown of an object besides its identity is left     *)
(* out.  Calls share no state, so there is one at a time.                  *)
(***************************************************************************)
EXTENDS Integers, Sequences, FiniteSets, SequencesExt, FiniteSetsExt

CONSTANTS Spaces,        \* namespaces besides "default"
          Names,         \* names of objects
          MaxListItems,  \* maxListItems: 200
          MaxObjects,    \* bound: objects ever created
          MaxEvents,     \* bound: events there are at a time
          MaxTime,       \* bound: time stamps of events
          MaxFails       \* bound: requests to the API server that fail

\* The empty string, which stands for a namespace or a name not given.
None == "none"

ASSUME K8sAssumption ==
    /\ None \notin Spaces /\ None \notin Names
    /\ MaxListItems \in Nat /\ MaxObjects \in Nat /\ MaxEvents \in Nat
    /\ MaxTime \in Nat /\ MaxFails \in Nat

\* kindAliases: two spellings of each kind, and secrets, which are refused.
KindAliases ==
    [pod |-> "pods", pods |-> "pods", service |-> "services", services |-> "services",
     node |-> "nodes", nodes |-> "nodes", secret |-> "secrets"]

ClusterScopedKinds == {"nodes"}

CanonicalToKubeKind == [pods |-> "Pod", services |-> "Service", nodes |-> "Node"]

\* The kind of the objects the API server serves under a resource name.
Served == [pods |-> "Pod", services |-> "Service", nodes |-> "Node"]

Namespaces == Spaces \cup {"default"}
Object ==
    [kind : {"Pod", "Service"}, ns : Namespaces, name : Names, uid : 1..MaxObjects]
      \cup [kind : {"Node"}, ns : {None}, name : Names, uid : 1..MaxObjects]
Event == [on : Object, time : 0..MaxTime]

\* Events about objects without a namespace are kept in "default".
EventSpace(e) == IF e.on.ns = None THEN "default" ELSE e.on.ns

VARIABLES client,   \* has newInClusterClient found a cluster?
          objects, events, born,  \* the cluster; born: objects ever created
          at,       \* where the call is
          request,  \* its kind, namespace and name (None if not given)
          found,    \* the object k8s_describe has fetched
          owed,     \* history: that object's events which are still there
          answer,
          fails

cluster == <<objects, events, born>>
vars == <<client, cluster, at, request, found, owed, answer, fails>>

Nothing == [is |-> "nothing"]
Error   == [is |-> "error"]

TypeOK ==
    /\ client \in BOOLEAN
    /\ born \in 0..MaxObjects
    /\ objects \in SUBSET Object /\ \A o \in objects : o.uid <= born
    /\ events \in SUBSET Event
    /\ at \in {"idle", "get", "list", "describe", "events"}
    /\ at = "events" => found \in Object
    /\ owed \in SUBSET events
    /\ answer.is \in {"nothing", "error", "object", "list", "described", "eventless"}
    /\ answer.is = "described" => answer.events \in Seq(Event)
    /\ fails \in 0..MaxFails

Init ==
    /\ client \in BOOLEAN
    /\ objects = {} /\ events = {} /\ born = 0
    /\ at = "idle" /\ request = Nothing /\ found = Nothing
    /\ owed = {} /\ answer = Nothing
    /\ fails = 0

-----------------------------------------------------------------------------
(* The cluster. *)

callVars == <<client, at, request, found, answer, fails>>

CreateObject ==
    /\ born < MaxObjects
    /\ born' = born + 1
    /\ \E o \in Object :
         /\ o.uid = born + 1
         /\ \A p \in objects : <<p.kind, p.ns, p.name>> # <<o.kind, o.ns, o.name>>
         /\ objects' = objects \cup {o}
    /\ UNCHANGED <<events, owed, callVars>>

DeleteObject ==
    /\ \E o \in objects : objects' = objects \ {o}
    /\ UNCHANGED <<events, born, owed, callVars>>

\* A component reports something about an object, which may be gone by then
\* only if it has events already (its last ones).
RecordEvent ==
    /\ Cardinality(events) < MaxEvents
    /\ \E o \in objects \cup {e.on : e \in events}, t \in 0..MaxTime :
         events' = events \cup {[on |-> o, time |-> t]}
    /\ UNCHANGED <<objects, born, owed, callVars>>

\* The API server keeps an event for an hour.
ExpireEvent ==
    /\ \E e \in events : events' = events \ {e} /\ owed' = owed \ {e}
    /\ UNCHANGED <<objects, born, callVars>>

-----------------------------------------------------------------------------
(* The tools. *)

Canonical == KindAliases[request.kind]

\* What runK8sGet and runK8sDescribe refuse before they ask the cluster.
Refused(tool, kind, ns, name) ==
    \/ kind \notin DOMAIN KindAliases
    \/ KindAliases[kind] = "secrets"
    \/ ~client
    \/ tool = "k8s_describe" /\ name = None
    \/ tool = "k8s_describe" /\ ns = None /\ KindAliases[kind] \notin ClusterScopedKinds

HandleToolsCall(tool, kind, ns, name) ==
    /\ at = "idle"
    /\ request' = [kind |-> kind, ns |-> ns, name |-> name]
    /\ found' = Nothing /\ owed' = {}
    /\ IF Refused(tool, kind, ns, name)
         THEN at' = "idle" /\ answer' = Error
         ELSE /\ at' = IF tool = "k8s_describe" THEN "describe"
                       ELSE IF name = None THEN "list" ELSE "get"
              /\ answer' = Nothing
    /\ UNCHANGED <<client, cluster, fails>>

Answer(a) == at' = "idle" /\ answer' = a

\* The objects a Get may return.  client-go leaves the namespace out of the
\* path of a kind without one; a kind with one is not found without it.
Matching ==
    {o \in objects :
        /\ o.kind = Served[Canonical]
        /\ o.name = request.name
        /\ Canonical \in ClusterScopedKinds \/ o.ns = request.ns}

\* Mutant: the error of fetchOne is ignored.
FetchOneUnchecked ==
    /\ at \in {"get", "describe"}
    /\ \E o \in IF Matching = {} THEN {Nothing} ELSE Matching :
         IF at = "get"
           THEN /\ Answer([is |-> "object", object |-> o])
                /\ UNCHANGED <<found, owed>>
           ELSE /\ found' = o /\ owed' = {} /\ at' = "events"
                /\ UNCHANGED answer
    /\ UNCHANGED <<client, cluster, request, fails>>

FetchOne ==
    /\ at \in {"get", "describe"}
    /\ \/ /\ Matching = {}
          /\ Answer(Error)
          /\ UNCHANGED <<found, owed>>
       \/ \E o \in Matching :
            \/ /\ at = "get"
               /\ Answer([is |-> "object", object |-> o])
               /\ UNCHANGED <<found, owed>>
            \/ /\ at = "describe"
               /\ found' = o
               /\ owed' = {e \in events : e.on = o}
               /\ at' = "events"
               /\ UNCHANGED answer
    /\ UNCHANGED <<client, cluster, request, fails>>

\* The objects a List returns, in all namespaces if none is given.
Listed ==
    {o \in objects :
        /\ o.kind = Served[Canonical]
        /\ Canonical \in ClusterScopedKinds \/ request.ns \in {None, o.ns}}

\* formatList shows the first maxListItems and says how many there are.
FetchList ==
    /\ at = "list"
    /\ LET n == Cardinality(Listed) IN
       \E shown \in kSubset(IF n > MaxListItems THEN MaxListItems ELSE n, Listed) :
          Answer([is |-> "list", total |-> n, shown |-> shown])
    /\ UNCHANGED <<client, cluster, request, found, owed, fails>>

\* Mutant: canonical is compared instead of canonicalToKubeKind[canonical].
RelatedByResource(e) ==
    /\ request.ns = None \/ EventSpace(e) = request.ns
    /\ e.on.name = request.name
    /\ e.on.kind = Canonical
    /\ request.ns = None \/ e.on.ns = request.ns

\* Mutant: the kind of the object is forgotten.
RelatedByName(e) ==
    /\ request.ns = None \/ EventSpace(e) = request.ns
    /\ e.on.name = request.name
    /\ request.ns = None \/ e.on.ns = request.ns

\* The events of one namespace, or of all, filtered.
Related(e) ==
    /\ request.ns = None \/ EventSpace(e) = request.ns
    /\ e.on.name = request.name
    /\ e.on.kind = CanonicalToKubeKind[Canonical]
    /\ request.ns = None \/ e.on.ns = request.ns

\* sort.Slice puts them in the order of their time stamps; it is not stable.
RelatedEvents ==
    /\ at = "events"
    /\ \E es \in SetToSeqs({e \in events : Related(e)}) :
          /\ \A i, j \in DOMAIN es : i < j => es[i].time <= es[j].time
          /\ Answer([is |-> "described", object |-> found, events |-> es])
    /\ UNCHANGED <<client, cluster, request, found, owed, fails>>

\* The API server refuses or times out.  Events are supplementary.
RequestFails ==
    /\ at # "idle"
    /\ fails < MaxFails
    /\ fails' = fails + 1
    /\ \/ at = "events" /\ Answer([is |-> "eventless", object |-> found])
       \/ at # "events" /\ Answer(Error)
    /\ UNCHANGED <<client, cluster, request, found, owed>>

-----------------------------------------------------------------------------
Next ==
    \/ CreateObject \/ DeleteObject \/ RecordEvent \/ ExpireEvent
    \/ \E tool \in {"k8s_get", "k8s_describe"},
          kind \in DOMAIN KindAliases \cup {"unknown"},
          ns \in Namespaces \cup {None},
          name \in Names \cup {None} : HandleToolsCall(tool, kind, ns, name)
    \/ FetchOne
    \/ FetchList
    \/ RelatedEvents
    \/ RequestFails

Spec == Init /\ [][Next]_vars

-----------------------------------------------------------------------------
(* Properties. *)

\* The events shown with an object are about one of that kind, name and
\* namespace: relatedEvents filters what it lists, which is a namespace's
\* events about everything.
EventsAreTheirs ==
    answer.is = "described" =>
        \A i \in DOMAIN answer.events :
            LET o == answer.events[i].on
            IN  <<o.kind, o.ns, o.name>> =
                    <<answer.object.kind, answer.object.ns, answer.object.name>>

\* All events about the object described that were there when it was fetched,
\* and still are, are shown, though it may be gone or replaced by now: for an
\* object in a namespace, or if no namespace was passed.
EventsComplete ==
    answer.is = "described" /\ (answer.object.ns # None \/ request.ns = None) =>
        owed \subseteq ToSet(answer.events)

\* "describe = client-side composition of get + related list calls (events,
\* endpoints), same as kubectl describe" (agent/PLAN.md:9), which shows the
\* events of any object.
SameAsKubectl ==
    answer.is = "described" => owed \subseteq ToSet(answer.events)
=============================================================================
