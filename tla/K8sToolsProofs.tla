--------------------------- MODULE K8sToolsProofs ---------------------------
(***************************************************************************)
(* Proofs about K8sTools: types, that an answer is about what was asked    *)
(* for, and that k8s_describe shows only events of its object and misses   *)
(* none of those the object had, for any cluster and any number of changes *)
(* while it reads.                                                         *)
(*                                                                         *)
(* Two things are added to the properties. FoundFor is what Get says of    *)
(* the object it returned; it stays true while the events are fetched,     *)
(* whatever becomes of the object. And there are finitely many events, so  *)
(* that the sequence shown holds all of those that pass the filter.        *)
(***************************************************************************)
EXTENDS K8sTools, FiniteSetTheorems, TLAPS

Resources == {"pods", "services", "nodes"}

\* What is known of an object once k8s_describe has found it.
FoundFor(o) ==
    /\ o \in Object
    /\ o.kind = CanonicalToKubeKind[Canonical]
    /\ o.name = request.name
    /\ o.ns # None => o.ns = request.ns

CallInv ==
    /\ at # "idle" => Canonical \in Resources /\ answer = Nothing
    /\ at = "events" => FoundFor(found) /\ \A e \in owed : e.on = found

KInv == TypeOK /\ IsFiniteSet(events) /\ CallInv /\ EventsAreTheirs /\ EventsComplete

-----------------------------------------------------------------------------
(* A sequence of SetToSeqs(S) holds S and nothing else. *)
LEMMA SequenceOfSet ==
    ASSUME NEW S, IsFiniteSet(S), NEW s \in SetToSeqs(S)
    PROVE  s \in Seq(S) /\ ToSet(s) = S
<1> DEFINE D == 1..Cardinality(S)
<1>1. Cardinality(S) \in Nat
  BY FS_CardinalityType
<1>2. s \in [D -> S] /\ \A i, j \in D : i # j => s[i] # s[j]
  BY DEF SetToSeqs
<1>3. IsFiniteSet(D) /\ Cardinality(D) = Cardinality(S)
  BY <1>1, FS_Interval
<1>4. s \in Injection(D, S)
  BY <1>2 DEF Injection, IsInjective
<1>5. s \in Surjection(D, S)
  BY <1>3, <1>4, FS_Injection
<1>6. ToSet(s) = S
  BY <1>2, <1>5 DEF ToSet, Surjection
<1> QED
  BY <1>1, <1>2, <1>6

LEMMA Numbers == TypeOK => born \in 0..MaxObjects /\ fails \in 0..MaxFails
BY DEF TypeOK

(* Objects of the kinds without a namespace have none, the others do. *)
LEMMA NamespaceOfKind ==
    \A o \in Object : (o.ns = None) <=> (o.kind = "Node")
BY K8sAssumption DEF K8sAssumption, Object, Namespaces, None

(* The filter passes only events of the kind, name and namespace of the    *)
(* object found ...                                                        *)
LEMMA RelatedAreTheirs ==
    ASSUME Canonical \in Resources, NEW o, FoundFor(o),
           NEW e \in Event, Related(e)
    PROVE  <<e.on.kind, e.on.ns, e.on.name>> = <<o.kind, o.ns, o.name>>
<1>1. e.on \in Object /\ o \in Object
  BY DEF Event, FoundFor
<1>2. e.on.kind = o.kind /\ e.on.name = o.name
  BY DEF Related, FoundFor
<1>3. CASE o.ns = None
  BY <1>1, <1>2, <1>3, NamespaceOfKind
<1>4. CASE o.ns # None
  <2>1. request.ns # None /\ o.ns = request.ns
    BY <1>4 DEF FoundFor
  <2> QED
    BY <1>2, <2>1 DEF Related
<1> QED
  BY <1>3, <1>4

(* ... and every event about it, if it has a namespace or none was passed. *)
LEMMA TheirsAreRelated ==
    ASSUME NEW o, FoundFor(o), o.ns # None \/ request.ns = None,
           NEW e \in Event, e.on = o
    PROVE  Related(e)
BY DEF FoundFor, Related, EventSpace

-----------------------------------------------------------------------------
LEMMA KInit == Init => KInv
<1> SUFFICES ASSUME Init PROVE KInv
  OBVIOUS
<1>1. IsFiniteSet(events)
  BY FS_EmptySet DEF Init
<1>2. TypeOK
  BY K8sAssumption DEF Init, TypeOK, Nothing, K8sAssumption
<1> QED
  BY <1>1, <1>2 DEF Init, KInv, CallInv, EventsAreTheirs, EventsComplete, Nothing

(* Steps of the cluster leave the call alone, except that what it owes     *)
(* shrinks with the events.                                                *)
Around ==
    /\ UNCHANGED callVars
    /\ owed' \subseteq owed

LEMMA AroundStep ==
    ASSUME KInv, Around
    PROVE  CallInv' /\ EventsAreTheirs' /\ EventsComplete'
BY DEF KInv, CallInv, Around, callVars, EventsAreTheirs, EventsComplete,
       FoundFor, Canonical

LEMMA ClusterStep ==
    ASSUME KInv, CreateObject \/ DeleteObject \/ RecordEvent \/ ExpireEvent
    PROVE  KInv'
<1> USE DEF KInv
<1>1. Around
  BY DEF CreateObject, DeleteObject, RecordEvent, ExpireEvent, Around
<1>2. ASSUME events' \subseteq events
      PROVE  IsFiniteSet(events')
  BY <1>2, FS_Subset
<1>3. CASE CreateObject
  <2>1. TypeOK'
    <3>1. PICK o \in Object : o.uid = born + 1 /\ objects' = objects \cup {o}
      BY <1>3 DEF CreateObject
    <3>2. born' \in 0..MaxObjects /\ born' = born + 1
      BY <1>3, K8sAssumption, Numbers DEF CreateObject, K8sAssumption
    <3>3. objects' \in SUBSET Object /\ \A p \in objects' : p.uid <= born'
      <4>1. \A p \in objects : p.uid \in Int
        BY K8sAssumption DEF TypeOK, Object, K8sAssumption
      <4> QED
        BY <3>1, <3>2, <4>1 DEF TypeOK
    <3> QED
      BY <1>3, <3>2, <3>3 DEF CreateObject, TypeOK, callVars
  <2> QED
    BY <1>1, <1>2, <1>3, <2>1, AroundStep DEF CreateObject
<1>4. CASE DeleteObject
  <2>1. TypeOK'
    BY <1>4 DEF DeleteObject, TypeOK, callVars
  <2> QED
    BY <1>1, <1>2, <1>4, <2>1, AroundStep DEF DeleteObject
<1>5. CASE RecordEvent
  <2>1. PICK o \in objects \cup {e.on : e \in events}, t \in 0..MaxTime :
             events' = events \cup {[on |-> o, time |-> t]}
    BY <1>5 DEF RecordEvent
  <2>2. [on |-> o, time |-> t] \in Event
    BY <2>1 DEF TypeOK, Event
  <2>3. TypeOK'
    BY <1>5, <2>1, <2>2 DEF RecordEvent, TypeOK, callVars
  <2>4. IsFiniteSet(events')
    BY <2>1, FS_AddElement
  <2> QED
    BY <1>1, <2>3, <2>4, AroundStep
<1>6. CASE ExpireEvent
  <2>1. TypeOK'
    BY <1>6 DEF ExpireEvent, TypeOK, callVars
  <2> QED
    BY <1>1, <1>2, <1>6, <2>1, AroundStep DEF ExpireEvent
<1> QED
  BY <1>3, <1>4, <1>5, <1>6

(* A call that ends with anything but a description. *)
LEMMA EndStep ==
    ASSUME KInv, NEW a, Answer(a), a.is \in {"error", "object", "list", "eventless"},
           UNCHANGED <<client, cluster>>, owed' \in SUBSET events, fails' \in 0..MaxFails
    PROVE  KInv'
<1>1. at' = "idle" /\ answer' = a
  BY DEF Answer
<1>2. TypeOK'
  BY <1>1 DEF KInv, TypeOK, cluster
<1> QED
  BY <1>1, <1>2 DEF KInv, CallInv, EventsAreTheirs, EventsComplete, cluster

LEMMA CallStep ==
    ASSUME KInv, NEW tool, NEW kind, NEW ns, NEW name,
           HandleToolsCall(tool, kind, ns, name)
    PROVE  KInv'
<1> USE DEF KInv
<1>1. CASE Refused(tool, kind, ns, name)
  BY <1>1, EndStep DEF HandleToolsCall, Answer, Error, TypeOK
<1>2. CASE ~Refused(tool, kind, ns, name)
  <2>1. answer' = Nothing /\ at' \in {"describe", "list", "get"}
    BY <1>2 DEF HandleToolsCall
  <2>2. TypeOK'
    BY <2>1 DEF HandleToolsCall, TypeOK, cluster, Nothing
  <2>3. kind \in DOMAIN KindAliases /\ KindAliases[kind] # "secrets"
    BY <1>2 DEF Refused
  <2>4. KindAliases[kind] \in Resources
    BY <2>3 DEF KindAliases, Resources
  <2>5. Canonical' = KindAliases[kind]
    BY DEF HandleToolsCall, Canonical
  <2> QED
    BY <2>1, <2>2, <2>4, <2>5 DEF HandleToolsCall, CallInv, EventsAreTheirs, EventsComplete,
                    cluster, Nothing
<1> QED
  BY <1>1, <1>2

LEMMA FetchOneStep ==
    ASSUME KInv, FetchOne
    PROVE  KInv'
<1> USE DEF KInv
<1>1. CASE Matching = {} /\ Answer(Error) /\ UNCHANGED <<found, owed>>
  BY <1>1, EndStep DEF FetchOne, Error, TypeOK, cluster
<1>2. ASSUME NEW o \in Matching, at = "get",
             Answer([is |-> "object", object |-> o]), UNCHANGED <<found, owed>>
      PROVE  KInv'
  BY <1>2, EndStep DEF FetchOne, TypeOK
<1>3. ASSUME NEW o \in Matching, at = "describe", found' = o,
             owed' = {e \in events : e.on = o}, at' = "events", UNCHANGED answer
      PROVE  KInv'
  <2>1. Canonical \in Resources
    BY <1>3 DEF CallInv
  <2>2. FoundFor(o)
    BY <1>3, <2>1, NamespaceOfKind
       DEF Matching, FoundFor, TypeOK, Served, CanonicalToKubeKind, ClusterScopedKinds, Resources
  <2>3. TypeOK'
    BY <1>3, <2>2 DEF FetchOne, TypeOK, cluster, FoundFor
  <2>4. CallInv'
    BY <1>3, <2>1, <2>2 DEF FetchOne, CallInv, FoundFor, Canonical
  <2>5. answer'.is # "described"
    BY <1>3 DEF CallInv, Nothing
  <2> QED
    BY <1>3, <2>3, <2>4, <2>5 DEF FetchOne, cluster, EventsAreTheirs, EventsComplete
<1> QED
  BY <1>1, <1>2, <1>3 DEF FetchOne

LEMMA FetchListStep ==
    ASSUME KInv, FetchList
    PROVE  KInv'
<1>1. PICK shown : Answer([is |-> "list", total |-> Cardinality(Listed), shown |-> shown])
  BY DEF FetchList
<1> QED
  BY <1>1, EndStep DEF FetchList, KInv, TypeOK

LEMMA RelatedEventsStep ==
    ASSUME KInv, RelatedEvents
    PROVE  KInv'
<1> DEFINE R == {e \in events : Related(e)}
<1> USE DEF KInv
<1>1. PICK es \in SetToSeqs(R) :
           Answer([is |-> "described", object |-> found, events |-> es])
  BY DEF RelatedEvents
<1>2. at = "events" /\ UNCHANGED <<client, cluster, request, found, owed, fails>>
  BY DEF RelatedEvents
<1>3. Canonical \in Resources /\ FoundFor(found) /\ \A e \in owed : e.on = found
  BY <1>2 DEF CallInv
<1>4. R \subseteq Event /\ owed \subseteq events /\ events \subseteq Event
  BY DEF TypeOK
<1>5. es \in Seq(R) /\ ToSet(es) = R
  BY SequenceOfSet, FS_Subset
<1>6. TypeOK'
  BY <1>1, <1>2, <1>4, <1>5 DEF TypeOK, Answer, cluster
<1>7. EventsAreTheirs'
  <2>1. ASSUME NEW i \in DOMAIN es
        PROVE  <<es[i].on.kind, es[i].on.ns, es[i].on.name>> =
                   <<found.kind, found.ns, found.name>>
    BY <1>3, <1>4, <1>5, RelatedAreTheirs
  <2> QED
    BY <1>1, <2>1 DEF Answer, EventsAreTheirs
<1>8. EventsComplete'
  <2>1. ASSUME found.ns # None \/ request.ns = None, NEW e \in owed
        PROVE  e \in R
    BY <1>3, <1>4, <2>1, TheirsAreRelated
  <2>2. found.ns # None \/ request.ns = None => owed \subseteq ToSet(es)
    BY <1>5, <2>1
  <2>3. answer' = [is |-> "described", object |-> found, events |-> es]
    BY <1>1 DEF Answer
  <2> QED
    BY <1>2, <2>2, <2>3 DEF EventsComplete, ToSet
<1> QED
  BY <1>1, <1>2, <1>6, <1>7, <1>8 DEF CallInv, Answer, cluster

LEMMA RequestFailsStep ==
    ASSUME KInv, RequestFails
    PROVE  KInv'
<1>1. fails' \in 0..MaxFails
  BY K8sAssumption, Numbers DEF RequestFails, KInv, K8sAssumption
<1>2. UNCHANGED <<client, cluster>> /\ owed' \in SUBSET events
  BY DEF RequestFails, KInv, TypeOK
<1>3. ASSUME Answer([is |-> "eventless", object |-> found])
      PROVE  KInv'
  BY <1>1, <1>2, <1>3, EndStep
<1>4. ASSUME Answer(Error)
      PROVE  KInv'
  BY <1>1, <1>2, <1>4, EndStep DEF Error
<1> QED
  BY <1>3, <1>4 DEF RequestFails

LEMMA KStep == KInv /\ [Next]_vars => KInv'
<1> SUFFICES ASSUME KInv, [Next]_vars PROVE KInv'
  OBVIOUS
<1>1. CASE CreateObject \/ DeleteObject \/ RecordEvent \/ ExpireEvent
  BY <1>1, ClusterStep
<1>2. CASE \E tool, kind, ns, name : HandleToolsCall(tool, kind, ns, name)
  BY <1>2, CallStep
<1>3. CASE UNCHANGED vars
  <2>1. Around /\ UNCHANGED <<objects, events, born>>
    BY <1>3 DEF vars, cluster, callVars, Around
  <2> QED
    BY <2>1, AroundStep DEF KInv, TypeOK, Around, callVars
<1> QED
  BY <1>1, <1>2, <1>3, FetchOneStep, FetchListStep, RelatedEventsStep, RequestFailsStep
     DEF Next

LEMMA KAlways == Spec => []KInv
BY KInit, KStep, PTL DEF Spec

-----------------------------------------------------------------------------
(* Every variable keeps its type: a description always has its object, and *)
(* only events there are are owed.                                         *)
THEOREM K8sTypeCorrect == Spec => []TypeOK
<1>1. KInv => TypeOK
  BY DEF KInv
<1> QED
  BY KAlways, <1>1, PTL

(* The events shown with an object are of its kind, namespace and name.    *)
THEOREM DescribedAreTheirs == Spec => []EventsAreTheirs
<1>1. KInv => EventsAreTheirs
  BY DEF KInv
<1> QED
  BY KAlways, <1>1, PTL

(* None of the events that the object had when it was fetched, and that    *)
(* are still kept, is missing.                                             *)
THEOREM DescribedComplete == Spec => []EventsComplete
<1>1. KInv => EventsComplete
  BY DEF KInv
<1> QED
  BY KAlways, <1>1, PTL

-----------------------------------------------------------------------------
(* What a list may hold, and how much of it is shown. *)
ListFor(a) ==
    /\ a.total \in Nat /\ Cardinality(a.shown) \in Nat
    /\ \A o \in a.shown :
          /\ o \in Object /\ o.kind = CanonicalToKubeKind[Canonical]
          /\ request.ns # None /\ o.ns # None => o.ns = request.ns
    /\ Cardinality(a.shown) = IF a.total > MaxListItems THEN MaxListItems ELSE a.total

\* An answer is about what was asked for, and not about what the cluster has
\* become since: the kind, the name, and the namespace if the kind has one.
AnswerAsAsked ==
    /\ answer.is \in {"object", "described", "eventless"} =>
          Canonical \in Resources /\ FoundFor(answer.object)
    /\ answer.is = "list" => Canonical \in Resources /\ ListFor(answer)

AskedInv == AnswerAsAsked /\ IsFiniteSet(objects)

LEMMA KindsServed == ASSUME Canonical \in Resources
                     PROVE  /\ Served[Canonical] = CanonicalToKubeKind[Canonical]
                            /\ Canonical \in ClusterScopedKinds <=> Served[Canonical] = "Node"
BY DEF Resources, Served, CanonicalToKubeKind, ClusterScopedKinds

LEMMA MatchIsFound ==
    ASSUME TypeOK, Canonical \in Resources, NEW o \in Matching
    PROVE  FoundFor(o)
BY KindsServed, NamespaceOfKind DEF Matching, FoundFor, TypeOK

LEMMA ListIsFor ==
    ASSUME TypeOK, IsFiniteSet(objects), Canonical \in Resources,
           NEW n, n = Cardinality(Listed),
           NEW shown \in kSubset(IF n > MaxListItems THEN MaxListItems ELSE n, Listed)
    PROVE  ListFor([is |-> "list", total |-> n, shown |-> shown])
<1>1. Listed \subseteq objects /\ n \in Nat
  BY FS_Subset, FS_CardinalityType DEF Listed
<1>2. shown \subseteq Listed
      /\ Cardinality(shown) = IF n > MaxListItems THEN MaxListItems ELSE n
  BY <1>1 DEF kSubset
<1>3. Cardinality(shown) \in Nat
  BY <1>1, <1>2, FS_Subset, FS_CardinalityType
<1>4. ASSUME NEW o \in shown
      PROVE  /\ o \in Object /\ o.kind = CanonicalToKubeKind[Canonical]
             /\ request.ns # None /\ o.ns # None => o.ns = request.ns
  <2>1. o \in objects /\ o \in Object /\ o.kind = Served[Canonical]
        /\ (Canonical \in ClusterScopedKinds \/ request.ns \in {None, o.ns})
    BY <1>1, <1>2 DEF Listed, TypeOK
  <2> QED
    BY <2>1, KindsServed, NamespaceOfKind
<1> QED
  BY <1>1, <1>2, <1>3, <1>4 DEF ListFor

LEMMA AskedStays ==
    ASSUME AnswerAsAsked, UNCHANGED <<request, answer>> PROVE AnswerAsAsked'
BY DEF AnswerAsAsked, FoundFor, ListFor, Canonical

LEMMA AskedStep == KInv /\ AskedInv /\ [Next]_vars => AskedInv'
<1> SUFFICES ASSUME KInv, AskedInv, [Next]_vars PROVE AskedInv'
  OBVIOUS
<1> USE DEF AskedInv
<1>1. ASSUME UNCHANGED cluster, AnswerAsAsked' PROVE AskedInv'
  BY <1>1 DEF cluster
<1>2. ASSUME UNCHANGED cluster, UNCHANGED request, answer'.is \in {"error", "nothing"}
      PROVE  AskedInv'
  BY <1>1, <1>2 DEF AnswerAsAsked
<1>3. CASE CreateObject
  <2>1. PICK o \in Object : objects' = objects \cup {o}
    BY <1>3 DEF CreateObject
  <2> QED
    BY <1>3, <2>1, AskedStays, FS_AddElement DEF CreateObject, callVars
<1>4. CASE DeleteObject
  <2>1. PICK o \in objects : objects' = objects \ {o}
    BY <1>4 DEF DeleteObject
  <2> QED
    BY <1>4, <2>1, AskedStays, FS_RemoveElement DEF DeleteObject, callVars
<1>5. CASE RecordEvent \/ ExpireEvent \/ UNCHANGED vars
  BY <1>5, AskedStays DEF RecordEvent, ExpireEvent, vars, callVars, cluster
<1>6. CASE \E tool, kind, ns, name : HandleToolsCall(tool, kind, ns, name)
  <2>1. UNCHANGED cluster /\ answer'.is \in {"error", "nothing"}
    BY <1>6 DEF HandleToolsCall, Error, Nothing
  <2> QED
    BY <1>1, <2>1 DEF AnswerAsAsked
<1>7. CASE FetchOne
  <2>1. Canonical \in Resources /\ answer = Nothing /\ UNCHANGED <<cluster, request>>
    BY <1>7 DEF FetchOne, KInv, CallInv
  <2>2. ASSUME NEW o \in Matching, Answer([is |-> "object", object |-> o]) PROVE AskedInv'
    <3>1. FoundFor(o)
      BY <2>1, MatchIsFound DEF KInv
    <3>2. answer'.is = "object" /\ answer'.object = o
      BY <2>2 DEF Answer
    <3> QED
      BY <1>1, <2>1, <3>1, <3>2 DEF AnswerAsAsked, FoundFor, Canonical
  <2>3. CASE Answer(Error)
    BY <1>2, <2>1, <2>3 DEF Answer, Error
  <2>4. CASE UNCHANGED answer
    BY <1>2, <2>1, <2>4 DEF Nothing
  <2> QED
    BY <1>7, <2>2, <2>3, <2>4 DEF FetchOne
<1>8. CASE FetchList
  <2>1. Canonical \in Resources /\ UNCHANGED <<cluster, request>>
    BY <1>8 DEF FetchList, KInv, CallInv
  <2> DEFINE n == Cardinality(Listed)
  <2>2. PICK shown \in kSubset(IF n > MaxListItems THEN MaxListItems ELSE n, Listed) :
             Answer([is |-> "list", total |-> n, shown |-> shown])
    BY <1>8 DEF FetchList
  <2>3. ListFor([is |-> "list", total |-> n, shown |-> shown])
    BY <2>1, ListIsFor DEF KInv
  <2> HIDE DEF n
  <2>4. answer' = [is |-> "list", total |-> n, shown |-> shown]
    BY <2>2 DEF Answer
  <2> QED
    BY <1>1, <2>1, <2>3, <2>4 DEF AnswerAsAsked, ListFor, Canonical
<1>9. CASE RelatedEvents \/ RequestFails
  <2>1. /\ at # "idle" => Canonical \in Resources
        /\ at = "events" => FoundFor(found)
        /\ at # "idle" /\ UNCHANGED <<cluster, request>>
    BY <1>9 DEF RelatedEvents, RequestFails, KInv, CallInv
  <2>2. \/ answer'.is = "error"
        \/ at = "events" /\ answer'.is \in {"described", "eventless"} /\ answer'.object = found
    <3>1. ASSUME RelatedEvents
          PROVE  at = "events" /\ answer'.is = "described" /\ answer'.object = found
      <4>1. PICK es : Answer([is |-> "described", object |-> found, events |-> es])
        BY <3>1 DEF RelatedEvents
      <4> QED
        BY <3>1, <4>1 DEF RelatedEvents, Answer
    <3> QED
      BY <1>9, <3>1 DEF RequestFails, Answer, Error
  <2>3. CASE answer'.is = "error"
    BY <1>2, <2>1, <2>3
  <2>4. CASE at = "events" /\ answer'.is \in {"described", "eventless"} /\ answer'.object = found
    BY <1>1, <2>1, <2>4 DEF AnswerAsAsked, FoundFor, Canonical
  <2> QED
    BY <2>2, <2>3, <2>4
<1> QED
  BY <1>3, <1>4, <1>5, <1>6, <1>7, <1>8, <1>9 DEF Next

(* k8s_get and k8s_describe answer with objects of the kind, the name and  *)
(* the namespace they were asked for, never with a Secret, and a list says *)
(* how many there are and shows no more than maxListItems of them          *)
(* (k8s.go:137-247, 280-510).                                              *)
THEOREM AnswersAsAsked == Spec => []AnswerAsAsked
<1>1. Init => AskedInv
  BY FS_EmptySet DEF Init, AskedInv, AnswerAsAsked, Nothing
<1>2. AskedInv => AnswerAsAsked
  BY DEF AskedInv
<1> QED
  BY <1>1, <1>2, AskedStep, KAlways, PTL DEF Spec
=============================================================================
