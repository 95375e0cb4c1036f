----------------------------- MODULE Documents -----------------------------
(***************************************************************************)
(* The collections whose rows are JSON documents and nothing else: the     *)
(* load balancer's seven, disks, addresses, buckets, Cloud Run services    *)
(* and Redis instances. No table has a foreign key to another; references  *)
(* between them are JSON fields that handlers check when a body arrives.   *)
(*                                                                         *)
(* A document is reduced to its reference fields and one label for all     *)
(* other keys. A field is named by the collection it points into, since no *)
(* document has two fields into the same one. An id is                     *)
(* <<collection, name>>; one project is modelled.                          *)
(***************************************************************************)
EXTENDS Integers, FiniteSetsExt, Functions

CONSTANTS
    Ids,       \* <<collection, name>> of every resource a client may name
    Labels,    \* values of the rest of a document
    Bodies,    \* [Ids -> the bodies clients send]
    NoRow      \* there is no row under this key

---------------------------------------------------------------------------
(* One collection each: the fields checked, in that order, and whether the *)
(* API has a PATCH. *)

GlobalAddress == [fields |-> <<>>, patch |-> FALSE]
HealthCheck == [fields |-> <<>>, patch |-> TRUE]
BackendService == [fields |-> <<"healthChecks">>, patch |-> TRUE]
SSLCertificate == [fields |-> <<>>, patch |-> FALSE]
TargetHTTPSProxy == [fields |-> <<"urlMaps", "sslCertificates">>, patch |-> TRUE]
URLMap == [fields |-> <<"backendServices">>, patch |-> TRUE]
GlobalForwardingRule ==
    [fields |-> <<"targetHttpsProxies", "globalAddresses">>, patch |-> FALSE]
Disk == [fields |-> <<>>, patch |-> FALSE]
Address == [fields |-> <<>>, patch |-> FALSE]
Bucket == [fields |-> <<>>, patch |-> TRUE]
CloudRunService == [fields |-> <<>>, patch |-> TRUE]
RedisInstance == [fields |-> <<>>, patch |-> TRUE]

Schema ==
    [globalAddresses |-> GlobalAddress, healthChecks |-> HealthCheck,
     backendServices |-> BackendService, sslCertificates |-> SSLCertificate,
     targetHttpsProxies |-> TargetHTTPSProxy, urlMaps |-> URLMap,
     forwardingRules |-> GlobalForwardingRule, disks |-> Disk,
     addresses |-> Address, buckets |-> Bucket, services |-> CloudRunService,
     instances |-> RedisInstance]

Collections == DOMAIN Schema

ASSUME IdsAssumption == Ids \subseteq Collections \X STRING
ASSUME LabelsAssumption == Labels # {}

\* healthChecks and sslCertificates are lists, the other fields one reference.
Lists == {"healthChecks", "sslCertificates"}

Fields(id) == Schema[id[1]].fields
Targets(id) == Range(Fields(id))

---------------------------------------------------------------------------
(* References and documents *)

\* A bare name or a link into this project and the field's collection is
\* "here"; a link into another project or collection, with a name that may
\* also exist here, is "elsewhere". (A literal IP address is no reference.)
Reference == [to : Ids, form : {"here", "elsewhere"}]

Document(id) == [refs : [Targets(id) -> SUBSET Reference], label : Labels]

\* The keys of a PATCH body; a create body has all of them.
Keys(id) == Targets(id) \cup {"label"}
Body(id) == [keys : SUBSET Keys(id), refs : [Targets(id) -> SUBSET Reference],
             label : Labels]

\* A reference is in its own field, a key that is not there carries nothing, and
\* what is not a list holds at most one reference.
WellFormed(body) ==
    \A t \in DOMAIN body.refs :
        /\ \A ref \in body.refs[t] : ref.to[1] = t /\ t \in body.keys
        /\ t \in Lists \/ Cardinality(body.refs[t]) <= 1

ASSUME BodiesAssumption ==
    \A id \in Ids : \A body \in Bodies[id] : body \in Body(id) /\ WellFormed(body)

ASSUME NoRowAssumption == \A id \in Ids : NoRow \notin Document(id)

Exists(rows, id) == rows[id] # NoRow

\* computeRefName finds a name in this project and collection.
ComputeRefName(ref) == ref.form = "here"

\* The reference names a resource that exists.
Resolves(rows, ref) == ComputeRefName(ref) /\ Exists(rows, ref.to)

References(body) == UNION Range(body.refs)

\* The document a create body becomes.
NewDocument(body) == [refs |-> body.refs, label |-> body.label]

\* patchMerge: keys that are not in the patch keep their value.
PatchMerge(doc, body) ==
    [refs |-> [t \in DOMAIN doc.refs |->
                  IF t \in body.keys THEN body.refs[t] ELSE doc.refs[t]],
     label |-> IF "label" \in body.keys THEN body.label ELSE doc.label]

---------------------------------------------------------------------------
(* What a request may have seen: history, which no action reads. *)

NoBody == [keys |-> {}, refs |-> <<>>, label |-> CHOOSE l \in Labels : TRUE]

\* The references of its body that have resolved at some moment, and, if it is a
\* PATCH, the documents its row has had.
Nothing == [found |-> {}, was |-> {}]

Look(s, call, rows) ==
    [found |-> s.found \cup {ref \in References(call.body) : Resolves(rows, ref)},
     was |-> IF call.op = "update" THEN s.was \cup ({rows[call.id]} \ {NoRow}) ELSE {}]
=============================================================================
