--------------------------- MODULE MCCollections ---------------------------
(* Small instances of Collections for TLC. *)
EXTENDS Collections, TLC

\* A proxy refers to a URL map and to a list of certificates: two fields to look up,
\* and to PATCH one at a time.
s1 == <<"sslCertificates", "s1">>
u1 == <<"urlMaps", "u1">>
p1 == <<"targetHttpsProxies", "p1">>
MCIds == {s1, u1, p1}
MCLabels == {"old", "new"}

Here(id) == [to |-> id, form |-> "here"]
Elsewhere(id) == [to |-> id, form |-> "elsewhere"]

\* What a field is sent with: nothing, a resource of its collection, or a link to
\* one of that name in another project.
Values(t) ==
    CASE t = "sslCertificates" -> {{Here(s1)}}
      [] t = "urlMaps" -> {{}, {Here(u1)}, {Elsewhere(u1)}}
      [] OTHER -> {{}}

\* A create sends every key; a PATCH one field, or the label, which it changes.
BodiesFor(id) ==
    {body \in [keys : {Keys(id), {"label"}} \cup {{t} : t \in Targets(id)},
               refs : [Targets(id) -> {{}} \cup UNION {Values(t) : t \in Targets(id)}],
               label : MCLabels] :
        /\ WellFormed(body)
        /\ \A t \in body.keys \ {"label"} : body.refs[t] \in Values(t)
        /\ body.label = IF body.keys = {"label"} THEN "new" ELSE "old"}
MCBodies == [id \in MCIds |-> BodiesFor(id)]

Symmetry == Permutations(Clients)
=============================================================================
