-------------------------- MODULE ResourceReadsMC --------------------------
(* Tokens that each miss one thing, URIs in every form, and a list of      *)
(* three objects.                                                          *)
EXTENDS ResourceReads

MCConfigs ==
  {[EnableImpersonation |-> imp, jwks |-> jwks, ServeResources |-> ~imp,
    Issuer |-> iss, Audience |-> iss] :
     <<imp, jwks, iss>> \in {<<FALSE, FALSE, "">>, <<TRUE, FALSE, "">>, <<TRUE, TRUE, "us">>}}

Good == [wellFormed |-> TRUE, kid |-> "k1", signer |-> "k1", expires |-> "later",
         iss |-> "us", aud |-> "us", user |-> "ann", groups |-> <<"ann", "bob">>]

Tokens ==
  {Good,
   [Good EXCEPT !.wellFormed = FALSE],
   [Good EXCEPT !.kid = ""],
   [Good EXCEPT !.kid = "k2"],
   [Good EXCEPT !.kid = "k2", !.signer = "k2"],
   [Good EXCEPT !.signer = "hmac"],
   [Good EXCEPT !.kid = "hmac", !.signer = "hmac"],
   [Good EXCEPT !.expires = "before"],
   [Good EXCEPT !.expires = Nil],
   [Good EXCEPT !.iss = "them"],
   [Good EXCEPT !.aud = "them"],
   [Good EXCEPT !.user = Nil],
   [Good EXCEPT !.user = NotString],
   [Good EXCEPT !.user = ""],
   [Good EXCEPT !.user = "system:masters"],
   [Good EXCEPT !.user = "long"],
   [Good EXCEPT !.user = "ctl"],
   [Good EXCEPT !.groups = Nil],
   [Good EXCEPT !.groups = NotString],
   [Good EXCEPT !.groups = <<>>],
   [Good EXCEPT !.groups = <<"", "bob", NotString, "ann">>],
   [Good EXCEPT !.groups = <<"bob", "ann", "bob">>],
   [Good EXCEPT !.groups = <<"bob", "system:masters">>],
   [Good EXCEPT !.groups = <<"long">>],
   [Good EXCEPT !.groups = <<"ctl", NotString>>]}

MCSegments == STRING

Pod == Components("namespaced", "ann", "", "v1", "pods", "bob")
Deployment == Components("namespaced", "ann", "apps", "v1", "deployments", "bob")
Node == Components("clustered", "", "", "v1", "nodes", "bob")
ClusterRole == Components("clustered", "", "rbac", "v1", "clusterroles", "bob")
Example == Components("namespaced", "default", "", "v1", "pods", "example")

Asked(header, uri, meant) == [header |-> header, uri |-> uri, meant |-> meant]

MCInputs ==
  {Asked(h, Template(Pod), Pod) : h \in Tokens \cup {NoHeader, NotBearer}}
  \cup {Asked(Good, Template(t), t) : t \in {Deployment, Node, ClusterRole}}
  \cup {Asked(NoHeader, Template(Example), Example)}
  \cup {Asked(Good, [scope |-> scope, path |-> path], Nil) :
          <<scope, path>> \in
            {<<"namespaced", <<"ann", "v1", "pods", "bob">> >>,
             <<"namespaced", <<"", "apps", "v1", "deployments", "bob">> >>,
             <<"namespaced", <<"ann", "", "v1", "pods", "">> >>,
             <<"clustered", <<"v1", "nodes", "bob">> >>,
             <<"clustered", <<"", "v1", "nodes", "">> >>,
             <<"clustered", <<"rbac", "v1", "clusterroles", "">> >>,
             <<"clustered", <<"v1", "", "nodes", "bob">> >>}}

Entry(gv, name, namespaced) == [groupVersion |-> gv, name |-> name, namespaced |-> namespaced]

MCCatalog ==
  {Entry(<<"v1">>, <<"pods">>, TRUE), Entry(<<"v1">>, <<"pods", "log">>, TRUE),
   Entry(<<"v1">>, <<"nodes">>, FALSE), Entry(<<"apps", "v1">>, <<"deployments">>, TRUE)}

MCObjects == <<{<<"a">>, <<"a", "b">>}, {}, {<<"a", "b", "c">>, <<"b">>}>>

Filter(annotations, include, exclude) ==
  [annotations |-> annotations, include |-> include, exclude |-> exclude]

MCFilters ==
  {Filter(TRUE, {}, {<<"a", "b", "c">>}), Filter(TRUE, {}, {}),
   Filter(FALSE, {<<"a">>}, {}), Filter(TRUE, {<<"a">>, <<"c">>}, {<<"a", "*">>}),
   Filter(TRUE, {}, {<<"a", "b", "*">>, <<"c">>}), Filter(TRUE, {}, {<<"*">>})}

MCLimits == {-1, 0, 1, 2}
=============================================================================
