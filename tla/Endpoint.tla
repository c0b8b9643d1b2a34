------------------------------ MODULE Endpoint ------------------------------
(***************************************************************************)
(* Endpoint resolution (provider/endpoint): the three kinds of endpoint    *)
(* configuration, path templates, the query plan, the network policy, and  *)
(* the binding of a credential to a destination.                           *)
(*                                                                         *)
(* A URL is a record.  Its path is the sequence of its segments: literal   *)
(* ones, and encoded ones, the text a template variable stands for after   *)
(* percent-encoding, which contains no separator but may be a dot segment. *)
(* Its query is a sequence of name and value pairs.                        *)
(***************************************************************************)
EXTENDS Answers, Integers

LOCAL INSTANCE SequencesExt
LOCAL INSTANCE Functions

CONSTANT PublicHosts       \* the hosts in use that the production policy admits

Literal(text) == <<"literal", text>>
Encoded(text) == <<"encoded", text>>

Url(scheme, host, path, query) ==
    [scheme |-> scheme, host |-> host, port |-> IF scheme = "https" THEN 443 ELSE 80,
     path |-> path, query |-> query, userinfo |-> FALSE, fragment |-> FALSE]

UrlOrigin(url) == [scheme |-> url.scheme, host |-> url.host, port |-> url.port]

(***************************************************************************)
(* Configurations.  Every resolution answers a record with the endpoint    *)
(* when the answer is Ok.                                                  *)
(***************************************************************************)
AbsoluteEndpoint(url) == [kind |-> "absolute", base |-> url, template |-> <<>>, query |-> <<>>]
BaseAndPath(url, path) == [kind |-> "base_and_path", base |-> url, template |-> path, query |-> <<>>]
TemplateEndpoint(url, template, query) ==
    [kind |-> "template", base |-> url, template |-> template, query |-> query]

Variable(name) == <<"variable", name>>

\* The values a catalog mapping gives to the variables; no deployment is {}.
EndpointValues(product, provider_model, deployment) ==
    {<<"product", product>>, <<"provider_model", provider_model>>}
      \cup {<<"deployment", d>> : d \in deployment}

ParseTemplate(template) ==
    FirstFailure(<< <<template = <<>>, "configuration", "empty template">>,
                    <<\E i \in DOMAIN template : template[i][1] = "unsafe",
                      "configuration", "unsafe segment">> >>)

RequiresMapping(config) ==
    config.kind = "template" /\ \E i \in DOMAIN config.template : config.template[i][1] = "variable"

\* Rendering appends one segment for each segment of the template.
Render(template, basePath, values) ==
    basePath \o [i \in DOMAIN template |->
        IF template[i][1] = "variable"
        THEN Encoded((CHOOSE v \in values : v[1] = template[i][2])[2])
        ELSE template[i]]

\* Url::set_path removes the dot segments, which it knows in their encoded form
\* too: one dot is no segment, two take the segment before them along, and at
\* the end either leaves an empty segment.  No literal is one.
DotSegments == {Encoded("."), Encoded("..")}

Collapse(kept, segment) ==
    CASE segment = Encoded("..") -> SubSeq(kept, 1, Len(kept) - 1)
      [] segment = Encoded(".") -> kept
      [] OTHER -> Append(kept, segment)

SetPath(path) ==
    IF \A i \in DOMAIN path : path[i] \notin DotSegments THEN path
    ELSE FoldLeft(Collapse, <<>>, path)
           \o (IF path[Len(path)] \in DotSegments THEN <<Literal("")>> ELSE <<>>)

RenderFails(template, values) ==
    \E i \in DOMAIN template :
        template[i][1] = "variable" /\ \A v \in values : v[1] # template[i][2]

(***************************************************************************)
(* The query plan registers every key the base URL may carry.              *)
(***************************************************************************)
QuerySet(value, merge) == [op |-> "set", value |-> value, merge |-> merge]
QueryRemove == [op |-> "remove", value |-> "", merge |-> "override"]

QueryFails(plan, query) ==
    \/ \E i, j \in DOMAIN query : i < j /\ query[i][1] = query[j][1]
    \/ \E i \in DOMAIN query :
          \/ query[i][1] \notin DOMAIN plan
          \/ plan[query[i][1]].op = "set" /\ plan[query[i][1]].merge = "reject_existing"

\* The pairs of the final query, in some fixed order of the names.
AppliedQuery(plan) ==
    SetToSeq({<<name, plan[name].value>> : name \in {n \in DOMAIN plan : plan[n].op = "set"}})

(***************************************************************************)
(* The production network policy needs HTTPS and a public host.            *)
(***************************************************************************)
ValidateCommon(url) ==
    FirstFailure(<< <<url.userinfo, "configuration", "userinfo">>,
                    <<url.fragment, "configuration", "fragment">>,
                    <<url.scheme \notin {"http", "https"}, "configuration", "scheme">> >>)

ValidateNetwork(url) ==
    FirstError(<< ValidateCommon(url),
        FirstFailure(<< <<url.scheme # "https", "configuration", "https required">>,
                        <<url.host \notin PublicHosts, "configuration", "private host">> >>) >>)

Admitted(url) == [answer |-> ValidateNetwork(url), url |-> url]

\* EndpointConfig::resolve, on the URL the configuration produces.
Resolve(config, values) ==
    LET template == config.template
        fixed == config.kind # "template"
        usable == IF fixed THEN {} ELSE values
        failure == FirstFailure(<<
            <<fixed /\ config.base.query # <<>>, "configuration", "query is forbidden">>,
            <<config.kind = "base_and_path" /\ ParseTemplate(template) # Ok,
              "configuration", "unsafe segment">>,
            <<RenderFails(template, usable), "configuration", "mapping values required">>,
            <<~fixed /\ QueryFails(config.query, config.base.query),
              "configuration", "query conflict">> >>)
        url == [config.base EXCEPT !.path = SetPath(Render(template, @, usable)),
                                   !.query = IF fixed THEN <<>> ELSE AppliedQuery(config.query)]
    IN  IF failure = Ok THEN Admitted(url) ELSE [answer |-> failure, url |-> config.base]

(***************************************************************************)
(* Credential bindings: an exact origin, and for some audiences a path     *)
(* prefix that something must follow.                                      *)
(***************************************************************************)
Binding(origin, prefix) == [origin |-> origin, prefix |-> prefix]

OfficialBinding(host, prefix) ==
    Binding([scheme |-> "https", host |-> host, port |-> 443], prefix)

AudienceBinding(audience) ==
    CASE audience = "official_openai" -> OfficialBinding("api.openai.com", <<>>)
      [] audience = "official_anthropic" -> OfficialBinding("api.anthropic.com", <<>>)
      [] audience = "openrouter" -> OfficialBinding("openrouter.ai", <<>>)
      [] audience = "deepseek" -> OfficialBinding("api.deepseek.com", <<>>)
      [] audience = "zai_standard" ->
            OfficialBinding("api.z.ai", <<Literal("api"), Literal("paas"), Literal("v4")>>)
      [] audience = "zai_coding" ->
            OfficialBinding("api.z.ai", <<Literal("api"), Literal("coding"), Literal("paas"), Literal("v4")>>)

\* Mutant: the scheme and the port are not compared.
PermitsHost(binding, url) ==
    binding.origin.host = url.host /\ (binding.prefix = <<>> \/ IsStrictPrefix(binding.prefix, url.path))

Permits(binding, url) ==
    /\ binding.origin = UrlOrigin(url)
    /\ binding.prefix = <<>> \/ IsStrictPrefix(binding.prefix, url.path)
=============================================================================
