--------------------------- MODULE MCCloudAccess ---------------------------
(* Instances of CloudAccess: two buckets of five objects, and one URL. *)
EXTENDS CloudAccess

Object(bucket, key) == [bucket |-> bucket, key |-> key]

MCObjects == <<Object("b", <<"d", "24", "rib">>), Object("b", <<"d", "24", "upd">>),
               Object("b", <<"d", "25", "rib">>), Object("b", <<"top">>),
               Object("c", <<"d", "rib">>), Object("h", <<"rib*">>)>>

Years == Wildcard("2?", {"24", "25"})
AnyName == Wildcard("*", {"24", "25", "b", "c", "d", "rib", "top", "upd"})

S3(bucket, key) == [scheme |-> "s3", bucket |-> bucket, key |-> key, addresses |-> {"public"}]
Http(key, addresses) ==
  [scheme |-> "http", bucket |-> "h", key |-> key, addresses |-> addresses]

Rib24 == S3("b", <<Literal("d"), Literal("24"), Literal("rib")>>)
Ribs == S3("b", <<Literal("d"), Years, Literal("rib")>>)
OfYear == S3("b", <<Literal("d"), Literal("24"), AnyName>>)
Everything == S3("b", <<Deep, AnyName>>)
Deeper == S3("b", <<Literal("d"), Deep, Literal("rib")>>)
Flat == S3("b", <<AnyName>>)
OtherRibs == S3("c", <<Deep, Literal("rib")>>)
Starred == Http(<<Wildcard("rib*", {"rib"})>>, {})
Inside == Http(<<Wildcard("rib*", {"rib"})>>, {"internal", "public"})

\* The paths of the calls: literals, globs of every kind, one bucket or two.
PathLists == {<<Rib24>>, <<Ribs, OtherRibs>>, <<OfYear, Ribs>>, <<Everything>>,
              <<Deeper, Flat>>, <<Starred, Flat, Rib24>>, <<Ribs, Inside>>}

Given(region) == [NoFields EXCEPT !.credentials = "given", !.region = region]
NoArguments == [region |-> Absent, endpoint |-> Absent, url_style |-> Absent, use_ssl |-> Absent]

Secret(scope, region) == [scope |-> scope, fields |-> Given(region)]
OfB == Secret(<<"b">>, "secret")
OfC == Secret(<<"c">>, Empty)
OfYears == Secret(<<"b", "d">>, Absent)
Of24 == Secret(<<"b", "d", "24">>, Empty)

SecretSets == {{}, {OfC}, {OfB, OfC}, {OfB, OfYears}, {OfB, OfC, OfYears, Of24}}

\* Every listing of every call, in either environment, and every secret with every set of arguments.
MCCases ==
  [paths : PathLists, arguments : {NoArguments}, secrets : SecretSets, world : SUBSET DOMAIN MCObjects,
   allowInternal : BOOLEAN]
    \cup [paths : {<<Rib24>>}, arguments : Arguments, world : {{1}}, allowInternal : {FALSE},
          secrets : {{[scope |-> <<"b">>, fields |-> fields]} : fields \in Fields}]
============================================================================
