---------------------------- MODULE MCRelisting -----------------------------
(* Relisting over five small files: local ones, and objects of a bucket. *)
EXTENDS Relisting, MCInputs

MCContents == <<Source(<<"pitA", "rib">>, 2, "eof"),
                Source(<<"msg", "state">>, 3, "eof"),
                Source(<<"bad", "state", "state">>, 2, "eof"),
                Source(<<"msg", "keep", "state", "msg">>, 2, "eof"),
                Source(<<"state">>, 3, "torn")>>

Path(scheme, wild, names) == [scheme |-> scheme, wild |-> wild, names |-> names]

Call(kind, paths) == [kind |-> kind, paths |-> paths]

MCCalls == {Call("varchar", <<Path("none", TRUE, 1 .. 5)>>),
            Call("varchar", <<Path("s3", TRUE, 1 .. 4)>>),
            Call("list", <<Path("none", TRUE, {3, 5}), NullPath, Path("none", FALSE, {1})>>),
            Call("list", <<Path("s3", FALSE, {2}), Path("http", TRUE, {1}),
                           Path("none", TRUE, {3, 4})>>),
            Call("varchar", <<Path("other", FALSE, {2})>>),
            Call("list", <<Path("none", TRUE, {1, 2}), Path("other", TRUE, {9})>>),
            Call("list", <<Path("malformed", FALSE, {}), Path("none", FALSE, {1})>>),
            Call("list", <<NullPath>>),
            Call("blob", <<Path("blob", FALSE, {4})>>),
            Call("other", <<>>)}

MCListings == {f.files : f \in {ResolveSources(c, w) : c \in MCCalls, w \in SUBSET (1 .. 5)}}

MCListedInputs == {[i \in DOMAIN l |-> MCContents[l[i]]] : l \in MCListings}
=============================================================================
