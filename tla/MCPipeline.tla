------------------------------ MODULE MCPipeline ------------------------------
EXTENDS Pipeline

MCPaths == {<<"/">>, <<"/", "a">>, <<"/", "a", "b", "/">>, <<"b">>}
MCKinds == {"csrf", "ipFilter", "validate", "rateLimit", "multipart", "session", "redis",
            "logger", "audit", "otel", "own3"}

MCJars == {<<>>, <<<<"sid", "t">>>>, <<<<"_csrf", "t">>>>, <<<<"_csrf", None>>, <<"_csrf", "t">>>>,
           <<<<"sid", "u">>, <<"_csrf", "t">>, <<"_csrf", "u">>>>}
MCAddresses == [form : {"dotted"}, ip : {0, 3}]
               \cup {[form |-> "mapped", ip |-> 3], [form |-> "other", ip |-> 0]}
MCRanges == {[ip |-> 1, size |-> 2], [ip |-> 3, size |-> 1], [ip |-> 0, size |-> 4]}
MCParts == [names : {{"name", "filename"}, {"name"}}, size : {1, 2}, whole : {TRUE}]
           \cup {[names |-> {"filename"}, size |-> 1, whole |-> FALSE],
                 [names |-> {}, size |-> 2, whole |-> TRUE]}
MCBodies == UNION {[1..k -> MCParts] : k \in 0..3}
MCLimits == {[maxFiles |-> 1, maxFileSize |-> 1, maxFieldSize |-> 1]}
=============================================================================
