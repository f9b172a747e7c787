---------------------------- MODULE MCDevelopment ----------------------------
(* Small instances of Development. *)
EXTENDS Development

MCContents ==
    {[kind |-> "exports", roots |-> 0], [kind |-> "exports", roots |-> 1],
     [kind |-> "selfStarts", roots |-> 0], [kind |-> "throws", roots |-> 0],
     [kind |-> "refused", roots |-> 0]}

\* A doc comment below two routes, where a late mark would go; one above a route; comments an
\* older version left; a one-line doc comment and a comment that is no doc comment.
MCTexts ==
    {<<RouteLine(1), RouteLine(2), Line("code"), Line("open"), Line("text"), Line("close")>>,
     <<Line("open"), Line("text"), Line("close"), RouteLine(1), Line("blank"), RouteLine(2)>>,
     <<OurLine("single"), RouteLine(1), OurLine("single"), Line("blank"), RouteLine(2)>>,
     <<Line("oneline"), RouteLine(1), Line("code"), Line("close"), RouteLine(2)>>}
=============================================================================
