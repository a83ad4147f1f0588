------------------------- MODULE MCArticlePublishing -------------------------
(* Instances of ArticlePublishing for TLC.                                 *)
EXTENDS ArticlePublishing

\* Bodies of PATCH: one text, the other one, access alone, tags alone.
MCUpdates == {<<{"title"}, "unchanged">>, <<{"body"}, "unchanged">>,
              <<{}, "premium">>, <<{}, "unchanged">>}
=============================================================================
