---------------------------- MODULE MCArticleCache ----------------------------
(* Instances of ArticleCache for TLC.                                      *)
EXTENDS ArticleCache

\* A change of the body, and a public article that becomes premium.
MCUpdates == {<<{"body"}, "unchanged">>, <<{}, "premium">>}
=============================================================================
