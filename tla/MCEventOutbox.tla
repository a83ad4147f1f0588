---------------------------- MODULE MCEventOutbox ----------------------------
(* Instances of EventOutbox for TLC.                                       *)
EXTENDS EventOutbox

CONSTANTS e1, e2, a1, k1

\* An article is published for subscribers and then updated.
MCPremiumThenUpdate ==
  [e \in Events |-> IF e = e1 THEN "PremiumArticlePublished"
                              ELSE "ArticleUpdatedAfterPublication"]

MCAggregate == [e \in Events |-> a1]
MCOccurredAt == [e \in Events |-> IF e = e1 THEN 1 ELSE 2]
\* All workers run under the default name.
MCOneName == [w \in Workers |-> k1]
=============================================================================
