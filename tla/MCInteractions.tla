--------------------------- MODULE MCInteractions ---------------------------
(* Instances of Interactions for TLC.                                      *)
EXTENDS Interactions, TLC

CONSTANTS u1, a1, g1

\* The rows of the article an instance goes through.
MCFirst == [access |-> "public", published |-> TRUE, enabled |-> {"comment", "react"}]
MCArticles == {MCFirst, [MCFirst EXCEPT !.access = "premium"],
               [MCFirst EXCEPT !.access = "internal_only"],
               [MCFirst EXCEPT !.published = FALSE]}

\* One advertisement has been active for a while, another can be created.
MCFirstAd ==
  [a \in Ads |-> IF a = a1
                 THEN [status |-> "active", from |-> 0, to |-> 2, targets |-> {g1}]
                 ELSE NoAd]

MCCreations == {[from |-> 0, to |-> 2, targets |-> {}]}

MCNoBody == [from |-> {}, to |-> {}, targets |-> {}]
MCUpdates == {[MCNoBody EXCEPT !.from = {1}], [MCNoBody EXCEPT !.to = {1}],
              [MCNoBody EXCEPT !.targets = {{}}],
              [from |-> {0}, to |-> {2}, targets |-> {{g1}}]}
=============================================================================
