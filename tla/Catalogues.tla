------------------------------ MODULE Catalogues ------------------------------
(***************************************************************************)
(* The lists that rememberJson keeps in Redis: GET /categories (listPublic *)
(* of src/src/categories/categories.service.ts), GET /tags (list of        *)
(* src/src/tags/tags.service.ts) and GET /articles, which shows the names  *)
(* of both; and the requests that change a category or create a tag.       *)
(*                                                                         *)
(* A table is the number of its changes, a list what it shows of each      *)
(* table.  Slugs that are taken, audit rows and the parameters of          *)
(* GET /articles are left out.                                             *)
(***************************************************************************)
EXTENDS Naturals, RedisKeys

CONSTANTS
  Callers,          \* slots of requests
  NoList,
  MaxTableChanges, MaxListErrors

ASSUME CataloguesAssumption ==
  MaxTableChanges \in Nat /\ MaxListErrors \in Nat

VARIABLES
  table,            \* categories and tags
  list,             \* the Redis entry of each list
  caller,
  tableChanges, listErrors

listCounters == <<tableChanges, listErrors>>
listVars == <<table, list, caller, listCounters>>

-----------------------------------------------------------------------------
Tables == {"categories", "tags"}
Lists == {"categories", "tags", "articles"}

Shows(l) == IF l = "articles" THEN Tables ELSE {l}

ListKey(l) ==
  Key(CASE l = "categories" -> <<"categories", "public-list">>
        [] l = "tags"       -> <<"tags", "list">>
        [] l = "articles"   -> <<"articles", "public-list", "hash">>)

\* The patterns that the requests about a table delete, one after the other.
ListPatterns(t) == <<<<t, "*">>, <<"articles", "*">>>>

NoCall == [pc |-> "idle", about |-> "none", value |-> NoList, left |-> <<>>]

CataloguesInit ==
  /\ table = [t \in Tables |-> 0]
  /\ list = [l \in Lists |-> NoList]
  /\ caller = [c \in Callers |-> NoCall]
  /\ tableChanges = 0 /\ listErrors = 0

ListError == listErrors < MaxListErrors /\ listErrors' = listErrors + 1

\* Mutant: a caller who finds a list writes it back, to renew its TTL.
MissListRenewing(c, l) ==
  /\ caller[c].pc = "idle"
  /\ caller' = [caller EXCEPT ![c] =
       IF list[l] = NoList THEN [NoCall EXCEPT !.pc = "query", !.about = l]
       ELSE [NoCall EXCEPT !.pc = "set", !.about = l, !.value = list[l]]]
  /\ UNCHANGED <<table, list, listCounters>>

\* rememberJson: a list that is found is answered, and nothing changes.
MissList(c, l) ==
  /\ caller[c].pc = "idle"
  /\ IF list[l] = NoList THEN UNCHANGED listErrors ELSE ListError
  /\ caller' = [caller EXCEPT ![c] = [NoCall EXCEPT !.pc = "query", !.about = l]]
  /\ UNCHANGED <<table, list, tableChanges>>

QueryList(c) ==
  LET l == caller[c].about IN
  /\ caller[c].pc = "query"
  /\ caller' = [caller EXCEPT ![c].pc = "set",
                              ![c].value = [t \in Shows(l) |-> table[t]]]
  /\ UNCHANGED <<table, list, listCounters>>

SetList(c) ==
  /\ caller[c].pc = "set"
  /\ \/ /\ list' = [list EXCEPT ![caller[c].about] = caller[c].value]
        /\ UNCHANGED listErrors
     \/ ListError /\ UNCHANGED list
  /\ caller' = [caller EXCEPT ![c] = NoCall]
  /\ UNCHANGED <<table, tableChanges>>

\* create and update of a category, create of a tag: COMMIT.
ChangeTable(c, t) ==
  /\ caller[c].pc = "idle"
  /\ tableChanges < MaxTableChanges
  /\ tableChanges' = tableChanges + 1
  /\ table' = [table EXCEPT ![t] = @ + 1]
  /\ caller' = [caller EXCEPT ![c] = [NoCall EXCEPT !.pc = "invalidate", !.about = t,
                                                    !.left = ListPatterns(t)]]
  /\ UNCHANGED <<list, listErrors>>

\* invalidateReadCaches, after the commit: deleteByPattern of each pattern.
InvalidateLists(c) ==
  /\ caller[c].pc = "invalidate"
  /\ \/ /\ list' = [l \in Lists |->
                    IF Deleted(ListKey(l), {Head(caller[c].left)}) THEN NoList ELSE list[l]]
        /\ UNCHANGED listErrors
     \/ ListError /\ UNCHANGED list
  /\ caller' = [caller EXCEPT ![c] = IF Len(caller[c].left) = 1 THEN NoCall
                                     ELSE [@ EXCEPT !.left = Tail(@)]]
  /\ UNCHANGED <<table, tableChanges>>

\* 120 or 300 s have passed.
ListExpires(l) ==
  /\ list[l] # NoList
  /\ list' = [list EXCEPT ![l] = NoList]
  /\ UNCHANGED <<table, caller, listCounters>>

CataloguesNext ==
  \/ \E c \in Callers :
       \/ \E l \in Lists : MissList(c, l)
       \/ \E t \in Tables : ChangeTable(c, t)
       \/ QueryList(c) \/ SetList(c) \/ InvalidateLists(c)
  \/ \E l \in Lists : ListExpires(l)

\* TTLs pass; nobody has to read or to write.
CataloguesFairness == \A l \in Lists : WF_listVars(ListExpires(l))

-----------------------------------------------------------------------------
(* Properties.                                                             *)

\* Once categories and tags change no more, every list is gone or shows them as they
\* are, for good: the patterns of invalidateReadCaches match no key, and a read that
\* began before the last change can put the old list back after it, but only once.
ListsCatchUp ==
  \A l \in Lists :
    <>[](list[l] = NoList \/ \A t \in Shows(l) : list[l][t] = table[t])
=============================================================================
