------------------------------- MODULE Support --------------------------------
(***************************************************************************)
(* The disjoint sum of four parts that share no state: ArticleParts,       *)
(* Catalogues, RateLimit and Backup (with WriteBatches).  A behaviour is   *)
(* one of the part that the initial state names; the others rest.          *)
(***************************************************************************)
EXTENDS ArticleParts, Catalogues, RateLimit, Backup

VARIABLE part

supportVars == <<part, partVars, listVars, limitVars, backupVars>>

-----------------------------------------------------------------------------
SupportInit ==
  /\ part \in {"articleParts", "catalogues", "rateLimit", "backup"}
  /\ PartsInit /\ CataloguesInit /\ LimitInit /\ BackupInit

SupportNext ==
  /\ UNCHANGED part
  /\ \/ /\ part = "articleParts" /\ PartsNext
        /\ UNCHANGED <<listVars, limitVars, backupVars>>
     \/ /\ part = "catalogues" /\ CataloguesNext
        /\ UNCHANGED <<partVars, limitVars, backupVars>>
     \/ /\ part = "rateLimit" /\ LimitNext
        /\ UNCHANGED <<partVars, listVars, backupVars>>
     \/ /\ part = "backup" /\ BackupNext
        /\ UNCHANGED <<partVars, listVars, limitVars>>

SupportSpec ==
  /\ SupportInit /\ [][SupportNext]_supportVars
  /\ CataloguesFairness
=============================================================================
