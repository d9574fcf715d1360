---------------------------- MODULE MCOrchestrator ----------------------------
(* Small instances of Orchestrator for TLC: the track lists that the site   *)
(* may answer with are always the same one, or now and then empty.          *)
EXTENDS DownloadCards

CONSTANTS rj1, rj2, t1, t2, w1, w2

Catalogue1  == {{t1}}
Catalogue2  == {{t1, t2}}
CatalogueOrNone == {{}, {t1, t2}}
=============================================================================
